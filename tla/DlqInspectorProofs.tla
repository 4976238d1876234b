------------------------- MODULE DlqInspectorProofs -------------------------
(***************************************************************************)
(* Proofs about one run of the inspector: what it has printed when it      *)
(* ends by itself, and in which order.                                     *)
(***************************************************************************)
EXTENDS DlqInspectorProperties, SelectionsProofs, FiniteSetTheorems, TLAPS

Shown(i) == \E n \in DOMAIN printed : printed[n] = i

SomeSeq(s) == \E S : s \in Seq(S)

\* The places and clocks have their types (apps/dlq_inspector.py:94-125); what a
\* letter contains does not matter here.
Basics ==
    /\ SomeSeq(topic)
    /\ args \in [follow : BOOLEAN, limit : Limits]
    /\ pc \in Running \union {"done"}
    /\ why \in {"running", "idle", "limit", "signal", "interrupt"}
    /\ seen \in Nat
    /\ position \in 0..Len(topic)
    /\ mark \in 0..Len(topic)
    /\ idle \in Nat
    /\ waited \in 0..Delay + 1
    /\ printed \in Seq(Nat)
    /\ evictions \in Nat

\* Everything the client has handed out is printed, but for the letter in hand.
HandedOutShown ==
    /\ pc = "poll" => \A i \in 1..position : Shown(i)
    /\ pc = "print" => position > 0 /\ \A i \in 1..position - 1 : Shown(i)
    /\ pc = "start" => idle = 0 /\ waited = 0 /\ position = 0 /\ printed = <<>>

\* While a letter is missing that is still in time, the idle clock shows no more
\* than the decoding of the letter before it and the polls that waited for it.
IdleExplained ==
    /\ pc = "poll" /\ waited <= Delay =>
        \A i \in 1..mark : Shown(i) \/ idle <= MaxDecode + waited
    /\ pc = "print" => idle = 0 /\ waited = 0

\* An idle end is a drained queue if it is in time, and final.
IdleEnd == why = "idle" => pc \in {"close", "report", "done"} /\ DrainedInTime

DInv == Basics /\ HandedOutShown /\ IdleExplained /\ IdleEnd

----------------------------------------------------------------------------

\* One more letter makes the topic longer by one, whatever letters are.
LEMMA Longer ==
    ASSUME NEW s, SomeSeq(s), NEW x
    PROVE  SomeSeq(Append(s, x)) /\ Len(s) \in Nat /\ Len(Append(s, x)) = Len(s) + 1
<1>1. PICK S : s \in Seq(S)
  BY DEF SomeSeq
<1>2. s \in Seq(S \union {x})
  BY <1>1
<1>3. Append(s, x) \in Seq(S \union {x}) /\ Len(Append(s, x)) = Len(s) + 1
  BY <1>2
<1> QED BY <1>1, <1>3 DEF SomeSeq

\* Printing a letter shows it, and hides none (apps/dlq_inspector.py:121).
LEMMA Prints ==
    ASSUME printed \in Seq(Nat), position \in Nat,
           printed' = Append(printed, position)
    PROVE  /\ printed' \in Seq(Nat)
           /\ \E n \in DOMAIN printed' : printed'[n] = position
           /\ \A i : Shown(i) => \E n \in DOMAIN printed' : printed'[n] = i
           /\ Len(printed') = Len(printed) + 1
<1>1. printed' \in Seq(Nat) /\ Len(printed') = Len(printed) + 1
  OBVIOUS
<1>2. printed'[Len(printed) + 1] = position /\ Len(printed) + 1 \in DOMAIN printed'
  OBVIOUS
<1>3. \A n \in DOMAIN printed : n \in DOMAIN printed' /\ printed'[n] = printed[n]
  OBVIOUS
<1>4. ASSUME NEW i, Shown(i) PROVE \E n \in DOMAIN printed' : printed'[n] = i
  BY <1>3, <1>4 DEF Shown
<1> QED BY <1>1, <1>2, <1>4

\* The initial state.
LEMMA DInit == Init => DInv
<1> SUFFICES ASSUME Init PROVE DInv
  OBVIOUS
<1>1. SomeSeq(topic) /\ Len(topic) = 0
  <2>1. topic = <<>> /\ <<>> \in Seq({})
    BY DEF Init
  <2> QED BY <2>1 DEF SomeSeq
<1>2. Basics
  BY <1>1, DurationsAssumption DEF Init, Basics, Running
<1> QED BY <1>2 DEF Init, DInv, HandedOutShown, IdleExplained, IdleEnd, DrainedInTime,
                    Drained

\* Letters arriving disturb nothing (dlq.py:92-111).
LEMMA DPublish ==
    ASSUME DInv, NEW letter, Publish(letter)
    PROVE  DInv'
<1>1. SomeSeq(topic') /\ Len(topic) \in Nat /\ Len(topic') = Len(topic) + 1
  BY Longer DEF Publish, DInv, Basics
<1> USE DEF Publish, output, client, clock, ending, bounds
<1>2. Basics'
  BY <1>1 DEF DInv, Basics
<1>3. HandedOutShown' /\ IdleExplained' /\ IdleEnd'
  BY DEF DInv, HandedOutShown, IdleExplained, IdleEnd, DrainedInTime, Drained, Shown
<1> QED BY <1>2, <1>3 DEF DInv

\* A round begins or the flag ends the loop (apps/dlq_inspector.py:103).
LEMMA NextRoundCases ==
    ASSUME NextRound
    PROVE  \/ pc' = "poll" /\ why' = why
           \/ pc' = "close" /\ why' = "signal"
BY DEF NextRound

\* The clock starts with nothing printed (apps/dlq_inspector.py:97).
LEMMA DStart ==
    ASSUME DInv, Start
    PROVE  DInv'
<1> USE DEF Start, output, client, bounds
<1>1. PICK S : topic \in Seq(S)
  BY DEF DInv, Basics, SomeSeq
<1>2. Len(topic) \in Nat
  BY <1>1
<1>3. Basics'
  BY <1>2, NextRoundCases DEF DInv, Basics, Running, SomeSeq
<1>4. HandedOutShown' /\ IdleExplained'
  BY NextRoundCases, DurationsAssumption
     DEF DInv, Basics, HandedOutShown, IdleExplained, Shown
<1>5. IdleEnd'
  BY NextRoundCases DEF DInv, IdleEnd
<1> QED BY <1>3, <1>4, <1>5 DEF DInv

\* Ticks that pass in a poll are explained by the letter that waits
\* (apps/dlq_inspector.py:107-113).
LEMMA DElapse ==
    ASSUME DInv, pc = "poll", NEW t \in 0..1, Elapse(t)
    PROVE  /\ idle' \in Nat /\ waited' \in 0..Delay + 1 /\ mark' = mark
           /\ waited' <= Delay =>
                \A i \in 1..mark : Shown(i) \/ idle' <= MaxDecode + waited'
<1> USE DurationsAssumption
<1>1. Len(topic) \in Nat
  <2>1. PICK S : topic \in Seq(S)
    BY DEF DInv, Basics, SomeSeq
  <2> QED BY <2>1
<1>2. idle' \in Nat /\ idle' <= idle + t
  BY DEF Elapse, Counted, DInv, Basics
<1>3. waited' \in 0..Delay + 1 /\ mark' = mark
  BY <1>1 DEF Elapse, Counted, Waiting, DInv, Basics
<1>4. ASSUME NEW i \in 1..mark, ~Shown(i), waited' <= Delay
      PROVE  idle' <= MaxDecode + waited'
  <2>1. position < Len(topic)
    BY <1>1, <1>4 DEF DInv, Basics, HandedOutShown
  <2>2. waited' = waited + t
    BY <1>4, <2>1 DEF Elapse, Counted, Waiting, DInv, Basics
  <2>3. waited <= Delay
    BY <1>4, <2>2 DEF DInv, Basics
  <2>4. idle <= MaxDecode + waited
    BY <1>4, <2>3 DEF DInv, IdleExplained
  <2> QED BY <1>2, <2>2, <2>4 DEF DInv, Basics
<1>5. waited' <= Delay => \A i \in 1..mark : Shown(i) \/ idle' <= MaxDecode + waited'
  BY <1>4, Zenon
<1> QED BY <1>2, <1>3, <1>5

\* A clock beyond the timeout shows more than a wait in time and a decode.
LEMMA RoomToWait ==
    ASSUME Delay + MaxDecode <= IdleTimeout, NEW i \in Nat, i > IdleTimeout,
           NEW w \in Nat, w <= Delay
    PROVE  ~(i <= MaxDecode + w)
BY DurationsAssumption

\* The idle test finds the queue drained, given time enough
\* (apps/dlq_inspector.py:111).
LEMMA DIdleCheck ==
    ASSUME DInv, pc = "poll", NEW t \in 0..1, Elapse(t), IdleCheck,
           Delay + MaxDecode <= IdleTimeout,
           printed' = printed, args' = args
    PROVE  IdleEnd' /\ (pc' = "poll" \/ pc' = "close")
           /\ why' \in {"running", "idle", "limit", "signal", "interrupt"}
<1> USE DurationsAssumption
<1>1. CASE QueueIdle(idle') /\ pc' = "close" /\ why' = "idle"
  <2>1. idle' > IdleTimeout /\ idle' \in Nat /\ waited' \in 0..Delay + 1 /\ mark' = mark
    BY <1>1, DElapse DEF QueueIdle
  <2>2. waited' \in Nat
    BY <2>1
  <2> HIDE DurationsAssumption
  <2>3. waited' <= Delay => ~(idle' <= MaxDecode + waited')
    BY <2>1, <2>2, RoomToWait
  <2>4. waited' <= Delay => \A i \in 1..mark : Shown(i)
    BY <2>3, DElapse
  <2> QED BY <1>1, <2>1, <2>4 DEF IdleEnd, DrainedInTime, Drained, Shown
<1>2. CASE NextRound
  <2>1. why # "idle"
    BY DEF DInv, IdleEnd
  <2>2. why \in {"running", "idle", "limit", "signal", "interrupt"}
    BY DEF DInv, Basics
  <2> QED BY <1>2, <2>1, <2>2, NextRoundCases DEF IdleEnd
<1> QED BY <1>1, <1>2 DEF IdleCheck

\* A poll without a letter leaves the rest of the invariant alone.
LEMMA DQuietPoll ==
    ASSUME DInv, pc = "poll", NEW t \in 0..1, Elapse(t),
           pc' = "poll" \/ pc' = "close",
           why' \in {"running", "idle", "limit", "signal", "interrupt"},
           UNCHANGED <<topic, args, seen, position, printed, evictions>>
    PROVE  Basics' /\ HandedOutShown' /\ IdleExplained'
<1>1. Basics'
  BY DElapse DEF DInv, Basics, Running, SomeSeq
<1>2. HandedOutShown'
  BY DEF DInv, HandedOutShown, Shown
<1>3. IdleExplained'
  BY DElapse DEF DInv, IdleExplained, Shown
<1> QED BY <1>1, <1>2, <1>3

\* A poll that times out, ends at the end of the partition, or fails
\* (apps/dlq_inspector.py:104-116).
LEMMA DPoll ==
    ASSUME DInv, PollNone \/ PollEof \/ PollError, Delay + MaxDecode <= IdleTimeout
    PROVE  DInv'
<1> USE DEF output, client, bounds
<1>1. CASE PollNone
  BY <1>1, DQuietPoll, DIdleCheck DEF PollNone, DInv
<1>2. CASE PollEof
  <2>1. PICK t \in 0..1 : Elapse(t)
    BY <1>2 DEF PollEof
  <2> QED BY <1>2, <2>1, DQuietPoll, DIdleCheck DEF PollEof, DInv
<1>3. CASE PollError
  <2>1. PICK t \in 0..1 : Elapse(t)
    BY <1>3 DEF PollError
  <2>2. why # "idle" /\ why \in {"running", "idle", "limit", "signal", "interrupt"}
    BY <1>3 DEF PollError, DInv, IdleEnd, Basics
  <2>3. /\ pc' = "poll" \/ pc' = "close"
        /\ why' \in {"running", "idle", "limit", "signal", "interrupt"}
        /\ why' # "idle"
    BY <1>3, <2>2, NextRoundCases DEF PollError
  <2> QED BY <1>3, <2>1, <2>3, DQuietPoll DEF PollError, DInv, IdleEnd
<1> QED BY <1>1, <1>2, <1>3

\* A letter restarts the clock (apps/dlq_inspector.py:118-120).
LEMMA DLetter ==
    ASSUME DInv, PollLetter
    PROVE  DInv'
<1> USE DEF PollLetter, ending, DInv
<1>1. Len(topic) \in Nat
  <2>1. PICK S : topic \in Seq(S)
    BY DEF Basics, SomeSeq
  <2> QED BY <2>1
<1>2. Basics'
  <2>1. SomeSeq(topic') /\ Len(topic') = Len(topic)
    BY DEF Basics
  <2>2. position' \in 0..Len(topic') /\ mark' \in 0..Len(topic')
    BY <1>1, <2>1 DEF Basics, Waiting
  <2>3. waited' \in 0..Delay + 1 /\ idle' \in Nat /\ seen' \in Nat
    BY DurationsAssumption DEF Basics
  <2> QED BY <2>1, <2>2, <2>3 DEF Basics, Running, bounds
<1>3. HandedOutShown'
  BY <1>1 DEF Basics, HandedOutShown, Shown
<1>4. IdleExplained' /\ IdleEnd'
  BY DEF IdleExplained, IdleEnd
<1> QED BY <1>2, <1>3, <1>4

\* The letter in hand is printed (apps/dlq_inspector.py:121-125).
LEMMA DPrint ==
    ASSUME DInv, PrintEntry
    PROVE  DInv'
<1> USE DEF PrintEntry, client
<1>1. PICK t \in 0..MaxDecode : idle' = Counted(idle + t, IdleTimeout)
  BY DEF DescribePayload
<1>2. idle' \in Nat /\ idle' <= MaxDecode /\ waited' = 0
  BY <1>1, DurationsAssumption DEF Counted, DInv, IdleExplained, Basics
<1>3. /\ pc' = "poll" \/ pc' = "close"
      /\ why' \in {"running", "idle", "limit", "signal", "interrupt"}
      /\ why' # "idle"
  <2>1. why # "idle" /\ why \in {"running", "idle", "limit", "signal", "interrupt"}
    BY DEF DInv, IdleEnd, Basics
  <2> QED BY <2>1, NextRoundCases
<1>4. printed \in Seq(Nat) /\ position \in Nat
  BY DEF DInv, Basics
<1>5. Basics'
  <2>1. SomeSeq(topic') /\ Len(topic') = Len(topic) /\ printed' \in Seq(Nat)
    BY <1>4, Prints DEF DInv, Basics
  <2>2. waited' \in 0..Delay + 1
    BY DEF DInv, Basics
  <2> QED BY <1>2, <1>3, <2>1, <2>2 DEF DInv, Basics, Running, bounds
<1>6. ASSUME NEW i \in 1..position
      PROVE  Shown(i)'
  <2>1. CASE i = position
    BY <2>1, <1>4, Prints DEF Shown
  <2>2. CASE i \in 1..position - 1
    BY <2>2, <1>4, Prints DEF Shown, DInv, HandedOutShown
  <2> QED BY <2>1, <2>2, <1>4
<1>7. HandedOutShown'
  BY <1>3, <1>6 DEF HandedOutShown
<1>8. IdleExplained' /\ IdleEnd'
  BY <1>2, <1>3, DurationsAssumption DEF IdleExplained, IdleEnd
<1> QED BY <1>5, <1>7, <1>8 DEF DInv

\* Closing, reporting, the client and the signals (apps/dlq_inspector.py:126-136).
LEMMA DRest ==
    ASSUME DInv,
           Close \/ Report \/ Join \/ Evicted \/ ReachEnd \/ FirstSignal \/ SecondSignal
    PROVE  DInv'
<1> USE DEF DInv, output, client, clock, ending, bounds
<1>1. CASE Close \/ Report
  BY <1>1 DEF Close, Report, Basics, Running, SomeSeq, HandedOutShown, IdleExplained,
              IdleEnd, DrainedInTime, Drained, Shown
<1>2. CASE Join \/ ReachEnd
  <2>1. UNCHANGED <<topic, args, pc, why, seen, position, printed, evictions, clock>>
    BY <1>2 DEF Join, ReachEnd
  <2>2. Basics'
    BY <2>1 DEF Basics, SomeSeq
  <2> QED BY <2>1, <2>2 DEF HandedOutShown, IdleExplained, IdleEnd, DrainedInTime,
                            Drained, Shown
<1>3. CASE Evicted
  <2>1. Len(topic) \in Nat
    <3>1. PICK S : topic \in Seq(S)
      BY DEF Basics, SomeSeq
    <3> QED BY <3>1
  <2>2. Basics'
    BY <1>3, <2>1 DEF Evicted, Basics, SomeSeq
  <2> QED BY <1>3, <2>2 DEF Evicted, HandedOutShown, IdleExplained, IdleEnd,
                            DrainedInTime, Drained, Shown
<1>4. CASE FirstSignal
  BY <1>4 DEF FirstSignal, Signalled, Basics, SomeSeq, HandedOutShown, IdleExplained,
              IdleEnd, DrainedInTime, Drained, Shown
<1>5. CASE SecondSignal
  BY <1>5 DEF SecondSignal, Signalled, Basics, Running, SomeSeq, HandedOutShown,
              IdleExplained, IdleEnd, DrainedInTime, Drained, Shown
<1> QED BY <1>1, <1>2, <1>3, <1>4, <1>5

\* A step that changes nothing.
LEMMA DStutter ==
    ASSUME DInv, UNCHANGED vars
    PROVE  DInv'
BY DEF DInv, vars, output, client, clock, ending, bounds, Basics, SomeSeq,
       HandedOutShown, IdleExplained, IdleEnd, DrainedInTime, Drained, Shown

\* An inspector that ends by itself while no letter is overdue has printed
\* everything that was in the topic when its idle clock last restarted, if the
\* timeout leaves room for a wait and a decode (apps/dlq_inspector.py:107).
THEOREM QueueDrained ==
    ASSUME Delay + MaxDecode <= IdleTimeout
    PROVE  Spec => []DrainedInTime
<1>1. DInv /\ [Next]_vars => DInv'
  <2> SUFFICES ASSUME DInv, [Next]_vars PROVE DInv'
    OBVIOUS
  <2>1. ASSUME NEW sender \in Senders, NEW failure \in Failures, Fail(sender, failure)
        PROVE  DInv'
    BY <2>1, DPublish DEF Fail
  <2>2. ASSUME NEW i \in DOMAIN topic, NEW failure \in Failures, Replay(i, failure)
        PROVE  DInv'
    BY <2>2, DPublish DEF Replay
  <2>3. CASE ThreadStep \/ PollError
    BY <2>3, DStart, DPoll, DLetter, DPrint, DRest DEF ThreadStep
  <2>4. CASE Join \/ Evicted \/ ReachEnd \/ FirstSignal \/ SecondSignal
    BY <2>4, DRest
  <2>5. CASE UNCHANGED vars
    BY <2>5, DStutter
  <2> QED BY <2>1, <2>2, <2>3, <2>4, <2>5 DEF Next
<1>2. DInv => DrainedInTime
  BY DEF DInv, IdleEnd, DrainedInTime, Drained
<1> QED BY DInit, <1>1, <1>2, PTL DEF Spec

----------------------------------------------------------------------------
(* The order of the entries. *)

Ones == {n \in DOMAIN printed : printed[n] = 1}

\* What the order depends on has its type (apps/dlq_inspector.py:94-125).
Shape ==
    /\ args \in [follow : BOOLEAN, limit : Limits]
    /\ seen \in Nat
    /\ position \in Nat
    /\ printed \in Seq(Nat)
    /\ evictions \in Nat

\* The last entry printed is the last letter handed out, or the one before it
\* while that is being decoded.
LastPrinted ==
    /\ pc = "poll" /\ position > 0 =>
        Len(printed) > 0 /\ printed[Len(printed)] = position
    /\ pc = "print" /\ position > 1 =>
        Len(printed) > 0 /\ printed[Len(printed)] = position - 1
    /\ pc = "print" => position > 0
    /\ pc = "start" => position = 0 /\ printed = <<>> /\ seen = 0

\* The topic is begun once more than the assignment was lost, at most.
Restarts ==
    /\ IsFiniteSet(Ones)
    /\ Cardinality(Ones) <= evictions + 1
    /\ position = 0 \/ (pc = "print" /\ position = 1) => Cardinality(Ones) <= evictions

\* The loop goes on only while there is room below the limit.
BelowLimit ==
    /\ pc = "poll" => seen = Len(printed) /\ (args.limit > 0 => seen < args.limit)
    /\ pc = "print" => seen = Len(printed) + 1 /\ (args.limit > 0 => seen <= args.limit)

OInv == Shape /\ PrintedInOrder /\ LastPrinted /\ Restarts /\ BelowLimit

\* The initial state.
LEMMA OInit == Init => OInv
<1> SUFFICES ASSUME Init PROVE OInv
  OBVIOUS
<1>1. printed = <<>> /\ Ones = {}
  BY DEF Init, Ones
<1>2. Cardinality(Ones) = 0 /\ IsFiniteSet(Ones)
  BY <1>1, FS_EmptySet
<1>3. Shape /\ LastPrinted /\ Restarts /\ BelowLimit
  BY <1>1, <1>2 DEF Init, Shape, LastPrinted, Restarts, BelowLimit
<1>4. PrintedInOrder
  <2>1. /\ Len(printed) = 0
        /\ \A n \in 1..Len(printed) - 1 : printed[n + 1] \in {1, printed[n] + 1}
    BY <1>1
  <2>2. args.limit > 0 => Len(printed) <= args.limit
    <3>1. args.limit \in Nat
      <4>1. args \in [follow : BOOLEAN, limit : Limits]
        BY DEF Init
      <4> QED BY <4>1, LimitsAssumption
    <3> QED BY <2>1, <3>1
  <2>3. Cardinality({n \in DOMAIN printed : printed[n] = 1}) <= evictions + 1
    BY <1>2 DEF Init, Ones
  <2> QED BY <1>1, <2>1, <2>2, <2>3 DEF PrintedInOrder
<1> QED BY <1>3, <1>4 DEF OInv

\* Steps that hand out and print nothing.
LEMMA OQuiet ==
    ASSUME OInv, UNCHANGED <<args, seen, position, printed, evictions>>,
           \/ pc' = pc
           \/ pc' \in {"close", "report", "done"}
           \/ pc = "start" /\ pc' = "poll"
    PROVE  OInv'
<1> USE DEF OInv
<1>1. Ones' = Ones
  BY DEF Ones
<1>2. Shape' /\ LastPrinted' /\ Restarts'
  BY <1>1 DEF Shape, LastPrinted, Restarts
<1>3. BelowLimit'
  BY LimitsAssumption DEF BelowLimit, LastPrinted, Shape
<1>4. PrintedInOrder'
  BY DEF PrintedInOrder
<1> QED BY <1>2, <1>3, <1>4

\* A letter is handed out (apps/dlq_inspector.py:118-119).
LEMMA OLetter ==
    ASSUME OInv, PollLetter
    PROVE  OInv'
<1> USE DEF OInv, PollLetter, bounds
<1>1. Ones' = Ones
  BY DEF Ones
<1>2. Shape' /\ LastPrinted' /\ Restarts'
  BY <1>1 DEF Shape, LastPrinted, Restarts
<1>3. BelowLimit'
  <2>1. /\ pc = "poll" /\ pc' = "print" /\ seen' = seen + 1
        /\ args' = args /\ printed' = printed
    OBVIOUS
  <2>2. args.limit \in Nat /\ seen \in Nat
    BY LimitsAssumption DEF Shape
  <2> QED BY <2>1, <2>2 DEF BelowLimit
<1>4. PrintedInOrder'
  BY DEF PrintedInOrder
<1> QED BY <1>2, <1>3, <1>4

\* The assignment is lost (apps/dlq_inspector.py:89: nothing is committed).
LEMMA OEvicted ==
    ASSUME OInv, Evicted
    PROVE  OInv'
<1> USE DEF OInv, Evicted, output
<1>1. Ones' = Ones
  BY DEF Ones
<1>2. Cardinality(Ones) \in Nat
  BY FS_CardinalityType DEF Restarts
<1>3. Shape' /\ LastPrinted' /\ Restarts'
  BY <1>1, <1>2 DEF Shape, LastPrinted, Restarts
<1>4. BelowLimit'
  BY DEF BelowLimit
<1>5. PrintedInOrder'
  BY <1>1, <1>2 DEF PrintedInOrder, Ones, Shape
<1> QED BY <1>3, <1>4, <1>5

\* The letter handed out is printed behind the one before it
\* (apps/dlq_inspector.py:121-125).
LEMMA OPrint ==
    ASSUME OInv, PrintEntry
    PROVE  OInv'
<1> USE DEF OInv, PrintEntry, client, bounds
<1>1. /\ printed \in Seq(Nat) /\ position \in Nat \ {0} /\ evictions \in Nat
      /\ evictions' = evictions /\ position' = position
  BY DEF Shape, LastPrinted
<1> DEFINE last == Len(printed) + 1
<1>2. /\ printed' \in Seq(Nat)
      /\ Len(printed') = last /\ last \in Nat
      /\ printed'[last] = position
      /\ \A n \in 1..Len(printed) : printed'[n] = printed[n]
      /\ DOMAIN printed = 1..Len(printed) /\ DOMAIN printed' = 1..last
  BY <1>1
<1>3. Ones' = IF position = 1 THEN Ones \union {last} ELSE Ones
  BY <1>1, <1>2 DEF Ones
<1>4. IsFiniteSet(Ones) /\ Cardinality(Ones) \in Nat /\ last \notin Ones
  <2>1. last \notin DOMAIN printed
    BY <1>2
  <2>2. last \notin Ones
    BY <2>1 DEF Ones
  <2>3. IsFiniteSet(Ones)
    BY DEF Restarts
  <2> QED BY <2>2, <2>3, FS_CardinalityType
<1>5. /\ IsFiniteSet(Ones')
      /\ Cardinality(Ones') = Cardinality(Ones) + (IF position = 1 THEN 1 ELSE 0)
  <2>1. /\ IsFiniteSet(Ones \union {last})
        /\ Cardinality(Ones \union {last}) = Cardinality(Ones) + 1
    BY <1>4, FS_AddElement
  <2>2. CASE position = 1
    <3>1. Ones' = Ones \union {last}
      BY <1>3, <2>2
    <3> HIDE DEF OInv, PrintEntry
    <3> QED BY <2>1, <2>2, <3>1
  <2>3. CASE position # 1
    <3>1. Ones' = Ones
      BY <1>3, <2>3
    <3> HIDE DEF OInv, PrintEntry
    <3> QED BY <1>4, <2>3, <3>1
  <2> QED BY <2>2, <2>3
<1>6. pc' \in {"poll", "close"}
  BY NextRoundCases
<1>7. Shape' /\ LastPrinted'
  BY <1>1, <1>2, <1>6 DEF Shape, LastPrinted
<1>8. Cardinality(Ones') <= evictions + 1
  BY <1>1, <1>4, <1>5 DEF Restarts
<1>9. Restarts'
  BY <1>1, <1>5, <1>6, <1>8 DEF Restarts
<1>10. args.limit \in Nat /\ args' = args /\ seen' = seen /\ seen = last
  BY LimitsAssumption DEF Shape, BelowLimit
<1>11. BelowLimit'
  BY <1>2, <1>6, <1>10, NextRoundCases DEF BelowLimit, LimitReached, Shape
<1>12. PrintedInOrder'
  <2>1. printed'[1] = 1
    BY <1>1, <1>2 DEF PrintedInOrder, LastPrinted
  <2>2. \A n \in 1..last - 1 : printed'[n + 1] \in {1, printed'[n] + 1}
    <3>1. ASSUME NEW n \in 1..last - 1, n + 1 = last
          PROVE  printed'[n + 1] \in {1, printed'[n] + 1}
      BY <1>1, <1>2, <3>1 DEF LastPrinted
    <3>2. ASSUME NEW n \in 1..last - 1, n + 1 # last
          PROVE  printed'[n + 1] \in {1, printed'[n] + 1}
      BY <1>1, <1>2, <3>2 DEF PrintedInOrder
    <3> QED BY <3>1, <3>2
  <2>3. args'.limit > 0 => last <= args'.limit
    BY <1>10 DEF BelowLimit
  <2>4. Cardinality(Ones') <= evictions' + 1
    BY <1>1, <1>8
  <2> QED BY <1>2, <2>1, <2>2, <2>3, <2>4 DEF PrintedInOrder, Ones
<1> QED BY <1>7, <1>9, <1>11, <1>12

\* Entries come in the order of the topic, start over only with a new assignment,
\* and keep to the limit (apps/dlq_inspector.py:103-125).
THEOREM OrderKept == Spec => []PrintedInOrder
<1>1. OInv /\ [Next]_vars => OInv'
  <2> SUFFICES ASSUME OInv, [Next]_vars PROVE OInv'
    OBVIOUS
  <2> USE DEF output, client, clock, ending, bounds
  <2>1. ASSUME NEW letter, Publish(letter) PROVE OInv'
    BY <2>1, OQuiet DEF Publish
  <2>2. CASE Start
    BY <2>2, OQuiet, NextRoundCases DEF Start
  <2>3. CASE PollNone
    BY <2>3, OQuiet, NextRoundCases DEF PollNone, IdleCheck
  <2>4. CASE PollEof
    BY <2>4, OQuiet, NextRoundCases DEF PollEof, IdleCheck
  <2>5. CASE PollError
    BY <2>5, OQuiet, NextRoundCases DEF PollError
  <2>6. CASE Close \/ Report
    BY <2>6, OQuiet DEF Close, Report
  <2>7. CASE Join \/ ReachEnd
    BY <2>7, OQuiet DEF Join, ReachEnd
  <2>8. CASE FirstSignal \/ SecondSignal
    BY <2>8, OQuiet DEF FirstSignal, SecondSignal, Signalled
  <2>9. CASE UNCHANGED vars
    BY <2>9, OQuiet DEF vars
  <2> QED BY <2>1, <2>2, <2>3, <2>4, <2>5, <2>6, <2>7, <2>8, <2>9,
             OLetter, OEvicted, OPrint DEF Next, Fail, Replay, ThreadStep
<1>2. OInv => PrintedInOrder
  BY DEF OInv
<1> QED BY OInit, <1>1, <1>2, PTL DEF Spec
----------------------------------------------------------------------------
(* The headers of a letter. *)

\* The headers that are not the consumer's.
Plain == {h \in Header : h.key.prefix \notin ManagedPrefixes}
Own == {h \in Header : h.key.prefix \in ManagedPrefixes}

\* Of a header only the value is filled in (dlq.py:58-64).
LEMMA FilledHeader ==
    ASSUME NEW h \in Header
    PROVE  /\ Filled(h) \in Header
           /\ Filled(h).key = h.key
           /\ Filled(h).value = IF h.value = NoValue THEN "" ELSE h.value
           /\ Filled(Filled(h)) = Filled(h)
<1>1. "" \in Texts /\ "" # NoValue
  BY DEF NoValue, Texts
<1>2. PICK v : v = IF h.value = NoValue THEN "" ELSE h.value
  OBVIOUS
<1>3. v \in Texts /\ v # NoValue
  BY <1>1, <1>2 DEF Header
<1>4. Filled(h) = [key |-> h.key, value |-> v] /\ h.key \in Keys
  <2>1. h \in [key : Keys, value : Texts]
    BY DEF Header
  <2>2. h = [key |-> h.key, value |-> h.value] /\ h.key \in Keys
    BY <2>1
  <2>3. Filled(h) = [h EXCEPT !.value = v]
    BY <1>2 DEF Filled
  <2> QED BY <2>1, <2>2, <2>3
<1>5. Filled(h) \in Header /\ Filled(h).key = h.key /\ Filled(h).value = v
  BY <1>3, <1>4 DEF Header
<1>6. Filled(Filled(h)) = Filled(h)
  BY <1>3, <1>4 DEF Filled
<1> QED
  BY <1>2, <1>5, <1>6

\* normalize_headers keeps places and keys (dlq.py:46-64).
LEMMA NormalizeType ==
    ASSUME NEW raw \in Seq(Header)
    PROVE  /\ Normalize(raw) \in Seq(Header)
           /\ Len(Normalize(raw)) = Len(raw)
           /\ \A i \in 1..Len(raw) : Normalize(raw)[i] = Filled(raw[i])
<1>1. Len(raw) \in Nat /\ DOMAIN raw = 1..Len(raw)
  OBVIOUS
<1>2. Normalize(raw) = [i \in 1..Len(raw) |-> Filled(raw[i])]
  BY <1>1 DEF Normalize
<1>3. ASSUME NEW i \in 1..Len(raw) PROVE Filled(raw[i]) \in Header
  <2>1. raw[i] \in Header
    OBVIOUS
  <2> QED BY <2>1, FilledHeader
<1> QED
  BY <1>1, <1>2, <1>3

\* One list behind the other.
LEMMA HeadersJoined ==
    ASSUME NEW s \in Seq(Header), NEW t \in Seq(Header)
    PROVE  s \o t \in Seq(Header) /\ Len(s \o t) = Len(s) + Len(t)
OBVIOUS

\* Two lists are normalised one after the other.
LEMMA NormalizeConcat ==
    ASSUME NEW a \in Seq(Header), NEW b \in Seq(Header)
    PROVE  Normalize(a \o b) = Normalize(a) \o Normalize(b)
<1>1. a \o b \in Seq(Header) /\ Len(a \o b) = Len(a) + Len(b)
  OBVIOUS
<1>2. /\ Normalize(a) \in Seq(Header) /\ Len(Normalize(a)) = Len(a)
      /\ Normalize(b) \in Seq(Header) /\ Len(Normalize(b)) = Len(b)
  BY NormalizeType
<1>3. /\ Normalize(a) \o Normalize(b) \in Seq(Header)
      /\ Len(Normalize(a) \o Normalize(b)) = Len(a) + Len(b)
  <2>1. /\ Normalize(a) \o Normalize(b) \in Seq(Header)
        /\ Len(Normalize(a) \o Normalize(b)) = Len(Normalize(a)) + Len(Normalize(b))
    BY <1>2, HeadersJoined, Zenon
  <2> QED BY <1>2, <2>1, Zenon
<1>4. Normalize(a \o b) \in Seq(Header) /\ Len(Normalize(a \o b)) = Len(a) + Len(b)
  BY <1>1, NormalizeType
<1>5. ASSUME NEW i \in 1..Len(a) + Len(b)
      PROVE  Normalize(a \o b)[i] = (Normalize(a) \o Normalize(b))[i]
  <2>1. Normalize(a \o b)[i] = Filled((a \o b)[i])
    BY <1>1, NormalizeType
  <2>2. CASE i <= Len(a)
    <3>1. (a \o b)[i] = a[i] /\ i \in 1..Len(a)
      BY <2>2
    <3>2. (Normalize(a) \o Normalize(b))[i] = Normalize(a)[i]
      BY <1>2, <2>2
    <3> QED BY <2>1, <3>1, <3>2, NormalizeType
  <2>3. CASE i > Len(a)
    <3>1. (a \o b)[i] = b[i - Len(a)] /\ i - Len(a) \in 1..Len(b)
      BY <2>3
    <3>2. (Normalize(a) \o Normalize(b))[i] = Normalize(b)[i - Len(a)]
      BY <1>2, <2>3
    <3> QED BY <2>1, <3>1, <3>2, NormalizeType
  <2>4. i <= Len(a) \/ i > Len(a)
    OBVIOUS
  <2> QED BY <2>2, <2>3, <2>4
<1> QED
  BY <1>3, <1>4, <1>5, SeqEqual

\* Filling in twice is filling in once.
LEMMA NormalizeOnce ==
    ASSUME NEW raw \in Seq(Header)
    PROVE  Normalize(Normalize(raw)) = Normalize(raw)
<1> DEFINE n == Normalize(raw)
<1>1. n \in Seq(Header) /\ Len(n) = Len(raw)
  BY NormalizeType
<1>2. Normalize(n) \in Seq(Header) /\ Len(Normalize(n)) = Len(n)
  BY <1>1, NormalizeType
<1>3. ASSUME NEW i \in 1..Len(n) PROVE Normalize(n)[i] = n[i]
  <2>1. n[i] = Filled(raw[i]) /\ Normalize(n)[i] = Filled(n[i])
    BY <1>1, NormalizeType
  <2>2. raw[i] \in Header
    BY <1>1
  <2> QED BY <2>1, <2>2, FilledHeader
<1> QED
  BY <1>1, <1>2, <1>3, SeqEqual

\* One more header.
LEMMA NormalizeAppend ==
    ASSUME NEW a \in Seq(Header), NEW h \in Header
    PROVE  Normalize(Append(a, h)) = Append(Normalize(a), Filled(h))
<1> DEFINE b == Append(a, h)
<1>1. b \in Seq(Header) /\ Len(b) = Len(a) + 1 /\ Len(a) \in Nat
  OBVIOUS
<1>2. Normalize(a) \in Seq(Header) /\ Len(Normalize(a)) = Len(a)
  BY NormalizeType
<1>3. Filled(h) \in Header
  BY FilledHeader
<1>4. /\ Append(Normalize(a), Filled(h)) \in Seq(Header)
      /\ Len(Append(Normalize(a), Filled(h))) = Len(a) + 1
  BY <1>1, <1>2, <1>3
<1>5. Normalize(b) \in Seq(Header) /\ Len(Normalize(b)) = Len(a) + 1
  BY <1>1, NormalizeType
<1>6. ASSUME NEW i \in 1..Len(a) + 1
      PROVE  Normalize(b)[i] = Append(Normalize(a), Filled(h))[i]
  <2>1. Normalize(b)[i] = Filled(b[i])
    BY <1>1, NormalizeType
  <2>2. CASE i <= Len(a)
    <3>1. b[i] = a[i] /\ i \in 1..Len(a)
      BY <1>1, <2>2
    <3>2. Append(Normalize(a), Filled(h))[i] = Normalize(a)[i]
      BY <1>1, <1>2, <2>2
    <3> QED BY <2>1, <3>1, <3>2, NormalizeType
  <2>3. CASE i = Len(a) + 1
    BY <1>1, <1>2, <1>3, <2>1, <2>3
  <2>4. i <= Len(a) \/ i = Len(a) + 1
    BY <1>1
  <2> QED BY <2>2, <2>3, <2>4
<1> HIDE DEF b
<1>7. Normalize(b) = Append(Normalize(a), Filled(h))
  BY <1>1, <1>4, <1>5, <1>6, SeqEqual
<1> QED
  BY <1>7 DEF b

\* The headers that are kept are foreign (dlq.py:133-137).
LEMMA ForeignType ==
    ASSUME NEW raw \in Seq(Header)
    PROVE  Foreign(raw) \in Seq(Plain)
<1> DEFINE I == DOMAIN raw \ Managed(raw)
           T == {raw[i] : i \in I \intersect DOMAIN raw}
<1>1. Foreign(raw) \in Seq(T)
  BY PickedType DEF Foreign
<1>2. T \subseteq Plain
  <2>1. DOMAIN raw = 1..Len(raw)
    OBVIOUS
  <2>2. \A i \in I : raw[i] \in Plain
    BY <2>1 DEF Managed, Plain
  <2> QED BY <2>2
<1> HIDE DEF T
<1> QED
  BY <1>1, <1>2

\* The foreign headers may be filled in before or after the others are dropped
\* (dlq.py:133-137).
LEMMA ForeignNormalized ==
    ASSUME NEW raw \in Seq(Header)
    PROVE  Foreign(Normalize(raw)) = Normalize(Foreign(raw))
<1> DEFINE I == DOMAIN raw \ Managed(raw)
           new == Normalize(raw)
<1>1. new \in Seq(Header) /\ Len(new) = Len(raw) /\ Len(raw) \in Nat
  BY NormalizeType
<1>2. \A i \in 1..Len(raw) : new[i] = Filled(raw[i])
  BY NormalizeType
<1>3. DOMAIN raw = 1..Len(raw) /\ DOMAIN new = 1..Len(raw)
  BY <1>1
<1>4. Foreign(new) = Picked(new, I)
  <2>1. ASSUME NEW i \in 1..Len(raw) PROVE new[i].key = raw[i].key
    <3>1. raw[i] \in Header
      BY <1>3
    <3> QED BY <1>2, <3>1, FilledHeader
  <2>2. Managed(new) = Managed(raw)
    BY <1>3, <2>1 DEF Managed
  <2> QED BY <1>3, <2>2 DEF Foreign
<1> HIDE DEF new
<1>5. PICK g : Picked(raw, I) = g[Len(raw)] /\ PickRule(g, raw, I)
  BY PickedRecursion
<1>6. PICK h : Picked(new, I) = h[Len(new)] /\ PickRule(h, new, I)
  BY <1>1, PickedRecursion
<1> DEFINE S == {m \in Nat : m <= Len(raw) =>
                                g[m] \in Seq(Header) /\ h[m] = Normalize(g[m])}
<1>7. 0 \in S
  <2>1. g[0] = <<>> /\ h[0] = <<>>
    BY <1>5, <1>6 DEF PickRule
  <2>2. Normalize(<<>>) = <<>>
    <3>1. <<>> \in Seq(Header) /\ Len(<<>>) = 0
      OBVIOUS
    <3>2. Normalize(<<>>) \in Seq(Header) /\ Len(Normalize(<<>>)) = 0
      BY <3>1, NormalizeType
    <3> QED BY <3>2
  <2>3. <<>> \in Seq(Header)
    OBVIOUS
  <2> QED BY <2>1, <2>2, <2>3
<1>8. ASSUME NEW m \in Nat, m \in S
      PROVE  m + 1 \in S
  <2> SUFFICES ASSUME m + 1 <= Len(raw)
               PROVE  g[m + 1] \in Seq(Header) /\ h[m + 1] = Normalize(g[m + 1])
    OBVIOUS
  <2>1. g[m] \in Seq(Header) /\ h[m] = Normalize(g[m])
    BY <1>1, <1>8
  <2>2. m + 1 \in 1..Len(raw) /\ m + 1 \in 1..Len(new) /\ m + 1 - 1 = m
    BY <1>1
  <2>3. g[m + 1] = IF m + 1 \in I THEN Append(g[m], raw[m + 1]) ELSE g[m]
    BY <1>5, <2>2 DEF PickRule
  <2>4. h[m + 1] = IF m + 1 \in I THEN Append(h[m], new[m + 1]) ELSE h[m]
    BY <1>6, <2>2 DEF PickRule
  <2>5. raw[m + 1] \in Header /\ new[m + 1] = Filled(raw[m + 1])
    BY <1>2, <1>3, <2>2
  <2> HIDE DEF I
  <2>6. CASE m + 1 \in I
    <3>1. g[m + 1] = Append(g[m], raw[m + 1])
      BY <2>3, <2>6
    <3>2. h[m + 1] = Append(Normalize(g[m]), Filled(raw[m + 1]))
      BY <2>1, <2>4, <2>5, <2>6
    <3>3. Normalize(Append(g[m], raw[m + 1])) = Append(Normalize(g[m]), Filled(raw[m + 1]))
      BY <2>1, <2>5, NormalizeAppend
    <3>4. Append(g[m], raw[m + 1]) \in Seq(Header)
      BY <2>1, <2>5
    <3> QED BY <3>1, <3>2, <3>3, <3>4
  <2>7. CASE m + 1 \notin I
    BY <2>1, <2>3, <2>4, <2>7
  <2> QED BY <2>6, <2>7
<1> HIDE DEF S, I
<1>9. Len(raw) \in S
  BY <1>1, <1>7, <1>8, SetInduction
<1>10. h[Len(raw)] = Normalize(g[Len(raw)])
  BY <1>1, <1>9 DEF S
<1>11. Foreign(raw) = g[Len(raw)] /\ Foreign(new) = h[Len(raw)]
  BY <1>1, <1>4, <1>5, <1>6 DEF Foreign, I
<1> QED
  BY <1>10, <1>11 DEF new

\* Foreign headers in front of the consumer's own are told apart
\* (dlq.py:131-140).
LEMMA Split ==
    ASSUME NEW f \in Seq(Plain), NEW o \in Seq(Own)
    PROVE  /\ Foreign(f \o o) = f
           /\ Picked(f \o o, Managed(f \o o)) = o
<1>1. f \in Seq(Header) /\ o \in Seq(Header)
  BY DEF Plain, Own
<1> DEFINE u == f \o o
<1>2. u \in Seq(Header) /\ Len(u) = Len(f) + Len(o) /\ DOMAIN u = 1..Len(f) + Len(o)
  BY <1>1
<1>3. ASSUME NEW i \in 1..Len(f) + Len(o)
      PROVE  i \in Managed(u) <=> i > Len(f)
  <2>1. CASE i <= Len(f)
    <3>1. u[i] = f[i] /\ f[i] \in Plain
      BY <2>1
    <3> QED BY <2>1, <3>1 DEF Managed, Plain
  <2>2. CASE i > Len(f)
    <3>1. u[i] = o[i - Len(f)] /\ i - Len(f) \in 1..Len(o)
      BY <2>2
    <3>2. u[i].key.prefix \in ManagedPrefixes
      BY <3>1 DEF Own
    <3>3. i \in DOMAIN u
      BY <1>2
    <3> QED BY <2>2, <3>2, <3>3 DEF Managed
  <2> QED BY <2>1, <2>2
<1>4. \A i \in 1..Len(f) + Len(o) : i \in DOMAIN u \ Managed(u) <=> i <= Len(f)
  BY <1>2, <1>3
<1>5. Foreign(u) = f
  <2> DEFINE I == DOMAIN u \ Managed(u)
  <2>1. \A i \in 1..Len(f) + Len(o) : i \in I <=> i <= Len(f)
    BY <1>4
  <2> HIDE DEF I
  <2>2. Picked(f \o o, I) = f
    BY <1>1, <2>1, PickedFirst
  <2> QED BY <2>2 DEF Foreign, I
<1>6. Picked(u, Managed(u)) = o
  <2> DEFINE I == Managed(u)
  <2>1. \A i \in 1..Len(f) + Len(o) : i \in I <=> i > Len(f)
    BY <1>3
  <2> HIDE DEF I
  <2>2. Picked(f \o o, I) = o
    BY <1>1, <2>1, PickedSecond
  <2> QED BY <2>2 DEF I
<1> QED
  BY <1>5, <1>6

\* What the consumer writes of a failure (dlq.py:138-150).
LEMMA OwnHeaders ==
    ASSUME NEW failure \in Failures, NEW off \in 0..MaxLetters
    PROVE  /\ FailureHeaders(failure, off) \in Seq(Own)
           /\ Len(FailureHeaders(failure, off)) = 4
           /\ \A i \in 1..4 : FailureHeaders(failure, off)[i].key = HEADER_REASON <=> i = 1
           /\ FailureHeaders(failure, off)[1].value = Classify(failure.error)
<1>1. failure \in [error : ErrorClasses, attempts : Nat]
  BY FailuresAssumption
<1>2. Classify(failure.error) \in Reasons
  BY DEF Classify, Reasons
<1>3. /\ failure.error \in Texts /\ Classify(failure.error) \in Texts
      /\ Decimal(failure.attempts) \in Texts /\ Decimal(off) \in Texts
  <2>1. Decimal(failure.attempts) \in Decimals /\ Decimal(off) \in Decimals
    BY DEF Decimals
  <2> QED BY <1>1, <1>2, <2>1 DEF Texts
<1>4. {HEADER_REASON, HEADER_ERROR_CLASS, HEADER_ATTEMPTS, HEADER_ORIGIN_OFFSET}
        \subseteq Keys
  BY DEF Keys
<1>5. \A key \in {HEADER_REASON, HEADER_ERROR_CLASS, HEADER_ATTEMPTS,
                  HEADER_ORIGIN_OFFSET} : key.prefix \in ManagedPrefixes
  BY DEF HEADER_REASON, HEADER_ERROR_CLASS, HEADER_ATTEMPTS, HEADER_ORIGIN_OFFSET,
         ManagedPrefixes
<1>6. /\ HEADER_REASON # HEADER_ERROR_CLASS
      /\ HEADER_REASON # HEADER_ATTEMPTS
      /\ HEADER_REASON # HEADER_ORIGIN_OFFSET
  BY DEF HEADER_REASON, HEADER_ERROR_CLASS, HEADER_ATTEMPTS, HEADER_ORIGIN_OFFSET
<1>7. /\ [key |-> HEADER_REASON, value |-> Classify(failure.error)] \in Own
      /\ [key |-> HEADER_ERROR_CLASS, value |-> failure.error] \in Own
      /\ [key |-> HEADER_ATTEMPTS, value |-> Decimal(failure.attempts)] \in Own
      /\ [key |-> HEADER_ORIGIN_OFFSET, value |-> Decimal(off)] \in Own
  BY <1>3, <1>4, <1>5 DEF Own, Header
<1> HIDE DEF Own
<1> QED
  BY <1>6, <1>7 DEF FailureHeaders

----------------------------------------------------------------------------
(* The letters in the topic, over any number of rounds of replay. *)

\* A letter has the foreign headers its order was sent with, filled in, and then
\* those of its own failure (dlq.py:124-150).
Built(l) ==
    /\ l.off \in 0..MaxLetters
    /\ l.headers = Normalize(Foreign(l.sender)) \o FailureHeaders(l.failure, l.off)

TopicInv ==
    /\ topic \in Seq(Letter)
    /\ Len(topic) <= MaxLetters
    /\ \A i \in DOMAIN topic : Built(topic[i])

\* What an order can be sent with.
LEMMA SenderHeaders ==
    ASSUME NEW sender \in Senders
    PROVE  sender \in Seq(Header)
<1> DEFINE Pair == [key : [prefix : STRING, name : STRING], value : STRING]
<1>1. sender \in Seq(Pair)
  BY SendersAssumption
<1>2. ASSUME NEW i \in DOMAIN sender PROVE sender[i] \in Header
  <2>1. sender[i] \in Pair
    <3> HIDE DEF Pair
    <3>1. i \in 1..Len(sender)
      BY <1>1
    <3> QED BY <1>1, <3>1
  <2>2. sender[i] = [key |-> sender[i].key, value |-> sender[i].value]
    BY <2>1
  <2>3. sender[i] \in Sent
    BY DEF Sent
  <2> HIDE DEF Sent
  <2>4. sender[i].key \in Keys /\ sender[i].value \in Texts
    BY <2>3 DEF Keys, Texts
  <2> QED BY <2>2, <2>4 DEF Header
<1> QED
  BY <1>1, <1>2

\* Filling in makes no header foreign, and none the consumer's.
LEMMA NormalizeSides ==
    /\ \A f \in Seq(Plain) : Normalize(f) \in Seq(Plain)
    /\ \A o \in Seq(Own) : Normalize(o) \in Seq(Own)
<1>1. ASSUME NEW f \in Seq(Plain) PROVE Normalize(f) \in Seq(Plain)
  <2>1. f \in Seq(Header)
    BY DEF Plain
  <2>2. /\ Normalize(f) \in Seq(Header) /\ Len(Normalize(f)) = Len(f)
        /\ \A i \in 1..Len(f) : Normalize(f)[i] = Filled(f[i])
    BY <2>1, NormalizeType
  <2>3. ASSUME NEW i \in 1..Len(f) PROVE Normalize(f)[i] \in Plain
    <3>1. f[i] \in Header /\ f[i].key.prefix \notin ManagedPrefixes
      BY DEF Plain
    <3> QED BY <2>2, <3>1, FilledHeader DEF Plain
  <2> QED BY <2>2, <2>3
<1>2. ASSUME NEW o \in Seq(Own) PROVE Normalize(o) \in Seq(Own)
  <2>1. o \in Seq(Header)
    BY DEF Own
  <2>2. /\ Normalize(o) \in Seq(Header) /\ Len(Normalize(o)) = Len(o)
        /\ \A i \in 1..Len(o) : Normalize(o)[i] = Filled(o[i])
    BY <2>1, NormalizeType
  <2>3. ASSUME NEW i \in 1..Len(o) PROVE Normalize(o)[i] \in Own
    <3>1. o[i] \in Header /\ o[i].key.prefix \in ManagedPrefixes
      BY DEF Own
    <3> QED BY <2>2, <3>1, FilledHeader DEF Own
  <2> QED BY <2>2, <2>3
<1> QED
  BY <1>1, <1>2

\* The two parts of the headers of a letter.
LEMMA Parts ==
    ASSUME NEW l \in Letter, Built(l)
    PROVE  /\ Foreign(l.sender) \in Seq(Plain)
           /\ Normalize(Foreign(l.sender)) \in Seq(Plain)
           /\ FailureHeaders(l.failure, l.off) \in Seq(Own)
<1>1. l.sender \in Seq(Header) /\ l.failure \in Failures /\ l.off \in 0..MaxLetters
  BY SenderHeaders DEF Letter, Built
<1> QED
  BY <1>1, ForeignType, NormalizeSides, OwnHeaders

\* A letter copied back brings the foreign headers of its order, and none of its
\* own failure into the next round (dlq.py:131-137).
LEMMA ReplayForgets ==
    ASSUME NEW l \in Letter, Built(l)
    PROVE  Foreign(Normalize(l.headers)) = Normalize(Foreign(l.sender))
<1> DEFINE f == Normalize(Foreign(l.sender))
           o == FailureHeaders(l.failure, l.off)
<1>1. f \in Seq(Plain) /\ o \in Seq(Own)
  BY Parts
<1>2. f \in Seq(Header) /\ o \in Seq(Header)
  BY <1>1 DEF Plain, Own
<1>3. Normalize(f) = f
  <2>1. Foreign(l.sender) \in Seq(Plain)
    BY Parts
  <2>2. Foreign(l.sender) \in Seq(Header)
    BY <2>1 DEF Plain
  <2> QED BY <2>2, NormalizeOnce
<1>4. l.headers = f \o o
  BY DEF Built
<1> HIDE DEF f, o
<1>5. Normalize(l.headers) = f \o Normalize(o)
  BY <1>2, <1>3, <1>4, NormalizeConcat
<1>6. Normalize(o) \in Seq(Own)
  BY <1>1, NormalizeSides
<1>7. Foreign(f \o Normalize(o)) = f
  BY <1>1, <1>6, Split
<1> QED
  BY <1>5, <1>7 DEF f

\* A letter is written the same way for an order that fails the first time and
\* for one that was replayed (dlq.py:92-150).
LEMMA PublishBuilds ==
    ASSUME TopicInv, NEW raw, NEW sender \in Senders, NEW failure \in Failures,
           Foreign(Normalize(raw)) = Normalize(Foreign(sender)),
           Publish(LetterOf(raw, sender, failure))
    PROVE  TopicInv'
<1> DEFINE l == LetterOf(raw, sender, failure)
<1>1. /\ Len(topic) \in Nat /\ Len(topic) < MaxLetters /\ topic' = Append(topic, l)
      /\ MaxLetters \in Nat
  BY InspectorBounds DEF TopicInv, Publish
<1>2. /\ l.headers = BuildHeaders(raw, failure, Len(topic))
      /\ l.failure = failure /\ l.off = Len(topic) /\ l.sender = sender
      /\ l = [headers |-> l.headers, failure |-> failure, off |-> Len(topic),
              sender |-> sender]
  BY DEF LetterOf
<1> HIDE DEF l
<1>3. Built(l)
  BY <1>1, <1>2 DEF Built, BuildHeaders
<1>4. l.headers \in Seq(Header)
  <2>1. sender \in Seq(Header)
    BY SenderHeaders
  <2>2. Normalize(Foreign(sender)) \in Seq(Header)
    <3>1. Foreign(sender) \in Seq(Plain)
      BY <2>1, ForeignType
    <3> QED BY <3>1, NormalizeSides DEF Plain
  <2>3. Len(topic) \in 0..MaxLetters
    BY <1>1
  <2>4. FailureHeaders(failure, Len(topic)) \in Seq(Header)
    <3>1. FailureHeaders(failure, Len(topic)) \in Seq(Own)
      BY <2>3, OwnHeaders
    <3> QED BY <3>1 DEF Own
  <2> QED BY <1>2, <2>2, <2>4 DEF BuildHeaders
<1>5. l \in Letter
  BY <1>1, <1>2, <1>4 DEF Letter
<1>6. /\ topic' \in Seq(Letter) /\ Len(topic') = Len(topic) + 1
      /\ DOMAIN topic' = 1..Len(topic) + 1
      /\ \A i \in 1..Len(topic) : topic'[i] = topic[i]
      /\ topic'[Len(topic) + 1] = l
  BY <1>1, <1>5 DEF TopicInv
<1>7. ASSUME NEW i \in DOMAIN topic' PROVE Built(topic'[i])
  <2>1. CASE i \in 1..Len(topic)
    BY <1>6, <2>1 DEF TopicInv
  <2>2. CASE i = Len(topic) + 1
    BY <1>3, <1>6, <2>2
  <2> QED BY <1>1, <1>6, <2>1, <2>2
<1>8. Len(topic') <= MaxLetters
  BY <1>1, <1>6
<1> QED
  BY <1>6, <1>7, <1>8 DEF TopicInv

\* What may happen to the topic.
LEMMA TopicSteps ==
    ASSUME [Next]_vars
    PROVE  \/ UNCHANGED topic
           \/ \E sender \in Senders, failure \in Failures : Fail(sender, failure)
           \/ \E i \in DOMAIN topic, failure \in Failures : Replay(i, failure)
BY DEF Next, ThreadStep, Start, PollNone, PollEof, PollError, PollLetter, PrintEntry,
       Close, Report, Join, Evicted, ReachEnd, FirstSignal, SecondSignal, Signalled, vars

\* The topic holds letters, and each is built from its own failure.
LEMMA TopicKept == TopicInv /\ [Next]_vars => TopicInv'
<1> SUFFICES ASSUME TopicInv, [Next]_vars PROVE TopicInv'
  OBVIOUS
<1>1. CASE UNCHANGED topic
  BY <1>1 DEF TopicInv
<1>2. ASSUME NEW sender \in Senders, NEW failure \in Failures, Fail(sender, failure)
      PROVE  TopicInv'
  <2>1. Foreign(Normalize(sender)) = Normalize(Foreign(sender))
    BY SenderHeaders, ForeignNormalized
  <2> QED BY <1>2, <2>1, PublishBuilds DEF Fail
<1>3. ASSUME NEW i \in DOMAIN topic, NEW failure \in Failures, Replay(i, failure)
      PROVE  TopicInv'
  <2>1. topic[i] \in Letter /\ Built(topic[i])
    BY DEF TopicInv
  <2>2. Foreign(Normalize(topic[i].headers)) = Normalize(Foreign(topic[i].sender))
    BY <2>1, ReplayForgets
  <2>3. topic[i].sender \in Senders
    BY <2>1 DEF Letter
  <2> QED BY <1>3, <2>2, <2>3, PublishBuilds DEF Replay
<1> QED
  BY <1>1, <1>2, <1>3, TopicSteps

\* The initial state.
LEMMA TopicInit == Init => TopicInv
<1> SUFFICES ASSUME Init PROVE TopicInv
  OBVIOUS
<1>1. topic = <<>>
  BY DEF Init
<1>2. topic \in Seq(Letter) /\ Len(topic) = 0 /\ DOMAIN topic = {}
  BY <1>1
<1> QED
  BY <1>2, InspectorBounds DEF TopicInv

\* A letter tells its own failure and no other, for any order, any failures and
\* any number of replays (dlq.py:131-150).
THEOREM OneContext == Spec => []OneFailureContext
<1>1. TopicInv => OneFailureContext
  <2> SUFFICES ASSUME TopicInv, NEW i \in DOMAIN topic
               PROVE  Picked(topic[i].headers, Managed(topic[i].headers)) =
                        FailureHeaders(topic[i].failure, topic[i].off)
    BY DEF OneFailureContext
  <2>1. topic[i] \in Letter /\ Built(topic[i])
    BY DEF TopicInv
  <2> QED BY <2>1, Parts, Split DEF Built
<1> QED
  BY TopicInit, TopicKept, <1>1, PTL DEF Spec

\* No round of replay loses or changes a header of others (dlq.py:46-64, 133).
THEOREM ForeignKept == Spec => []ForeignHeadersKept
<1>1. TopicInv => ForeignHeadersKept
  <2> SUFFICES ASSUME TopicInv, NEW i \in DOMAIN topic
               PROVE  LET letter == topic[i]
                          sent == Foreign(letter.sender)
                      IN  /\ Len(Foreign(letter.headers)) = Len(sent)
                          /\ \A n \in DOMAIN sent :
                              /\ letter.headers[n].key = sent[n].key
                              /\ letter.headers[n].value =
                                    IF sent[n].value = NoValue THEN ""
                                    ELSE sent[n].value
    BY DEF ForeignHeadersKept
  <2> DEFINE l == topic[i]
             sent == Foreign(l.sender)
             own == FailureHeaders(l.failure, l.off)
  <2>1. l \in Letter /\ Built(l)
    BY DEF TopicInv
  <2>2. sent \in Seq(Plain) /\ Normalize(sent) \in Seq(Plain) /\ own \in Seq(Own)
    BY <2>1, Parts
  <2>3. l.headers = Normalize(sent) \o own
    BY <2>1 DEF Built
  <2> HIDE DEF l, sent, own
  <2>4. sent \in Seq(Header)
    BY <2>2 DEF Plain
  <2>5. /\ Len(Normalize(sent)) = Len(sent) /\ Len(sent) \in Nat
        /\ \A n \in 1..Len(sent) : Normalize(sent)[n] = Filled(sent[n])
        /\ DOMAIN sent = 1..Len(sent)
    BY <2>4, NormalizeType
  <2>6. Foreign(l.headers) = Normalize(sent)
    BY <2>2, <2>3, Split
  <2>7. ASSUME NEW n \in DOMAIN sent
        PROVE  /\ l.headers[n].key = sent[n].key
               /\ l.headers[n].value = IF sent[n].value = NoValue THEN ""
                                       ELSE sent[n].value
    <3>1. n \in 1..Len(sent) /\ sent[n] \in Header
      BY <2>4, <2>5
    <3>2. l.headers[n] = Normalize(sent)[n]
      BY <2>2, <2>3, <2>5, <3>1
    <3>3. l.headers[n] = Filled(sent[n])
      BY <2>5, <3>1, <3>2
    <3> QED BY <3>1, <3>3, FilledHeader
  <2> QED BY <2>5, <2>6, <2>7 DEF l, sent
<1> QED
  BY TopicInit, TopicKept, <1>1, PTL DEF Spec

----------------------------------------------------------------------------
(* Types, and the totals. *)

\* A letter in hand is in the topic; a report is the end.
HandInv ==
    /\ pc = "print" => position > 0
    /\ report # NotReported => pc = "done"

\* TopicInv with the types of the rest.
RInv == TopicInv /\ TypeOK /\ HandInv

\* The topic only grows: what was a place in it stays one.
LEMMA TopicGrows ==
    ASSUME TopicInv, [Next]_vars
    PROVE  /\ Len(topic) \in Nat /\ Len(topic') \in Nat /\ Len(topic) <= Len(topic')
           /\ \A i \in 1..Len(topic) : topic'[i] = topic[i]
<1>1. topic \in Seq(Letter)
  BY DEF TopicInv
<1>2. CASE UNCHANGED topic
  BY <1>1, <1>2
<1>3. ASSUME NEW raw, NEW sender, NEW failure, Publish(LetterOf(raw, sender, failure))
      PROVE  /\ Len(topic) \in Nat /\ Len(topic') \in Nat /\ Len(topic) <= Len(topic')
             /\ \A i \in 1..Len(topic) : topic'[i] = topic[i]
  <2>1. PICK l : topic' = Append(topic, l)
    BY <1>3 DEF Publish
  <2>2. topic \in Seq(Letter \union {l})
    BY <1>1
  <2> QED BY <2>1, <2>2
<1> QED
  BY <1>2, <1>3, TopicSteps DEF Fail, Replay

\* A letter is counted for the failure it was written for
\* (apps/dlq_inspector.py:120, dlq.py:138).
LEMMA ReasonRead ==
    ASSUME NEW l \in Letter, Built(l)
    PROVE  /\ Get(l.headers, HEADER_REASON, "UNKNOWN") = Classify(l.failure.error)
           /\ Classify(l.failure.error) \in Reasons
<1> DEFINE f == Normalize(Foreign(l.sender))
           o == FailureHeaders(l.failure, l.off)
           places == {i \in DOMAIN l.headers : l.headers[i].key = HEADER_REASON}
<1>1. f \in Seq(Plain) /\ o \in Seq(Own) /\ l.headers = f \o o
  BY Parts DEF Built
<1>2. /\ Len(o) = 4
      /\ \A i \in 1..4 : o[i].key = HEADER_REASON <=> i = 1
      /\ o[1].value = Classify(l.failure.error)
  BY OwnHeaders DEF Letter, Built
<1> HIDE DEF f, o
<1>3. /\ f \in Seq(Header) /\ o \in Seq(Header)
      /\ DOMAIN l.headers = 1..Len(f) + 4 /\ Len(f) \in Nat
  <2>1. f \in Seq(Header) /\ o \in Seq(Header)
    BY <1>1 DEF Plain, Own
  <2>2. f \o o \in Seq(Header) /\ Len(f \o o) = Len(f) + Len(o)
    BY <2>1
  <2>3. DOMAIN (f \o o) = 1..Len(f) + 4
    BY <1>2, <2>1, <2>2
  <2> QED BY <1>1, <2>1, <2>3
<1>4. ASSUME NEW i \in 1..Len(f) + 4
      PROVE  l.headers[i].key = HEADER_REASON <=> i = Len(f) + 1
  <2>1. CASE i <= Len(f)
    <3>1. l.headers[i] = f[i] /\ f[i] \in Plain
      BY <1>1, <1>3, <2>1
    <3>2. HEADER_REASON.prefix \in ManagedPrefixes
      BY DEF HEADER_REASON, ManagedPrefixes
    <3> QED BY <1>3, <2>1, <3>1, <3>2 DEF Plain
  <2>2. CASE i > Len(f)
    <3>1. l.headers[i] = o[i - Len(f)] /\ i - Len(f) \in 1..4
      BY <1>1, <1>2, <1>3, <2>2
    <3> QED BY <1>2, <1>3, <3>1
  <2> QED BY <1>3, <2>1, <2>2
<1>5. places = {Len(f) + 1}
  BY <1>3, <1>4
<1>6. l.headers[Len(f) + 1] = o[1]
  BY <1>1, <1>2, <1>3
<1> HIDE DEF places
<1>7. (CHOOSE i \in places : \A j \in places : j <= i) = Len(f) + 1
  BY <1>3, <1>5
<1>8. Get(l.headers, HEADER_REASON, "UNKNOWN") = l.headers[Len(f) + 1].value
  BY <1>5, <1>7 DEF Get, places
<1>9. Classify(l.failure.error) \in Reasons
  BY DEF Classify, Reasons
<1> QED
  BY <1>2, <1>6, <1>8, <1>9

\* What leaves the counters and the report alone leaves their types alone.
LEMMA ThreadQuiet ==
    ASSUME ThreadTypeOK, Len(topic) \in Nat, Len(topic') \in Nat, Len(topic) <= Len(topic'),
           UNCHANGED <<args, seen, reasons, printed, report>>,
           pc' \in Running \union {"done"}, shutdown' \in BOOLEAN,
           why' \in {"running", "idle", "limit", "signal", "interrupt"}
    PROVE  ThreadTypeOK'
<1>1. printed \in Seq(1..Len(topic))
  BY DEF ThreadTypeOK
<1>2. 1..Len(topic) \subseteq 1..Len(topic')
  OBVIOUS
<1>3. printed' \in Seq(1..Len(topic'))
  BY <1>1, <1>2
<1> QED
  BY <1>3 DEF ThreadTypeOK

\* The same for the client and its clock.
LEMMA ClientQuiet ==
    ASSUME ClientTypeOK, Len(topic) \in Nat, Len(topic') \in Nat, Len(topic) <= Len(topic'),
           UNCHANGED client
    PROVE  ClientTypeOK'
BY DEF ClientTypeOK, client

LEMMA ClockQuiet ==
    ASSUME ClockTypeOK, Len(topic) \in Nat, Len(topic') \in Nat, Len(topic) <= Len(topic'),
           UNCHANGED clock
    PROVE  ClockTypeOK'
BY DEF ClockTypeOK, clock

\* The clock stops one tick beyond the timeout.
LEMMA Saturates ==
    ASSUME NEW i \in 0..IdleTimeout + 1, NEW t \in Nat
    PROVE  Counted(i + t, IdleTimeout) \in 0..IdleTimeout + 1
BY DurationsAssumption DEF Counted

\* A poll that returns no letter (apps/dlq_inspector.py:104-116).
LEMMA ElapseTypes ==
    ASSUME ClockTypeOK, Len(topic) \in Nat, NEW t \in 0..1, Elapse(t), topic' = topic
    PROVE  ClockTypeOK'
<1>1. idle' \in 0..IdleTimeout + 1
  BY Saturates DEF Elapse, ClockTypeOK
<1>2. waited' \in 0..Delay + 1
  BY DurationsAssumption DEF Elapse, Counted, ClockTypeOK
<1>3. mark' = mark
  BY DEF Elapse
<1> QED
  BY <1>1, <1>2, <1>3 DEF ClockTypeOK

\* Where the loop may be after the end of a round.
LEMMA RoundTypes ==
    ASSUME ThreadTypeOK, NextRound \/ IdleCheck
    PROVE  /\ pc' \in {"poll", "close"}
           /\ why' \in {"running", "idle", "limit", "signal", "interrupt"}
BY DEF NextRound, IdleCheck, ThreadTypeOK

\* Steps of the topic.
LEMMA RPublish ==
    ASSUME RInv, [Next]_vars, NEW letter, Publish(letter)
    PROVE  RInv'
<1>1. /\ Len(topic) \in Nat /\ Len(topic') \in Nat /\ Len(topic) <= Len(topic')
      /\ TopicInv'
  BY TopicGrows, TopicKept DEF RInv
<1> USE DEF Publish, output, ending, bounds
<1>2. ThreadTypeOK' /\ ClientTypeOK' /\ ClockTypeOK'
  <2>1. ThreadTypeOK /\ ClientTypeOK /\ ClockTypeOK
    BY DEF RInv, TypeOK
  <2>2. /\ pc \in Running \union {"done"} /\ shutdown \in BOOLEAN
        /\ why \in {"running", "idle", "limit", "signal", "interrupt"}
    BY <2>1 DEF ThreadTypeOK
  <2>3. ThreadTypeOK'
    BY <1>1, <2>1, <2>2, ThreadQuiet
  <2> QED BY <1>1, <2>1, <2>3, ClientQuiet, ClockQuiet
<1>3. HandInv'
  BY DEF RInv, HandInv, client
<1>4. TypeOK'
  BY <1>1, <1>2 DEF RInv, TypeOK, TopicInv
<1> QED
  BY <1>1, <1>3, <1>4 DEF RInv

\* Steps of the client (apps/dlq_inspector.py:75-94).
LEMMA RClient ==
    ASSUME RInv, Join \/ Evicted \/ ReachEnd
    PROVE  RInv'
<1> USE DEF RInv, TypeOK, output, ending, bounds
<1>1. topic' = topic /\ TopicInv' /\ Len(topic) \in Nat
  BY DEF Join, Evicted, ReachEnd, TopicInv
<1>2. ThreadTypeOK' /\ ClockTypeOK' /\ HandInv'
  <2>1. /\ UNCHANGED <<args, seen, reasons, printed, report, pc, shutdown, why, clock>>
        /\ pc = "print" => UNCHANGED position
    BY DEF Join, Evicted, ReachEnd
  <2>2. /\ pc \in Running \union {"done"} /\ shutdown \in BOOLEAN
        /\ why \in {"running", "idle", "limit", "signal", "interrupt"}
    BY DEF ThreadTypeOK
  <2>3. ThreadTypeOK'
    BY <1>1, <2>1, <2>2, ThreadQuiet
  <2>4. HandInv'
    BY <2>1 DEF HandInv
  <2> QED BY <1>1, <2>1, <2>3, <2>4, ClockQuiet
<1>3. ClientTypeOK' /\ errors' \in 0..MaxErrors /\ evictions' \in 0..MaxEvictions
      /\ signals' \in 0..MaxSignals
  <2>1. CASE Join
    BY <1>1, <2>1 DEF Join, ClientTypeOK
  <2>2. CASE Evicted
    <3>1. ClientTypeOK'
      <4>1. joined' = FALSE /\ position' = 0 /\ ends' = {} /\ lastEnd' = -1
        BY <2>2 DEF Evicted
      <4> HIDE DEF RInv, TypeOK
      <4>2. joined' \in BOOLEAN
        BY <4>1
      <4>5. position' \in 0..Len(topic')
        BY <1>1, <4>1
      <4>3. ends' \subseteq 0..lastEnd'
        BY <4>1
      <4>4. lastEnd' \in -1..Len(topic')
        BY <1>1, <4>1
      <4> QED BY <4>2, <4>3, <4>4, <4>5 DEF ClientTypeOK
    <3>2. evictions' \in 0..MaxEvictions
      BY <2>2, InspectorBounds DEF Evicted
    <3> QED BY <2>2, <3>1, <3>2 DEF Evicted
  <2>3. CASE ReachEnd
    <3>1. lastEnd \in -1..Len(topic) /\ lastEnd < Len(topic) /\ ends \subseteq 0..lastEnd
      BY <2>3 DEF ReachEnd, ClientTypeOK
    <3>2. lastEnd' = Len(topic) /\ ends' = ends \union {Len(topic)}
      BY <2>3 DEF ReachEnd
    <3>3. \A e \in ends' : e \in 0..Len(topic)
      <4> HIDE DEF RInv, TypeOK
      <4> QED BY <1>1, <3>1, <3>2
    <3>4. ends' \subseteq 0..lastEnd'
      BY <3>2, <3>3
    <3>5. lastEnd' \in -1..Len(topic')
      BY <1>1, <3>2
    <3>6. joined' \in BOOLEAN /\ position' \in 0..Len(topic')
      BY <1>1, <2>3 DEF ReachEnd, ClientTypeOK
    <3>7. ClientTypeOK'
      BY <3>4, <3>5, <3>6 DEF ClientTypeOK
    <3> QED BY <2>3, <3>7 DEF ReachEnd
  <2> QED BY <2>1, <2>2, <2>3
<1> QED
  BY <1>1, <1>2, <1>3

\* Steps of the loop that return or print no letter
\* (apps/dlq_inspector.py:97-116, 126-136).
LEMMA RLoop ==
    ASSUME RInv, Start \/ PollNone \/ PollEof \/ PollError
    PROVE  RInv'
<1> USE DEF RInv, TypeOK, output, ending, client, bounds
<1>1. topic' = topic /\ TopicInv' /\ Len(topic) \in Nat
  BY DEF Start, PollNone, PollEof, PollError, TopicInv
<1>2. ThreadTypeOK' /\ HandInv'
  <2>1. NextRound \/ IdleCheck
    BY DEF Start, PollNone, PollEof, PollError
  <2>2. /\ UNCHANGED <<args, seen, reasons, printed, report, shutdown>>
        /\ pc \in {"start", "poll"}
    BY DEF Start, PollNone, PollEof, PollError
  <2>3. pc' \in {"poll", "close"}
        /\ why' \in {"running", "idle", "limit", "signal", "interrupt"}
    BY <2>1, RoundTypes
  <2>4. shutdown \in BOOLEAN
    BY DEF ThreadTypeOK
  <2>5. ThreadTypeOK'
    BY <1>1, <2>2, <2>3, <2>4, ThreadQuiet DEF Running
  <2> QED BY <2>2, <2>3, <2>5 DEF HandInv
<1>3. ClockTypeOK'
  <2>1. CASE Start
    BY <1>1, <2>1 DEF Start, ClockTypeOK
  <2>2. CASE PollNone
    BY <1>1, <2>2, ElapseTypes DEF PollNone
  <2>3. CASE PollEof
    BY <1>1, <2>3, ElapseTypes DEF PollEof
  <2>4. CASE PollError
    BY <1>1, <2>4, ElapseTypes DEF PollError
  <2> QED BY <2>1, <2>2, <2>3, <2>4
<1>4. ClientTypeOK'
  <2>1. CASE PollEof
    BY <1>1, <2>1 DEF PollEof, ClientTypeOK
  <2>2. CASE ~PollEof
    <3>1. UNCHANGED client
      BY <2>2 DEF Start, PollNone, PollError
    <3> QED BY <1>1, <3>1, ClientQuiet
  <2> QED BY <2>1, <2>2
<1>5. /\ errors' \in 0..MaxErrors /\ evictions' \in 0..MaxEvictions
      /\ signals' \in 0..MaxSignals
  BY InspectorBounds DEF Start, PollNone, PollEof, PollError
<1> QED
  BY <1>1, <1>2, <1>3, <1>4, <1>5

\* A counter of a family is one up.
LEMMA OneMore ==
    ASSUME NEW S, NEW f \in [S -> Nat], NEW r
    PROVE  [f EXCEPT ![r] = @ + 1] \in [S -> Nat]
<1>1. CASE r \in S
  BY <1>1
<1>2. CASE r \notin S
  BY <1>2
<1> QED
  BY <1>1, <1>2

\* A letter is handed out and counted (apps/dlq_inspector.py:118-120).
LEMMA RLetter ==
    ASSUME RInv, PollLetter
    PROVE  RInv'
<1> USE DEF RInv, TypeOK, ending, bounds
<1>1. topic' = topic /\ TopicInv' /\ Len(topic) \in Nat
  BY DEF PollLetter, TopicInv
<1>2. position' \in 1..Len(topic)
  BY <1>1 DEF PollLetter, Waiting, ClientTypeOK
<1>3. ClientTypeOK' /\ ClockTypeOK'
  BY <1>1, <1>2, DurationsAssumption DEF PollLetter, ClientTypeOK, ClockTypeOK
<1>4. report = NotReported
  BY DEF PollLetter, HandInv
<1>5. reasons' \in [Reasons \union {"UNKNOWN"} -> Nat]
  <2>1. PICK r : reasons' = [reasons EXCEPT ![r] = @ + 1]
    BY DEF PollLetter
  <2>2. reasons \in [Reasons \union {"UNKNOWN"} -> Nat]
    BY DEF ThreadTypeOK
  <2> QED BY <2>1, <2>2, OneMore
<1>6. ThreadTypeOK' /\ HandInv'
  BY <1>1, <1>2, <1>4, <1>5 DEF PollLetter, ThreadTypeOK, HandInv, Running
<1>7. /\ errors' \in 0..MaxErrors /\ evictions' \in 0..MaxEvictions
      /\ signals' \in 0..MaxSignals
  BY DEF PollLetter
<1> QED
  BY <1>1, <1>3, <1>6, <1>7

\* It is printed (apps/dlq_inspector.py:121-125).
LEMMA RPrint ==
    ASSUME RInv, PrintEntry
    PROVE  RInv'
<1> USE DEF RInv, TypeOK, client, bounds
<1>1. topic' = topic /\ TopicInv' /\ Len(topic) \in Nat
  BY DEF PrintEntry, TopicInv
<1>2. printed' \in Seq(1..Len(topic))
  <2>1. printed \in Seq(1..Len(topic)) /\ position \in 1..Len(topic)
    BY <1>1 DEF PrintEntry, ThreadTypeOK, ClientTypeOK, HandInv
  <2> QED BY <2>1 DEF PrintEntry
<1>3. idle' \in 0..IdleTimeout + 1
  <2>1. PICK t \in 0..MaxDecode : idle' = Counted(idle + t, IdleTimeout)
    BY DEF PrintEntry, DescribePayload
  <2>2. idle \in 0..IdleTimeout + 1 /\ t \in Nat
    BY DurationsAssumption DEF ClockTypeOK
  <2> HIDE DEF RInv, TypeOK
  <2> QED BY <2>1, <2>2, Saturates
<1>4. ClientTypeOK' /\ ClockTypeOK'
  BY <1>1, <1>3 DEF PrintEntry, ClientTypeOK, ClockTypeOK
<1>5. report = NotReported /\ UNCHANGED <<args, seen, reasons, report, shutdown>>
  BY DEF PrintEntry, HandInv
<1>6. pc' \in {"poll", "close"}
      /\ why' \in {"running", "idle", "limit", "signal", "interrupt"}
  BY RoundTypes DEF PrintEntry
<1>7. ThreadTypeOK' /\ HandInv'
  BY <1>1, <1>2, <1>5, <1>6 DEF ThreadTypeOK, HandInv, Running
<1>8. /\ errors' \in 0..MaxErrors /\ evictions' \in 0..MaxEvictions
      /\ signals' \in 0..MaxSignals
  BY DEF PrintEntry
<1> QED
  BY <1>1, <1>4, <1>7, <1>8

\* Closing, reporting and signals (apps/dlq_inspector.py:126-136).
LEMMA REnd ==
    ASSUME RInv, Close \/ Report \/ FirstSignal \/ SecondSignal
    PROVE  RInv'
<1> USE DEF RInv, TypeOK, output, ending, bounds
<1>1. topic' = topic /\ TopicInv' /\ Len(topic) \in Nat
  BY DEF Close, Report, FirstSignal, SecondSignal, Signalled, TopicInv
<1>2. UNCHANGED client /\ UNCHANGED clock /\ UNCHANGED <<args, seen, reasons, printed>>
  BY DEF Close, Report, FirstSignal, SecondSignal, Signalled
<1>3. ClientTypeOK' /\ ClockTypeOK'
  BY <1>1, <1>2, ClientQuiet, ClockQuiet
<1>4. ThreadTypeOK' /\ HandInv'
  <2>1. CASE Report
    BY <1>1, <2>1 DEF Report, Totals, ThreadTypeOK, HandInv, Running
  <2>2. CASE Close
    BY <1>1, <2>2 DEF Close, ThreadTypeOK, HandInv, Running
  <2>3. CASE FirstSignal
    BY <1>1, <2>3 DEF FirstSignal, Signalled, ThreadTypeOK, HandInv, client
  <2>4. CASE SecondSignal
    BY <1>1, <2>4 DEF SecondSignal, Signalled, ThreadTypeOK, HandInv, Running, client
  <2> QED BY <2>1, <2>2, <2>3, <2>4
<1>5. /\ errors' \in 0..MaxErrors /\ evictions' \in 0..MaxEvictions
      /\ signals' \in 0..MaxSignals
  BY InspectorBounds DEF Close, Report, FirstSignal, SecondSignal, Signalled
<1> QED
  BY <1>1, <1>3, <1>4, <1>5

\* Nothing happens.
LEMMA RStutter == RInv /\ UNCHANGED vars => RInv'
BY DEF RInv, TopicInv, TypeOK, ThreadTypeOK, ClientTypeOK, ClockTypeOK, HandInv, vars,
       output, client, clock, ending, bounds

\* The initial state.
LEMMA RInit == Init => RInv
<1> SUFFICES ASSUME Init PROVE RInv
  OBVIOUS
<1>1. topic \in Seq(Letter) /\ Len(topic) = 0 /\ TopicInv
  BY TopicInit DEF TopicInv, Init
<1>2. printed \in Seq(1..Len(topic))
  BY DEF Init
<1>3. ThreadTypeOK
  BY <1>2 DEF Init, ThreadTypeOK, Running
<1>4. ClientTypeOK
  <2>1. joined = FALSE /\ position = 0 /\ ends = {} /\ lastEnd = -1
    BY DEF Init
  <2>2. joined \in BOOLEAN
    BY <2>1
  <2>5. position \in 0..Len(topic)
    BY <1>1, <2>1
  <2>3. ends \subseteq 0..lastEnd
    BY <2>1
  <2>4. lastEnd \in -1..Len(topic)
    BY <1>1, <2>1
  <2> QED BY <2>2, <2>3, <2>4, <2>5 DEF ClientTypeOK
<1>5. ClockTypeOK
  BY <1>1, DurationsAssumption DEF Init, ClockTypeOK
<1>6. TypeOK /\ HandInv
  BY <1>1, <1>3, <1>4, <1>5, InspectorBounds DEF Init, TypeOK, HandInv
<1> QED
  BY <1>1, <1>6 DEF RInv

LEMMA RNext == RInv /\ [Next]_vars => RInv'
<1> SUFFICES ASSUME RInv, [Next]_vars PROVE RInv'
  OBVIOUS
<1>1. ASSUME NEW letter, Publish(letter) PROVE RInv'
  BY <1>1, RPublish
<1> QED
  BY <1>1, RClient, RLoop, RLetter, RPrint, REnd, RStutter DEF Next, Fail, Replay, ThreadStep

\* Every variable keeps its type, whatever is sent, fails, arrives or ends.
THEOREM InspectorTypes == Spec => []TypeOK
<1>1. RInv => TypeOK
  BY DEF RInv
<1> QED
  BY RInit, RNext, <1>1, PTL DEF Spec

----------------------------------------------------------------------------
(* The totals. *)

\* The entries printed for a reason.
Told(r) == {n \in DOMAIN printed : Classify(topic[printed[n]].failure.error) = r}

Counters == Reasons \union {"UNKNOWN"}

Tallied ==
    /\ seen = Len(printed)
    /\ \A r \in Counters : reasons[r] = Cardinality(Told(r))

\* The letter in hand is counted before it is printed.
InHand(r) == IF Classify(topic[position].failure.error) = r THEN 1 ELSE 0

TalliedInHand ==
    /\ seen = Len(printed) + 1
    /\ \A r \in Counters : reasons[r] = Cardinality(Told(r)) + InHand(r)

\* Between rounds, and in whatever is reported, the counters are right; only an
\* interrupt leaves them otherwise, and then nothing is reported.
Settled ==
    \/ pc \in {"start", "poll", "report"}
    \/ pc = "close" /\ why # "interrupt"
    \/ report # NotReported

TallyInv ==
    /\ Settled => Tallied
    /\ pc = "print" => TalliedInHand

\* Places printed are places of the topic.
LEMMA PrintedPlaces ==
    ASSUME RInv
    PROVE  /\ printed \in Seq(1..Len(topic)) /\ Len(printed) \in Nat
           /\ DOMAIN printed = 1..Len(printed)
           /\ \A n \in 1..Len(printed) : printed[n] \in 1..Len(topic)
<1>1. printed \in Seq(1..Len(topic))
  BY DEF RInv, TypeOK, ThreadTypeOK
<1> QED
  BY <1>1

LEMMA ToldFinite ==
    ASSUME RInv, NEW r
    PROVE  /\ IsFiniteSet(Told(r)) /\ Cardinality(Told(r)) \in Nat
           /\ Told(r) \subseteq 1..Len(printed)
<1>1. Told(r) \subseteq 1..Len(printed) /\ Len(printed) \in Nat
  BY PrintedPlaces DEF Told
<1>2. IsFiniteSet(1..Len(printed))
  BY <1>1, FS_Interval
<1>3. IsFiniteSet(Told(r))
  BY <1>1, <1>2, FS_Subset
<1> QED
  BY <1>1, <1>3, FS_CardinalityType

\* A letter that arrives changes nothing in what was printed.
LEMMA ToldKept ==
    ASSUME RInv, [Next]_vars, UNCHANGED printed, NEW r
    PROVE  Told(r)' = Told(r)
<1>1. \A i \in 1..Len(topic) : topic'[i] = topic[i]
  BY TopicGrows DEF RInv
<1>2. ASSUME NEW n \in DOMAIN printed
      PROVE  topic'[printed[n]] = topic[printed[n]]
  BY <1>1, PrintedPlaces
<1> QED
  BY <1>2 DEF Told

LEMMA TallyQuiet ==
    ASSUME RInv, [Next]_vars, UNCHANGED <<printed, seen, reasons>>
    PROVE  /\ Tallied => Tallied'
           /\ (pc = "print" /\ position' = position /\ TalliedInHand) => TalliedInHand'
<1>1. \A r : Told(r)' = Told(r)
  BY ToldKept
<1>2. Tallied => Tallied'
  BY <1>1 DEF Tallied
<1>3. ASSUME pc = "print", position' = position, TalliedInHand
      PROVE  TalliedInHand'
  <2>1. position \in 1..Len(topic) /\ topic'[position] = topic[position]
    BY <1>3, TopicGrows DEF RInv, TypeOK, ClientTypeOK, HandInv
  <2>2. \A r : InHand(r)' = InHand(r)
    BY <1>3, <2>1 DEF InHand
  <2> QED BY <1>1, <1>3, <2>2 DEF TalliedInHand
<1> QED
  BY <1>2, <1>3

\* Steps that neither count nor print.
LEMMA TQuiet ==
    ASSUME RInv, TallyInv, [Next]_vars, UNCHANGED <<printed, seen, reasons>>,
           Settled' => Settled,
           pc' = "print" => pc = "print" /\ position' = position
    PROVE  TallyInv'
<1>1. Settled' => Tallied'
  BY TallyQuiet DEF TallyInv
<1>2. pc' = "print" => TalliedInHand'
  BY TallyQuiet DEF TallyInv
<1> QED
  BY <1>1, <1>2 DEF TallyInv

\* A letter is counted (apps/dlq_inspector.py:118-120).
LEMMA TLetter ==
    ASSUME RInv, TallyInv, [Next]_vars, PollLetter
    PROVE  TallyInv'
<1> DEFINE letter == topic[position + 1]
           why0 == Classify(letter.failure.error)
<1>1. topic' = topic /\ position' = position + 1 /\ pc = "poll" /\ UNCHANGED printed
  BY DEF PollLetter
<1>2. /\ Tallied /\ reasons \in [Counters -> Nat] /\ seen \in Nat
      /\ position + 1 \in 1..Len(topic) /\ report = NotReported
  BY <1>1 DEF PollLetter, TallyInv, Settled, RInv, TypeOK, ThreadTypeOK, ClientTypeOK,
              HandInv, Counters, Waiting, TopicInv
<1>3. letter \in Letter /\ Built(letter)
  BY <1>2 DEF RInv, TopicInv
<1>4. /\ Get(letter.headers, HEADER_REASON, "UNKNOWN") = why0
      /\ why0 \in Counters
  <2> HIDE DEF letter
  <2> QED BY <1>3, ReasonRead DEF Counters
<1>5. reasons' = [reasons EXCEPT ![why0] = @ + 1] /\ seen' = seen + 1
  BY <1>4 DEF PollLetter
<1>6. ASSUME NEW r \in Counters
      PROVE  reasons'[r] = Cardinality(Told(r)') + InHand(r)'
  <2>1. Told(r)' = Told(r)
    BY <1>1, ToldKept
  <2>2. reasons[r] = Cardinality(Told(r)) /\ Cardinality(Told(r)) \in Nat
    BY <1>2, ToldFinite DEF Tallied
  <2>3. InHand(r)' = IF why0 = r THEN 1 ELSE 0
    BY <1>1 DEF InHand
  <2> HIDE DEF why0
  <2>4. reasons'[r] = reasons[r] + IF why0 = r THEN 1 ELSE 0
    BY <1>2, <1>4, <1>5
  <2> QED BY <2>1, <2>2, <2>3, <2>4
<1>7. TalliedInHand'
  BY <1>1, <1>2, <1>5, <1>6 DEF Tallied, TalliedInHand
<1>8. pc' = "print" /\ report' = NotReported
  BY <1>2 DEF PollLetter, ending
<1> QED
  BY <1>7, <1>8 DEF TallyInv, Settled

\* It is printed (apps/dlq_inspector.py:121-125).
LEMMA TPrint ==
    ASSUME RInv, TallyInv, [Next]_vars, PrintEntry
    PROVE  TallyInv'
<1> DEFINE N == Len(printed) + 1
           why0 == Classify(topic[position].failure.error)
<1>1. /\ topic' = topic /\ printed' = Append(printed, position)
      /\ UNCHANGED <<seen, reasons, position>> /\ pc = "print"
  BY DEF PrintEntry, client
<1>2. TalliedInHand /\ position \in 1..Len(topic)
  BY <1>1 DEF TallyInv, RInv, TypeOK, ClientTypeOK, HandInv, TopicInv
<1>3. /\ Len(printed') = N /\ N \in Nat /\ N \notin 1..Len(printed)
      /\ DOMAIN printed' = (1..Len(printed)) \union {N}
      /\ \A n \in 1..Len(printed) : printed'[n] = printed[n]
      /\ printed'[N] = position
  BY <1>1, <1>2, PrintedPlaces
<1>4. ASSUME NEW r \in Counters
      PROVE  reasons'[r] = Cardinality(Told(r)')
  <2> HIDE DEF N
  <2>0. DOMAIN printed = 1..Len(printed)
    BY PrintedPlaces
  <2>1. CASE why0 = r
    <3>1. Told(r)' = Told(r) \union {N}
      BY <1>1, <1>3, <2>0, <2>1 DEF Told
    <3>2. N \notin Told(r) /\ IsFiniteSet(Told(r))
      BY <1>3, ToldFinite
    <3>3. Cardinality(Told(r)') = Cardinality(Told(r)) + 1
      BY <3>1, <3>2, FS_AddElement
    <3>4. reasons[r] = Cardinality(Told(r)) + 1
      BY <1>2, <2>1 DEF TalliedInHand, InHand
    <3> QED BY <1>1, <3>3, <3>4
  <2>2. CASE why0 # r
    <3>1. Told(r)' = Told(r)
      BY <1>1, <1>3, <2>0, <2>2 DEF Told
    <3>2. reasons[r] = Cardinality(Told(r)) /\ Cardinality(Told(r)) \in Nat
      BY <1>2, <2>2, ToldFinite DEF TalliedInHand, InHand
    <3> QED BY <1>1, <3>1, <3>2
  <2> QED BY <2>1, <2>2
<1>5. Tallied'
  BY <1>1, <1>2, <1>3, <1>4 DEF Tallied, TalliedInHand
<1>6. pc' # "print"
  BY DEF PrintEntry, NextRound
<1> QED
  BY <1>5, <1>6 DEF TallyInv

\* Every other step.
LEMMA TNext ==
    ASSUME RInv, TallyInv, [Next]_vars
    PROVE  TallyInv'
<1> USE DEF Settled, output, client, ending
<1>1. ASSUME NEW letter, Publish(letter) PROVE TallyInv'
  BY <1>1, TQuiet DEF Publish
<1>2. CASE Start \/ PollNone \/ PollEof \/ PollError
  <2>1. /\ UNCHANGED <<printed, seen, reasons>> /\ pc \in {"start", "poll"}
        /\ pc' # "print"
    BY <1>2 DEF Start, PollNone, PollEof, PollError, NextRound, IdleCheck
  <2> QED BY <2>1, TQuiet
<1>3. CASE Join \/ Evicted
  BY <1>3, TQuiet DEF Join, Evicted
<1>4. CASE ReachEnd
  BY <1>4, TQuiet DEF ReachEnd
<1>5. CASE Close
  BY <1>5, TQuiet DEF Close
<1>6. CASE Report
  BY <1>6, TQuiet DEF Report
<1>7. CASE FirstSignal \/ SecondSignal
  <2>1. /\ UNCHANGED <<printed, seen, reasons, report, position>>
        /\ Settled' => Settled
        /\ pc' = "print" => pc = "print"
    BY <1>7 DEF FirstSignal, SecondSignal, Signalled, Running
  <2> QED BY <2>1, TQuiet
<1>8. CASE UNCHANGED vars
  BY <1>8, TQuiet DEF vars
<1> QED
  BY <1>1, <1>2, <1>3, <1>4, <1>5, <1>6, <1>7, <1>8, TLetter, TPrint
  DEF Next, Fail, Replay, ThreadStep

LEMMA TInit == Init => TallyInv
<1> SUFFICES ASSUME Init PROVE TallyInv
  OBVIOUS
<1>1. pc = "start" /\ seen = 0 /\ printed = <<>>
  BY DEF Init
<1>2. ASSUME NEW r \in Counters PROVE reasons[r] = Cardinality(Told(r))
  <2>1. Told(r) = {}
    BY <1>1 DEF Told
  <2>2. reasons[r] = 0
    BY DEF Init, Counters
  <2> QED BY <2>1, <2>2, FS_EmptySet
<1> QED
  BY <1>1, <1>2 DEF TallyInv, Tallied

\* The totals printed at the end are those of the entries above them, each under
\* the reason its own last failure had (apps/dlq_inspector.py:120, 131-135).
THEOREM ReportTrue == Spec => []ReportTellsWhy
<1>1. RInv /\ TallyInv => ReportTellsWhy
  <2> SUFFICES ASSUME RInv, TallyInv, report # NotReported
               PROVE  /\ report.seen = Len(printed)
                      /\ \A r \in DOMAIN report.reasons :
                            report.reasons[r] = Cardinality(Told(r))
    BY DEF ReportTellsWhy, Told
  <2>1. Tallied
    BY DEF TallyInv, Settled
  <2>2. report = [seen |-> seen, reasons |-> reasons] /\ DOMAIN reasons = Counters
    BY DEF RInv, TypeOK, ThreadTypeOK, Counters
  <2> QED BY <2>1, <2>2 DEF Tallied
<1> QED
  BY <1>1, RInit, RNext, TInit, TNext, PTL DEF Spec
=============================================================================
