---------------------------- MODULE DlqInspector ----------------------------
(***************************************************************************)
(* The dead letter topic and one run of its inspector                      *)
(* (apps/dlq_inspector.py): joining its own consumer group, polling,       *)
(* printing, and ending by idleness, by its limit or by a signal.          *)
(*                                                                         *)
(* Letters arrive all the time, from orders that fail for the first time   *)
(* and from letters an operator has copied back to the orders topic.       *)
(*                                                                         *)
(* Time passes in ticks of one poll timeout (1 s): in polls, in the join   *)
(* and fetch that a poll waits for, and while a payload is decoded, which  *)
(* may have to ask the schema registry.                                    *)
(***************************************************************************)
EXTENDS Integers, Sequences, FiniteSets, DeadLetterHeaders

CONSTANTS
    Failures,       \* how an order may fail: exception class and attempts
    Senders,        \* the headers an order may have been sent with
    Limits,         \* the values of --limit that are tried; 0 is none
    IdleTimeout,    \* --idle-timeout
    Delay,          \* a wait for join and fetch that is still in time
    MaxDecode,      \* the longest the decoding of one payload takes
    MaxLetters,     \* bound: letters in the topic
    MaxErrors,      \* bound: errors a poll returns
    MaxEvictions,   \* bound: assignments lost
    MaxSignals      \* bound: SIGINT and SIGTERM

ASSUME DurationsAssumption == /\ IdleTimeout \in Nat
                              /\ Delay \in Nat
                              /\ MaxDecode \in Nat
ASSUME FailuresAssumption == Failures \subseteq [error : ErrorClasses, attempts : Nat]
ASSUME SendersAssumption ==
    Senders \subseteq Seq([key : [prefix : STRING, name : STRING], value : STRING])
ASSUME LimitsAssumption == Limits \subseteq Nat
ASSUME InspectorBounds == /\ MaxLetters \in Nat
                          /\ MaxErrors \in Nat
                          /\ MaxEvictions \in Nat
                          /\ MaxSignals \in Nat

VARIABLES
    topic,        \* the dead letter topic: one partition, a sequence of letters
    args,         \* --follow and --limit
    pc,           \* where the thread is
    shutdown,     \* the ShutdownSignal flag
    seen, reasons,    \* entries counted, in all and by reason
    idle,         \* ticks since idle_since, as far as they matter
    why,          \* what ended the loop
    report,       \* the totals printed at the end
    \* The Kafka client.
    joined,       \* is the partition assigned?
    position,     \* how many letters it has handed out since
    ends,         \* end-of-partition events it has queued, by position
    lastEnd,      \* the last end it noticed
    waited,       \* ticks polled while a letter was waiting, up to Delay + 1
    \* History, read by the properties only.
    printed,      \* the letters printed, by place in the topic
    mark,         \* length of the topic when the idle clock last restarted
    \* Bounds used up.
    errors, evictions, signals

output  == <<seen, reasons, printed>>
client  == <<joined, position, ends, lastEnd>>
clock   == <<idle, waited, mark>>
ending  == <<why, report>>
bounds  == <<errors, evictions, signals>>
vars    == <<topic, args, pc, shutdown, output, ending, client, clock, bounds>>

Running == {"start", "poll", "print", "close", "report"}
NotReported == [seen |-> -1, reasons |-> <<>>]

Init ==
    /\ topic = <<>>
    /\ args \in [follow : BOOLEAN, limit : Limits]
    /\ pc = "start"
    /\ shutdown = FALSE
    /\ seen = 0
    /\ reasons = [r \in Reasons \union {"UNKNOWN"} |-> 0]
    /\ idle = 0
    /\ why = "running"
    /\ report = NotReported
    /\ joined = FALSE
    /\ position = 0
    /\ ends = {}
    /\ lastEnd = -1
    /\ waited = 0
    /\ printed = <<>>
    /\ mark = 0
    /\ errors = 0
    /\ evictions = 0
    /\ signals = 0

----------------------------------------------------------------------------
(* The consumer group of the orders topic, as far as this topic shows it. *)

\* A letter: its headers, and as history the failure they should tell and the
\* headers the order was first sent with.
LetterOf(raw, sender, failure) ==
    [headers |-> BuildHeaders(raw, failure, Len(topic)),
     failure |-> failure, off |-> Len(topic), sender |-> sender]

Publish(letter) ==
    /\ Len(topic) < MaxLetters
    /\ topic' = Append(topic, letter)
    /\ UNCHANGED <<args, pc, shutdown, output, ending, client, clock, bounds>>

\* An order fails for the first time.
Fail(sender, failure) == Publish(LetterOf(sender, sender, failure))

\* A letter is copied back, headers included, and fails again.
Replay(i, failure) ==
    Publish(LetterOf(topic[i].headers, topic[i].sender, failure))

----------------------------------------------------------------------------
(* The Kafka client *)

Waiting == position < Len(topic)

Join ==
    /\ pc = "poll" /\ ~joined
    /\ joined' = TRUE
    /\ UNCHANGED <<topic, args, pc, shutdown, output, ending, position, ends,
                   lastEnd, clock, bounds>>

\* The assignment is lost; nothing was committed, so the topic is read from its
\* beginning again.
Evicted ==
    /\ pc = "poll" /\ joined
    /\ evictions < MaxEvictions
    /\ evictions' = evictions + 1
    /\ joined' = FALSE
    /\ position' = 0
    /\ ends' = {}
    /\ lastEnd' = -1
    /\ UNCHANGED <<topic, args, pc, shutdown, output, ending, clock, errors,
                   signals>>

\* enable.partition.eof: the fetcher is told once for each length of the topic
\* whose end it reaches, and the event queues behind the letters.
ReachEnd ==
    /\ joined
    /\ lastEnd < Len(topic)
    /\ lastEnd' = Len(topic)
    /\ ends' = ends \union {Len(topic)}
    /\ UNCHANGED <<topic, args, pc, shutdown, output, ending, joined, position,
                   clock, bounds>>

\* Ticks are counted as far as the limit they are compared with, and one more.
Counted(ticks, limit) == IF ticks > limit THEN limit + 1 ELSE ticks

\* t ticks pass in a poll that returns no letter, however long one waits.
Elapse(t) ==
    /\ idle' = Counted(idle + t, IdleTimeout)
    /\ waited' = IF Waiting THEN Counted(waited + t, Delay) ELSE waited
    /\ UNCHANGED mark

----------------------------------------------------------------------------
(* The loop of run *)

\* A loop that never looks at the flag.
NextRoundUnchecked == pc' = "poll" /\ UNCHANGED why

NextRound ==
    IF shutdown THEN pc' = "close" /\ why' = "signal"
                ELSE pc' = "poll" /\ UNCHANGED why

\* The idle clock starts before the subscription.
Start ==
    /\ pc = "start"
    /\ mark' = Len(topic)
    /\ NextRound
    /\ UNCHANGED <<topic, args, shutdown, output, report, client, idle, waited,
                   bounds>>

\* Plausible slips: the timeout ends the loop when it is reached; an empty queue
\* is waited on; --follow is forgotten.
QueueIdleEarly(ticks) == ~args.follow /\ ticks >= IdleTimeout
QueueIdleNonEmpty(ticks) == ~args.follow /\ ticks > IdleTimeout /\ seen > 0
QueueIdleAlways(ticks) == ticks > IdleTimeout

\* The test after a poll without a letter.
QueueIdle(ticks) == ~args.follow /\ ticks > IdleTimeout

IdleCheck ==
    IF QueueIdle(idle') THEN pc' = "close" /\ why' = "idle" ELSE NextRound

\* poll returns None after its timeout.
PollNone ==
    /\ pc = "poll"
    /\ position \notin ends
    /\ Elapse(1)
    /\ IdleCheck
    /\ UNCHANGED <<topic, args, shutdown, output, report, client, bounds>>

\* The end of the partition, at once or within the timeout.
PollEof ==
    /\ pc = "poll" /\ joined
    /\ position \in ends
    /\ ends' = ends \ {position}
    /\ \E t \in 0..1 : Elapse(t)
    /\ IdleCheck
    /\ UNCHANGED <<topic, args, shutdown, output, report, joined, position,
                   lastEnd, bounds>>

\* Any other error is logged; the idle clock is not looked at.
PollError ==
    /\ pc = "poll"
    /\ errors < MaxErrors
    /\ errors' = errors + 1
    /\ \E t \in 0..1 : Elapse(t)
    /\ NextRound
    /\ UNCHANGED <<topic, args, shutdown, output, report, client, evictions,
                   signals>>

\* A letter: the idle clock restarts and the letter is counted under its reason.
PollLetter ==
    /\ pc = "poll" /\ joined
    /\ Waiting /\ position \notin ends
    /\ position' = position + 1
    /\ idle' = 0
    /\ waited' = 0
    /\ mark' = Len(topic)
    /\ seen' = seen + 1
    /\ LET reason == Get(topic[position + 1].headers, HEADER_REASON, "UNKNOWN")
       IN  reasons' = [reasons EXCEPT ![reason] = @ + 1]
    /\ pc' = "print"
    /\ UNCHANGED <<topic, args, shutdown, printed, ending, joined, ends, lastEnd,
                   bounds>>

\* A plausible slip: one entry too many.
LimitExceeded == args.limit > 0 /\ seen > args.limit

LimitReached == args.limit > 0 /\ seen >= args.limit

\* The payload is decoded, or found undecodable, which takes its time.
DescribePayload == \E t \in 0..MaxDecode : idle' = Counted(idle + t, IdleTimeout)

\* The entry is printed, and the limit looked at.
PrintEntry ==
    /\ pc = "print"
    /\ DescribePayload
    /\ printed' = Append(printed, position)
    /\ IF LimitReached THEN pc' = "close" /\ why' = "limit" ELSE NextRound
    /\ UNCHANGED <<topic, args, shutdown, seen, reasons, report, client, waited,
                   mark, bounds>>

\* The finally; an interrupt goes on to the caller of run.
Close ==
    /\ pc = "close"
    /\ pc' = IF why = "interrupt" THEN "done" ELSE "report"
    /\ UNCHANGED <<topic, args, shutdown, output, ending, client, clock, bounds>>

\* A plausible slip: the reasons are counted, not the entries.
TotalsByReason == [seen |-> Cardinality({r \in DOMAIN reasons : reasons[r] > 0}),
                   reasons |-> reasons]

Totals == [seen |-> seen, reasons |-> reasons]

Report ==
    /\ pc = "report"
    /\ report' = Totals
    /\ pc' = "done"
    /\ UNCHANGED <<topic, args, shutdown, output, why, client, clock, bounds>>

----------------------------------------------------------------------------
(* Signals *)

Signalled ==
    /\ pc \in Running
    /\ signals < MaxSignals
    /\ signals' = signals + 1
    /\ UNCHANGED <<topic, args, output, report, client, clock, errors, evictions>>

FirstSignal ==
    /\ Signalled
    /\ ~shutdown
    /\ shutdown' = TRUE
    /\ UNCHANGED <<pc, why>>

\* The second raises KeyboardInterrupt: the loop still closes the consumer, what
\* comes after is skipped.
SecondSignal ==
    /\ Signalled
    /\ shutdown
    /\ why' = "interrupt"
    /\ pc' = IF pc \in {"poll", "print"} THEN "close" ELSE "done"
    /\ UNCHANGED shutdown

----------------------------------------------------------------------------

\* What the thread does, as far as it is sure to get on with it.
ThreadStep ==
    \/ Start \/ PollNone \/ PollEof \/ PollLetter \/ PrintEntry
    \/ Close \/ Report

Next ==
    \/ \E sender \in Senders, failure \in Failures : Fail(sender, failure)
    \/ \E i \in DOMAIN topic, failure \in Failures : Replay(i, failure)
    \/ ThreadStep \/ PollError
    \/ Join \/ Evicted \/ ReachEnd
    \/ FirstSignal \/ SecondSignal

Spec == Init /\ [][Next]_vars
=============================================================================
