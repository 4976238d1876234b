--------------------------- MODULE OrderProducer ---------------------------
(***************************************************************************)
(* One run of the order producer (apps/producer.py): the loop that counts  *)
(* a message and hands it to librdkafka, the delivery reports that come    *)
(* back while the loop polls or flushes, the flush in its finally, the     *)
(* shutdown flag (shutdown.py) and the exit code main derives.             *)
(*                                                                         *)
(* A message is its number in the run; the kind drawn for it only decides  *)
(* which counter it goes to and whether it is serialised.                  *)
(***************************************************************************)
EXTENDS Naturals, FiniteSets

CONSTANTS
    QueueLimit,     \* messages librdkafka holds until their report is served
    MaxTotal,       \* bound: messages of one run
    MaxSignals      \* bound: SIGINT and SIGTERM

ASSUME ProducerBoundsAssumption ==
    QueueLimit \in Nat \ {0} /\ MaxTotal \in Nat /\ MaxSignals \in Nat

Kinds == {"valid", "invalid", "corrupt"}

VARIABLES
    budget,     \* max_messages; 0 is no budget
    pc,         \* where the thread is
    counters,   \* ProducerCounters without delivery_failures
    failures,   \* delivery_failures
    raised,     \* is an exception on its way out of run?
    shutdown,   \* the ShutdownSignal flag
    exit,       \* how the process ended
    queue,      \* messages librdkafka has not given up or got acknowledged
    reports,    \* delivery reports not yet served
    topic,      \* messages the broker holds
    \* History, read by the properties only.
    confirmed,  \* messages whose served report was good
    failed,     \* messages whose served report carried an error
    refused,    \* messages produce raised for
    timedOut,   \* did the flush give up?
    sent        \* signals so far

memory  == <<budget, counters, failures, raised>>
kafka   == <<queue, reports, topic>>
history == <<confirmed, failed, refused, timedOut>>
vars    == <<memory, pc, shutdown, exit, kafka, history, sent>>

\* A plausible slip: a poisoned message is not part of the total.
TotalWithoutCorrupt == counters["valid"] + counters["invalid"]

\* ProducerCounters.total
Total == counters["valid"] + counters["invalid"] + counters["corrupt"]

Report == [msg: Nat \ {0}, ok: BOOLEAN]
Reported == {r.msg : r \in reports}
Pending == queue \union Reported

Init ==
    /\ budget \in 0 .. MaxTotal
    /\ pc = "loop"
    /\ counters = [kind \in Kinds |-> 0]
    /\ failures = 0
    /\ raised = FALSE
    /\ shutdown = FALSE
    /\ exit = "running"
    /\ queue = {} /\ reports = {} /\ topic = {}
    /\ confirmed = {} /\ failed = {} /\ refused = {}
    /\ timedOut = FALSE
    /\ sent = 0

----------------------------------------------------------------------------
(* The loop of run *)

\* A plausible slip: one message more than the budget.
WantsMoreOffByOne == ~shutdown /\ (budget = 0 \/ Total <= budget)

\* A plausible slip: the flag is not looked at.
WantsMoreUnasked == budget = 0 \/ Total < budget

\* The while condition.
WantsMore == ~shutdown /\ (budget = 0 \/ Total < budget)

\* A message is drawn, serialised unless it is corrupt on purpose, and counted
\* before it is handed over.
Compose ==
    /\ pc = "loop"
    /\ WantsMore
    /\ Total < MaxTotal
    /\ \E kind \in Kinds : counters' = [counters EXCEPT ![kind] = @ + 1]
    /\ pc' = "produce"
    /\ UNCHANGED <<budget, failures, raised, shutdown, exit, kafka, history, sent>>

LoopEnds ==
    /\ pc = "loop"
    /\ ~WantsMore
    /\ pc' = "flush"
    /\ UNCHANGED <<memory, shutdown, exit, kafka, history, sent>>

\* A plausible slip: the handler logs the exception and does not re-raise it.
RaiseSwallowed ==
    /\ raised' = raised
    /\ pc' = "flush"

\* The exception leaves the loop; finally flushes first.
Raise ==
    /\ raised' = TRUE
    /\ pc' = "flush"

\* The serialiser cannot reach the registry: the order is not counted.
SerialiseRaises ==
    /\ pc = "loop"
    /\ WantsMore
    /\ Raise
    /\ UNCHANGED <<budget, counters, failures, shutdown, exit, kafka, history, sent>>

ProduceOk ==
    /\ pc = "produce"
    /\ Cardinality(Pending) < QueueLimit
    /\ queue' = queue \union {Total}
    /\ pc' = "serve"
    /\ UNCHANGED <<memory, shutdown, exit, reports, topic, history, sent>>

\* BufferError once the queue is full, KafkaException at any time: the order
\* has been counted by then.
ProduceRaises ==
    /\ pc = "produce"
    /\ refused' = refused \union {Total}
    /\ Raise
    /\ UNCHANGED <<budget, counters, failures, shutdown, exit, kafka, confirmed,
                   failed, timedOut, sent>>

----------------------------------------------------------------------------
(* Delivery reports *)

\* A plausible slip: every report counts as a failure.
ErrorsEveryReport(batch) == batch

\* The reports the callback counts as delivery failures.
Errors(batch) == {r \in batch : ~r.ok}

\* The callbacks of all reports that are in.
ServeReports ==
    /\ failures' = failures + Cardinality(Errors(reports))
    /\ confirmed' = confirmed \union {m \in Reported : [msg |-> m, ok |-> TRUE] \in reports}
    /\ failed' = failed \union {m \in Reported : [msg |-> m, ok |-> FALSE] \in reports}
    /\ reports' = {}

\* poll(0), then the pacing sleep, which a shutdown cuts short.
Serve ==
    /\ pc = "serve"
    /\ ServeReports
    /\ pc' = "loop"
    /\ UNCHANGED <<budget, counters, raised, shutdown, exit, queue, topic, refused,
                   timedOut, sent>>

----------------------------------------------------------------------------
(* The finally of run, and main *)

FlushServes ==
    /\ pc = "flush"
    /\ reports # {}
    /\ ServeReports
    /\ UNCHANGED <<budget, counters, raised, pc, shutdown, exit, queue, topic,
                   refused, timedOut, sent>>

FlushEmpty ==
    /\ pc = "flush"
    /\ Pending = {}
    /\ pc' = "report"
    /\ UNCHANGED <<memory, shutdown, exit, kafka, history, sent>>

\* A flush without a timeout.
FlushWaitsForEver == FALSE

\* After its timeout flush returns what remains, which is logged.
FlushTimesOut ==
    /\ pc = "flush"
    /\ Pending # {}
    /\ timedOut' = TRUE
    /\ pc' = "report"
    /\ UNCHANGED <<memory, shutdown, exit, kafka, confirmed, failed, refused, sent>>

\* A plausible slip: the exit code does not depend on the delivery failures.
ExitAlwaysZero == IF raised THEN "exception" ELSE "exit0"

\* What main returns, if run returns.
ExitCode ==
    IF raised THEN "exception" ELSE IF failures > 0 THEN "exit1" ELSE "exit0"

Finish ==
    /\ pc = "report"
    /\ exit' = ExitCode
    /\ pc' = "ended"
    /\ UNCHANGED <<memory, shutdown, kafka, history, sent>>

----------------------------------------------------------------------------
(* librdkafka and the signals *)

Deliver ==
    /\ pc # "ended"
    /\ \E m \in queue :
        /\ queue' = queue \ {m}
        /\ topic' = topic \union {m}
        /\ reports' = reports \union {[msg |-> m, ok |-> TRUE]}
    /\ UNCHANGED <<memory, pc, shutdown, exit, history, sent>>

\* A message is given up (retries or delivery.timeout.ms spent); the broker may
\* hold it all the same.
DeliveryFails ==
    /\ pc # "ended"
    /\ \E m \in queue :
        /\ queue' = queue \ {m}
        /\ topic' \in {topic, topic \union {m}}
        /\ reports' = reports \union {[msg |-> m, ok |-> FALSE]}
    /\ UNCHANGED <<memory, pc, shutdown, exit, history, sent>>

FirstSignal ==
    /\ pc # "ended"
    /\ sent < MaxSignals
    /\ ~shutdown
    /\ shutdown' = TRUE
    /\ sent' = sent + 1
    /\ UNCHANGED <<memory, pc, exit, kafka, history>>

\* KeyboardInterrupt in the loop: finally still flushes.  What was counted and
\* not handed over is lost.
SecondSignal ==
    /\ pc \in {"loop", "produce", "serve"}
    /\ sent < MaxSignals
    /\ shutdown
    /\ sent' = sent + 1
    /\ refused' = IF pc = "produce" THEN refused \union {Total} ELSE refused
    /\ Raise
    /\ UNCHANGED <<budget, counters, failures, shutdown, exit, kafka, confirmed,
                   failed, timedOut>>

\* KeyboardInterrupt in the flush or after it: the process ends at once.
SignalWhileEnding ==
    /\ pc \in {"flush", "report"}
    /\ sent < MaxSignals
    /\ shutdown
    /\ sent' = sent + 1
    /\ raised' = TRUE
    /\ exit' = "exception"
    /\ pc' = "ended"
    /\ UNCHANGED <<budget, counters, failures, shutdown, kafka, history>>

----------------------------------------------------------------------------

\* What the thread is sure to get on with.
ThreadStep ==
    \/ Compose \/ ProduceOk \/ ProduceRaises \/ Serve \/ LoopEnds
    \/ FlushServes \/ FlushEmpty \/ FlushTimesOut \/ Finish

Next ==
    \/ ThreadStep \/ SerialiseRaises
    \/ Deliver \/ DeliveryFails
    \/ FirstSignal \/ SecondSignal \/ SignalWhileEnding

Spec == Init /\ [][Next]_vars
=============================================================================
