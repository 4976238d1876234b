---------------------- MODULE OrderProducerProperties ----------------------
(***************************************************************************)
(* What one run of the order producer owes its operator: the counters, the *)
(* final report and the exit code account for every message it drew.       *)
(***************************************************************************)
EXTENDS OrderProducer

Numbers == 1 .. Total

TypeOK ==
    /\ budget \in Nat
    /\ pc \in {"loop", "produce", "serve", "flush", "report", "ended"}
    /\ counters \in [Kinds -> Nat]
    /\ failures \in Nat
    /\ raised \in BOOLEAN /\ shutdown \in BOOLEAN /\ timedOut \in BOOLEAN
    /\ exit \in {"running", "exit0", "exit1", "exception"}
    /\ reports \in SUBSET Report /\ IsFiniteSet(reports)
    /\ queue \union Reported \union topic \subseteq Numbers
    /\ confirmed \union failed \union refused \subseteq Numbers
    /\ pc = "produce" => Total > 0
    /\ sent \in Nat

\* The messages counted so far that produce has been called for.
HandedOver == IF pc = "produce" THEN Numbers \ {Total} ELSE Numbers

\* A message handed over is in exactly one place: with librdkafka, in a report
\* on its way, served as delivered, served as failed, or refused by produce; and
\* delivery_failures is the number of the failed ones, however reports, polls,
\* the flush and signals interleave (producer.py:100-110, 165-206).
Ledger ==
    /\ Pending \union confirmed \union failed \union refused = HandedOver
    /\ queue \intersect Reported = {}
    /\ Pending \intersect (confirmed \union failed \union refused) = {}
    /\ confirmed \intersect failed = {}
    /\ refused \intersect (confirmed \union failed) = {}
    /\ failures = Cardinality(failed)

\* max_messages is never exceeded, whatever mix of kinds is drawn, and a run that
\* ends by itself has spent it (producer.py:153, 165).
BudgetSpentExactly ==
    budget # 0 =>
        /\ Total <= budget
        /\ pc \in {"flush", "report"} /\ ~shutdown /\ ~raised => Total = budget

\* If the flush got through, exit code 0 says that the broker holds every message
\* of the run, and exit code 1 that a report was bad (producer.py:204-206, 255).
ExitCodeTruthful ==
    /\ exit = "exit0" /\ ~timedOut => Numbers \subseteq topic
    /\ exit = "exit1" => failed # {}

\* Why Ledger and ExitCodeTruthful hold: a message has one report; a good one
\* means that the broker has the message; a refused message means that an exception
\* is on its way out (producer.py:199-201 re-raises it); and a flush that got
\* through left nothing behind (producer.py:204).
EndInv ==
    /\ \A r, s \in reports : r.msg = s.msg => r = s
    /\ confirmed \subseteq topic
    /\ \A r \in reports : r.ok => r.msg \in topic
    /\ refused # {} => raised
    /\ pc \in {"report", "ended"} /\ ~timedOut /\ ~raised => Pending = {}
    /\ pc = "ended" => exit = ExitCode
    /\ pc # "ended" => exit = "running"

\* producer.py:247-254: the final report, if there is one, states how many of the
\* messages were undelivered.
UndeliveredReported ==
    exit \in {"exit0", "exit1"} => failures = Cardinality(Numbers \ confirmed)

\* The thread runs on: poll(0) and the pacing sleep return, so does flush after
\* 30 s at the latest.
FairSpec == Spec /\ WF_vars(ThreadStep)

\* Whatever the broker does, a producer asked to stop ends.
StopsWhenAsked == shutdown ~> pc = "ended"

\* A producer with a budget ends without being asked to.
EndsOnBudget == budget # 0 ~> pc = "ended"
=============================================================================
