----------------------- MODULE DlqInspectorProperties -----------------------
(***************************************************************************)
(* What the dead letter topic and its inspector owe the operator.          *)
(***************************************************************************)
EXTENDS DlqInspector

\* What keys and values in a letter can be: the consumer's own, and those that
\* were sent.
Sent == UNION {{sender[i] : i \in DOMAIN sender} : sender \in Senders}
Decimals == {Decimal(n) : n \in {f.attempts : f \in Failures} \union 0..MaxLetters}
Keys == {HEADER_REASON, HEADER_ERROR_CLASS, HEADER_ATTEMPTS, HEADER_ORIGIN_OFFSET}
            \union {h.key : h \in Sent}
Texts == {""} \union Reasons \union ErrorClasses \union Decimals
            \union {h.value : h \in Sent}

Header == [key : Keys, value : Texts]

Letter == [headers : Seq(Header), failure : Failures, off : Nat, sender : Senders]

ThreadTypeOK ==
    /\ args \in [follow : BOOLEAN, limit : Limits]
    /\ pc \in Running \union {"done"}
    /\ shutdown \in BOOLEAN
    /\ seen \in Nat
    /\ reasons \in [Reasons \union {"UNKNOWN"} -> Nat]
    /\ printed \in Seq(1..Len(topic))
    /\ why \in {"running", "idle", "limit", "signal", "interrupt"}
    /\ report = NotReported \/ report = [seen |-> seen, reasons |-> reasons]

ClientTypeOK ==
    /\ joined \in BOOLEAN
    /\ position \in 0..Len(topic)
    /\ ends \subseteq 0..lastEnd
    /\ lastEnd \in -1..Len(topic)

ClockTypeOK ==
    /\ idle \in 0..IdleTimeout + 1
    /\ waited \in 0..Delay + 1
    /\ mark \in 0..Len(topic)

\* Every variable has its type: the state of apps/dlq_inspector.py:94-136.
TypeOK ==
    /\ topic \in Seq(Letter)
    /\ ThreadTypeOK /\ ClientTypeOK /\ ClockTypeOK
    /\ errors \in 0..MaxErrors
    /\ evictions \in 0..MaxEvictions
    /\ signals \in 0..MaxSignals

\* Whoever sees the inspector end by itself has seen every letter that was in
\* the topic when its idle clock last restarted: "the queue is drained", as
\* apps/dlq_inspector.py:107 has it without a condition.  The clock starts before
\* the group is joined, and nothing makes the join come in time.
Drained == why = "idle" => \A i \in 1..mark : \E n \in DOMAIN printed : printed[n] = i

\* The same of an end that came while no letter had waited longer than Delay.
\* The idle timeout must be at least Delay and MaxDecode together, as the clock
\* runs while a payload is decoded (apps/dlq_inspector.py:97-121).
DrainedInTime == waited <= Delay => Drained

\* Entries are printed in the order of the topic, none left out, starting over
\* only when the assignment was lost, and never more than --limit of them
\* (apps/dlq_inspector.py:103-125).
PrintedInOrder ==
    /\ printed # <<>> => printed[1] = 1
    /\ \A n \in 1..Len(printed) - 1 : printed[n + 1] \in {1, printed[n] + 1}
    /\ Cardinality({n \in DOMAIN printed : printed[n] = 1}) <= evictions + 1
    /\ args.limit > 0 => Len(printed) <= args.limit

\* The totals printed at the end are those of the entries above them, each under
\* the reason its order failed for in its last round, however often it was
\* replayed (apps/dlq_inspector.py:120, dlq.py:124-150).
ReportTellsWhy ==
    report # NotReported =>
        /\ report.seen = Len(printed)
        /\ \A r \in DOMAIN report.reasons :
            report.reasons[r] =
                Cardinality({n \in DOMAIN printed :
                                Classify(topic[printed[n]].failure.error) = r})

\* A letter carries each of the consumer's headers once, with what its own
\* failure was: no context of an earlier round is left beside it
\* (dlq.py:131-137).
OneFailureContext ==
    \A i \in DOMAIN topic :
        LET letter == topic[i]
            own == FailureHeaders(letter.failure, letter.off)
        IN  Picked(letter.headers, Managed(letter.headers)) = own

\* The headers an order was sent with are still there after every round of replay,
\* in front and in their order, a missing value as an empty one; all but those
\* with a prefix the consumer claims, which are gone whoever set them
\* (dlq.py:42-64, 133-137).
ForeignHeadersKept ==
    \A i \in DOMAIN topic :
        LET letter == topic[i]
            sent == Foreign(letter.sender)
        IN  /\ Len(Foreign(letter.headers)) = Len(sent)
            /\ \A n \in DOMAIN sent :
                /\ letter.headers[n].key = sent[n].key
                /\ letter.headers[n].value = IF sent[n].value = NoValue THEN ""
                                            ELSE sent[n].value

\* poll returns, and a payload is decoded in the end.  Nothing is assumed of the
\* join: with the coordinator out of reach the inspector polls and sees nothing.
FairSpec == Spec /\ WF_vars(ThreadStep)

\* What the broker and the client do when they work: the group is joined in the
\* end, and a letter that waits is handed out.
BrokerServes == WF_vars(Join) /\ WF_vars(PollLetter)

\* One signal is enough, --follow or not: the loop looks at the flag
\* (apps/dlq_inspector.py:103).
EndsAfterSignal == (shutdown /\ pc \in Running) ~> (pc = "done")

\* Without --follow the inspector ends by itself once letters and errors stop
\* coming, joined or not, and if it never joins, whatever is in the topic
\* (apps/dlq_inspector.py:104-113).
EndsWithoutFollow == (pc = "start" /\ ~args.follow) ~> (pc = "done")

\* With --follow and no limit every letter is printed sooner or later, a lost
\* assignment notwithstanding, unless a signal ends the run and as long as broker
\* and client do their part (apps/dlq_inspector.py:111-112).
FollowShowsAll ==
    BrokerServes => \A i \in 1..MaxLetters :
        (args.follow /\ args.limit = 0 /\ Len(topic) >= i)
            ~> (shutdown \/ \E n \in DOMAIN printed : printed[n] = i)
=============================================================================
