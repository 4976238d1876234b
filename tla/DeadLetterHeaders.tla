------------------------- MODULE DeadLetterHeaders -------------------------
(***************************************************************************)
(* The headers of a dead letter (dlq.py) and how a reader looks them up    *)
(* (_decode_headers of apps/dlq_inspector.py).  A header is a key and a    *)
(* value; a key is told by the prefix the consumer claims, or "" if it has *)
(* none of those, and the rest of it.  Of the ten headers the consumer     *)
(* writes, the model has those that tell one failure from another.         *)
(***************************************************************************)
EXTENDS Naturals, Sequences, Selections, ErrorTaxonomy
LOCAL INSTANCE TLC

\* None in the program: the headers of a message that has none (for which the
\* model takes the empty list at once), and the value of a header without one.
NoHeaders == <<>>
NoValue == "None"

HEADER_REASON == [prefix |-> "x-dlq-", name |-> "reason"]
HEADER_ERROR_CLASS == [prefix |-> "x-dlq-", name |-> "error-class"]
HEADER_ATTEMPTS == [prefix |-> "x-dlq-", name |-> "attempts"]
HEADER_ORIGIN_OFFSET == [prefix |-> "x-origin-", name |-> "offset"]

ManagedPrefixes == {"x-dlq-", "x-origin-"}

\* The places of the headers the consumer takes for its own, whoever wrote them.
Managed(headers) ==
    {i \in DOMAIN headers : headers[i].key.prefix \in ManagedPrefixes}

\* The headers that are not the consumer's own.
Foreign(headers) == Picked(headers, DOMAIN headers \ Managed(headers))

\* A plausible slip: headers without a value are left out.
NormalizeFilled(raw) == SelectSeq(raw, LAMBDA h : h.value # NoValue)

\* normalize_headers: a list, and a missing value is empty.
Filled(header) == [header EXCEPT !.value = IF @ = NoValue THEN "" ELSE @]

Normalize(raw) == [i \in DOMAIN raw |-> Filled(raw[i])]

\* str(number).encode()
Decimal(n) == ToString(n)

\* What the consumer writes of a failure of the message at the given offset.
FailureHeaders(failure, off) ==
    <<[key |-> HEADER_REASON, value |-> Classify(failure.error)],
      [key |-> HEADER_ERROR_CLASS, value |-> failure.error],
      [key |-> HEADER_ATTEMPTS, value |-> Decimal(failure.attempts)],
      [key |-> HEADER_ORIGIN_OFFSET, value |-> Decimal(off)]>>

\* Plausible slips: the headers of the round before stay, in front or behind.
BuildUnstripped(raw, failure, off) == Normalize(raw) \o FailureHeaders(failure, off)
BuildStaleLast(raw, failure, off) == FailureHeaders(failure, off) \o Normalize(raw)

\* _build_headers: the headers of others, then this failure's own.
BuildHeaders(raw, failure, off) ==
    Foreign(Normalize(raw)) \o FailureHeaders(failure, off)

\* headers.get(key, default) on the dict made of the headers: of several with
\* one key, the last stays.
Get(headers, key, default) ==
    LET places == {i \in DOMAIN headers : headers[i].key = key}
        last == CHOOSE i \in places : \A j \in places : j <= i
    IN  IF places = {} THEN default ELSE headers[last].value
=============================================================================
