--------------------------- MODULE ErrorTaxonomy ---------------------------
(***************************************************************************)
(* The exception classes of errors.py and the dead letter reasons of       *)
(* dlq.py.  Routing and classification in the program are chains of        *)
(* "except" clauses and isinstance tests, so what matters of a class is    *)
(* the set of classes it is an instance of.                                *)
(***************************************************************************)

\* Every class with itself and its bases.  "Exception" stands for any
\* exception that errors.py does not know.
Bases ==
    [ProcessingError          |-> {"ProcessingError"},
     TransientProcessingError |-> {"TransientProcessingError", "ProcessingError"},
     PermanentProcessingError |-> {"PermanentProcessingError", "ProcessingError"},
     DeserializationError     |-> {"DeserializationError",
                                   "PermanentProcessingError", "ProcessingError"},
     ValidationError          |-> {"ValidationError",
                                   "PermanentProcessingError", "ProcessingError"},
     RetryExhaustedError      |-> {"RetryExhaustedError", "ProcessingError"},
     Exception                |-> {"Exception"}]

ErrorClasses == DOMAIN Bases

IsA(error, class) == class \in Bases[error]

Reasons == {"DESERIALIZATION_FAILURE", "VALIDATION_FAILURE",
            "RETRY_EXHAUSTED", "UNEXPECTED_ERROR"}

\* A plausible slip: the general class is tested before its subclass.
ClassifyPermanentFirst(error) ==
    IF IsA(error, "PermanentProcessingError") THEN "VALIDATION_FAILURE"
    ELSE IF IsA(error, "DeserializationError") THEN "DESERIALIZATION_FAILURE"
    ELSE IF IsA(error, "RetryExhaustedError") THEN "RETRY_EXHAUSTED"
    ELSE "UNEXPECTED_ERROR"

\* classify: the first test that matches decides, and a DeserializationError is
\* a PermanentProcessingError too.
Classify(error) ==
    IF IsA(error, "DeserializationError") THEN "DESERIALIZATION_FAILURE"
    ELSE IF IsA(error, "RetryExhaustedError") THEN "RETRY_EXHAUSTED"
    ELSE IF IsA(error, "PermanentProcessingError") THEN "VALIDATION_FAILURE"
    ELSE "UNEXPECTED_ERROR"
=============================================================================
