--------------------------- MODULE MCDlqInspector ---------------------------
(* Values for the constants of DlqInspector that a .cfg cannot write. *)
EXTENDS DlqInspectorProperties

MCFailures == {[error |-> "ValidationError", attempts |-> 1],
               [error |-> "RetryExhaustedError", attempts |-> 4]}

\* An order that was a dead letter before, of this consumer or another, and whose
\* sender has a header x-origin-region.
MCSenders == {<<[key |-> [prefix |-> "", name |-> "trace"], value |-> "a"],
                [key |-> [prefix |-> "x-origin-", name |-> "region"], value |-> "b"],
                [key |-> HEADER_ATTEMPTS, value |-> "7"],
                [key |-> [prefix |-> "", name |-> "note"], value |-> NoValue]>>}
=============================================================================
