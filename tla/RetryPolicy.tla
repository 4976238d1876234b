---------------------------- MODULE RetryPolicy ----------------------------
(***************************************************************************)
(* The retry budget of retry.py: how often one order may be tried.         *)
(***************************************************************************)
EXTENDS Naturals

CONSTANT MaxAttempts    \* total tries, the first included

\* RetryPolicy.__post_init__ refuses a smaller budget.
ASSUME MaxAttemptsAssumption == MaxAttempts \in Nat \ {0}

\* A plausible slip: one attempt too many.
ShouldRetryOffByOne(attempt) == attempt <= MaxAttempts

\* RetryPolicy.should_retry, asked after the 1-based attempt has failed.
ShouldRetry(attempt) == attempt < MaxAttempts
=============================================================================
