------------------------------ MODULE Backoff ------------------------------
(***************************************************************************)
(* How long retry.py waits between two attempts, in ticks.                 *)
(***************************************************************************)
EXTENDS Integers, RetryPolicy

CONSTANTS
    InitialBackoff,   \* initial_backoff_s
    Multiplier,       \* growth per attempt
    MaxBackoff,       \* max_backoff_s, the cap before jitter
    JitterPercent     \* jitter_ratio

\* What RetryPolicy.__post_init__ accepts.
ASSUME PolicyAssumption ==
    /\ InitialBackoff \in Nat
    /\ Multiplier \in Nat \ {0}
    /\ MaxBackoff \in Nat /\ InitialBackoff <= MaxBackoff
    /\ JitterPercent \in 0..100

\* A plausible slip: the cap is forgotten.
BaseUncapped(attempt) == InitialBackoff * Multiplier ^ (attempt - 1)

Base(attempt) ==
    LET grown == InitialBackoff * Multiplier ^ (attempt - 1)
    IN  IF grown < MaxBackoff THEN grown ELSE MaxBackoff

\* Jitter takes away or adds at most this share.
Spread(base) == (base * JitterPercent) \div 100

\* The delays backoff_for may return after the 1-based attempt has failed.
Delays(attempt) ==
    LET base == Base(attempt)
    IN  {IF d < 0 THEN 0 ELSE d : d \in base - Spread(base) .. base + Spread(base)}
=============================================================================
