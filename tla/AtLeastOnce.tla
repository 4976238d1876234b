---------------------------- MODULE AtLeastOnce ----------------------------
(***************************************************************************)
(* What a consumer group promises of a topic.  A message is settled once   *)
(* its outcome is decided; a partition is acknowledged up to an offset,    *)
(* and only over settled messages.  Settling says nothing of how often a   *)
(* message is read: one may be settled again, before or after it is        *)
(* acknowledged.  Acknowledgement is never taken back.                     *)
(***************************************************************************)
EXTENDS Naturals

CONSTANT Partitions

VARIABLES settled,      \* messages whose outcome is decided
          acked         \* the offset up to which a partition is acknowledged

AckedIsSettled ==
    \A p \in Partitions : \A o \in 0 .. acked[p] - 1 :
        [part |-> p, off |-> o] \in settled

Init == settled = {} /\ acked = [p \in Partitions |-> 0]

\* One message is settled.
Settle ==
    /\ \E m \in settled' :
        /\ m \in [part: Partitions, off: Nat]
        /\ settled' = settled \union {m}
    /\ UNCHANGED acked

\* Any partitions may advance together.
Acknowledge ==
    /\ acked' \in [Partitions -> Nat]
    /\ \A p \in Partitions : acked'[p] >= acked[p]
    /\ AckedIsSettled'
    /\ UNCHANGED settled

Next == Settle \/ Acknowledge

Spec == Init /\ [][Next]_<<settled, acked>>
=============================================================================
