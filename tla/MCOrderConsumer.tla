-------------------------- MODULE MCOrderConsumer --------------------------
(* Small instances of the consumer group for TLC. *)
EXTENDS OrderConsumerProperties, TLC

\* Processes and partitions are interchangeable: no definition names one.
Interchangeable == Permutations(Consumers) \union Permutations(Partitions)
=============================================================================
