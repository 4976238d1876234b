------------------------ MODULE MCAggregatePublisher ------------------------
(* Values for the constants of AggregatePublisher that a .cfg cannot write. *)
EXTENDS AggregatePublisherProperties

MCProducts == <<"Item1", "Item2">>
=============================================================================
