------------------------------ MODULE MCBroker ------------------------------
(* Two streams that may share an id, and one producer.                     *)
EXTENDS Broker

CONSTANTS s1, s2, i1, i2, p1

MCStreams == {s1, s2}
MCIds == {i1, i2}
MCProducers == {p1}
=============================================================================
