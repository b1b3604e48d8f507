---------------------------- MODULE MCTelemetry ----------------------------
(* A device whose sequence numbers wrap after its next packet.             *)
EXTENDS Telemetry
CONSTANTS dev1, c1

MCPackets == [dev: {dev1}, seq: 0..(SeqSpace - 1), up: 0..MaxUp,
              coll: BOOLEAN, clear: BOOLEAN]
=============================================================================
