------------------------------ MODULE MCPeers ------------------------------
(* A configured server, a network with a gateway of its own and one whose  *)
(* gateway is the configured server.  Of two samples the one of the better *)
(* stratum has the longer delay.                                           *)
EXTENDS Peers
CONSTANTS c1, g1

MCServers == <<c1>>
MCLeases  == {g1, c1}
MCSamples == {[stratum |-> 1, latency |-> 3000, offset |-> 0],
              [stratum |-> 2, latency |-> 1000, offset |-> 9000]}
============================================================================
