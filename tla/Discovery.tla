----------------------------- MODULE Discovery -----------------------------
(***************************************************************************)
(* How the device and the server find each other: the announcements of     *)
(* src/server/src/discovery.rs; on the device the beacon listener and the  *)
(* choice of the address telemetry goes to (src/firmware/network/udp.rs),  *)
(* and the mDNS task (src/firmware/network/mdns.rs), which looks for the   *)
(* server in what it hears and announces the device itself.                *)
(*                                                                         *)
(* A tick is a second.  The device keeps the uptime of the last            *)
(* announcement; the model keeps its age, which no run of the counter      *)
(* changes.  The announcements are exactly Interval apart: the little that *)
(* sending adds to the server's sleep is left out.  One arrives in the     *)
(* second it is sent in or is lost; beacon and mDNS packet overtake each   *)
(* other.  A DNS packet is its sequence of records; names are in module    *)
(* Names.  Answers to questions about the device's own name are left out.  *)
(***************************************************************************)
EXTENDS Naturals, Sequences, SequencesExt, FiniteSets

CONSTANTS
    Servers,         \* [ip, port]: where a server may run
    Statics,         \* UDP_SERVER_IP of the build, or Nowhere
    Foreign,         \* packets of other hosts: [response, records]
    DefaultPort,     \* UDP_SERVER_PORT_DEFAULT
    Interval,        \* ANNOUNCE_INTERVAL
    Expiry,          \* DISCOVERY_EXPIRY_S
    AnnounceEvery,   \* MDNS_ANNOUNCE_INTERVAL_SECS
    Nowhere          \* no address, no record

ASSUME IntervalAssumption ==
    /\ Interval \in Nat \ {0} /\ AnnounceEvery \in Nat \ {0}
    /\ Expiry \in Nat /\ Expiry % Interval = 0

(* Other hosts may speak mDNS, but none of them offers this service.       *)
ASSUME ForeignAssumption ==
    \A p \in Foreign : p.response =>
        \A i \in DOMAIN p.records :
            ~(p.records[i].type = "PTR" /\ p.records[i].owner = "_brewster")

VARIABLES
    serverAt, next,      \* where the server runs; seconds to its announcement
    net,                 \* announcements under way
    static,              \* the configured server
    lease, ip,           \* configuration of the stack; LAST_IP is set
    opened,              \* the two UDP tasks have seen an address and run
    discovered, age,     \* DISCOVERED_IP and _PORT, seconds since
    told,                \* the telemetry task has had its turn this second
    mdnsPc, due,         \* the mDNS task; seconds to announce_deadline
    sent, announced,     \* ghosts: where telemetry last went; with address?
    last, ago,           \* ghosts: the server heard last; seconds since
    missed               \* ghost: announcements in a row of which none came

server == <<serverAt, next>>
device == <<static, lease, ip, opened>>
found  == <<discovered, age>>
mdns   == <<mdnsPc, due, announced>>
ghosts == <<last, ago, missed>>
discoveryVars == <<server, net, device, found, told, sent, mdns, ghosts>>

Silent == Expiry + 1
Rounds == Expiry \div Interval

----------------------------------------------------------------------------
(* try_find_brewster_service.  The server's own packet has a record of     *)
(* each kind; in a packet with several, the last one counts.               *)

Rec(type, owner, data) == [type |-> type, owner |-> owner, data |-> data]

Packet(s) == [response |-> TRUE, records |->
    <<Rec("PTR", "_brewster", "instance"), Rec("TXT", "instance", s.port),
      Rec("SRV", "instance", s.port), Rec("A", "host", s.ip)>>]

LastOf(recs, type) ==
    LET i == SelectLastInSeq(recs, LAMBDA r : r.type = type)
    IN  IF i = 0 THEN Nowhere ELSE recs[i].data

FindService(p) ==
    LET a == LastOf(p.records, "A")
        port == LastOf(p.records, "SRV")
    IN  IF p.response /\ a # Nowhere
             /\ \E i \in DOMAIN p.records : /\ p.records[i].type = "PTR"
                                            /\ p.records[i].owner = "_brewster"
        THEN [ip |-> a, port |-> IF port = Nowhere THEN DefaultPort ELSE port]
        ELSE Nowhere

(* The address telemetry goes to.                                          *)
LostEarly == age >= Expiry  \* mutant
LostLate == age > Silent  \* mutant
Lost == age > Expiry
ServerAddr ==
    CASE static # Nowhere -> static
      [] static = Nowhere /\ discovered # Nowhere /\ ~Lost -> discovered
      [] OTHER -> Nowhere

SetIfNew(s) ==  \* mutant
    IF s = discovered THEN UNCHANGED found ELSE discovered' = s /\ age' = 0
SetDiscoveredServer(s) == discovered' = s /\ age' = 0

----------------------------------------------------------------------------
DiscoveryInit ==
    /\ serverAt = Nowhere /\ next = 0 /\ net = {}
    /\ static \in Statics
    /\ lease = FALSE /\ ip = FALSE /\ opened = FALSE
    /\ discovered = Nowhere /\ age = 0
    /\ told = FALSE /\ sent = Nowhere
    /\ mdnsPc = "up?" /\ due = 0 /\ announced = FALSE
    /\ last = Nowhere /\ ago = 0 /\ missed = 0

----------------------------------------------------------------------------
(* The server, its start and stop, and the network.                        *)

(* The server starts, stops or moves; it announces itself at once.  A      *)
(* restart takes a second at least.                                        *)
Moves ==
    /\ next < Interval
    /\ serverAt' \in (Servers \union {Nowhere}) \ {serverAt}
    /\ next' = 0
    /\ missed' = Rounds
    /\ UNCHANGED <<net, device, found, told, sent, mdns, last, ago>>

(* run: one beacon, one mDNS packet, then a sleep.                         *)
Announce ==
    /\ serverAt # Nowhere /\ next = 0
    /\ next' = Interval
    /\ net' = net \union [kind : {"beacon", "mdns"}, from : {serverAt}]
    /\ missed' = IF missed < Rounds THEN missed + 1 ELSE missed
    /\ UNCHANGED <<serverAt, device, found, told, sent, mdns, last, ago>>

LeaseChanges ==
    /\ lease' = ~lease
    /\ UNCHANGED <<server, net, static, ip, opened, found, told, sent, mdns, ghosts>>

Lose(p) ==
    /\ net' = net \ {p}
    /\ UNCHANGED <<server, device, found, told, sent, mdns, ghosts>>

----------------------------------------------------------------------------
(* The device.                                                             *)

(* wifi_status_task.                                                       *)
FollowLease ==
    /\ ip # lease /\ ip' = lease
    /\ UNCHANGED <<server, net, static, lease, opened, found, told, sent, mdns, ghosts>>

Heard(s) ==
    /\ SetDiscoveredServer(s)
    /\ last' = s /\ ago' = 0
    /\ missed' = IF s = serverAt THEN 0 ELSE missed

(* udp_discovery_task.                                                     *)
ReceiveBeacon(p) ==
    /\ p.kind = "beacon" /\ opened /\ lease
    /\ net' = net \ {p}
    /\ Heard(p.from)
    /\ UNCHANGED <<server, device, told, sent, mdns>>

(* mdns_task: every packet of the group is looked at.                      *)
ReceiveMdns(p) ==
    /\ p.kind = "mdns" /\ mdnsPc = "loop" /\ lease
    /\ net' = net \ {p}
    /\ IF FindService(Packet(p.from)) = p.from THEN Heard(p.from)
       ELSE UNCHANGED <<found, ghosts>>
    /\ UNCHANGED <<server, device, told, sent, mdns>>

ReceiveForeign(p) ==
    /\ mdnsPc = "loop" /\ lease
    /\ IF FindService(p) = Nowhere THEN UNCHANGED found
       ELSE SetDiscoveredServer(FindService(p))
    /\ UNCHANGED <<server, net, device, told, sent, mdns, ghosts>>

(* The configuration is up: the group is joined, the socket bound.         *)
JoinGroup ==
    /\ mdnsPc = "up?" /\ lease
    /\ mdnsPc' = "loop" /\ due' = 0
    /\ UNCHANGED <<server, net, device, found, told, sent, announced, ghosts>>

JoinFailsForGood ==  \* mutant
    /\ mdnsPc = "up?" /\ lease
    /\ mdnsPc' = "ended"
    /\ UNCHANGED <<server, net, device, found, told, sent, due, announced, ghosts>>
(* The group cannot be joined or the socket not bound: a second's pause.   *)
JoinFails ==
    /\ mdnsPc = "up?" /\ lease
    /\ mdnsPc' = "pause"
    /\ UNCHANGED <<server, net, device, found, told, sent, due, announced, ghosts>>

PauseEnds ==
    /\ mdnsPc = "pause"
    /\ mdnsPc' = "up?"
    /\ UNCHANGED <<server, net, device, found, told, sent, due, announced, ghosts>>

(* The top of the inner loop, reached at least every two seconds.          *)
MdnsTurn ==
    /\ mdnsPc = "loop"
    /\ \/ ~lease /\ mdnsPc' = "up?" /\ UNCHANGED <<due, announced>>
       \/ /\ lease /\ due = 0
          /\ due' = AnnounceEvery /\ announced' = ip
          /\ UNCHANGED mdnsPc
    /\ UNCHANGED <<server, net, device, found, told, sent, ghosts>>

(* udp_telemetry_task, once a second.                                      *)
Telemetry ==
    /\ opened /\ ~told
    /\ told' = TRUE /\ sent' = ServerAddr
    /\ UNCHANGED <<server, net, device, found, mdns, ghosts>>

(* A second passes; nobody sleeps longer than the timers say, and both UDP *)
(* tasks look for an address every second until they have one.             *)
Older(n) == IF n < Silent THEN n + 1 ELSE n

Second ==
    /\ net = {} /\ (serverAt # Nowhere => next > 0) /\ (opened => told)
    /\ next' = IF next > 0 THEN next - 1 ELSE 0
    /\ opened' = (opened \/ ip)
    /\ age' = Older(age)
    /\ told' = FALSE /\ sent' = Nowhere
    /\ due' = IF due > 0 THEN due - 1 ELSE 0
    /\ announced' = FALSE
    /\ ago' = Older(ago)
    /\ UNCHANGED <<serverAt, net, static, lease, ip, discovered, mdnsPc, last, missed>>

----------------------------------------------------------------------------
DiscoveryNext ==
    \/ Moves \/ Announce \/ LeaseChanges \/ FollowLease
    \/ \E p \in net : Lose(p) \/ ReceiveBeacon(p) \/ ReceiveMdns(p)
    \/ \E p \in Foreign : ReceiveForeign(p)
    \/ JoinGroup \/ JoinFails \/ PauseEnds \/ MdnsTurn
    \/ Telemetry \/ Second

(* The tasks run; time passes; a packet arrives or is lost, not every one  *)
(* is lost, and the group is joined in the end.                            *)
DiscoveryFairness ==
    /\ WF_discoveryVars(Announce) /\ WF_discoveryVars(FollowLease) /\ WF_discoveryVars(Telemetry)
    /\ WF_discoveryVars(PauseEnds) /\ WF_discoveryVars(MdnsTurn) /\ SF_discoveryVars(JoinGroup)
    /\ SF_discoveryVars(Second) /\ WF_discoveryVars(\E p \in net : Lose(p))
    /\ SF_discoveryVars(\E p \in net : ReceiveBeacon(p))

DiscoverySpec == DiscoveryInit /\ [][DiscoveryNext]_discoveryVars
DiscoveryFairSpec == DiscoverySpec /\ DiscoveryFairness

----------------------------------------------------------------------------
(* Properties.                                                             *)

(* Types: in particular, what the device has found is one of the servers,  *)
(* whatever else speaks mDNS (mdns.rs 506-582).                            *)
DiscoveryTypeOK ==
    /\ serverAt \in Servers \union {Nowhere} /\ next \in 0..Interval
    /\ net \subseteq [kind : {"beacon", "mdns"}, from : Servers]
    /\ discovered \in Servers \union {Nowhere} /\ age \in 0..Silent
    /\ mdnsPc \in {"up?", "pause", "loop"} /\ due \in 0..AnnounceEvery

(* Telemetry goes to the configured server, or to one the device has heard *)
(* in the last Expiry seconds, at the port it gave: never to one that has  *)
(* been silent longer, never to another host that speaks mDNS.             *)
SentToHeardServer ==
    [][(~told /\ told') =>
          \/ sent' \in {Nowhere, static}
          \/ sent' = last /\ ago <= Expiry]_discoveryVars

(* A server that goes on announcing itself where the device last heard it  *)
(* is not given up before Rounds announcements in a row have been missed   *)
(* (udp.rs 48-50).                                                         *)
KeepsServer ==
    (serverAt # Nowhere /\ discovered = serverAt /\ missed < Rounds)
        => ServerAddr # Nowhere

(* Once a server stays and the network stays, telemetry goes to it again   *)
(* and again, wherever it went before.                                     *)
FollowsServer ==
    \A s \in Servers :
        (<>[](serverAt = s /\ lease /\ static = Nowhere)) => []<>(sent = s)

(* Once the network stays, the device announces itself with its address    *)
(* again and again, though a first announcement may go out without one,    *)
(* when the mDNS task sees the configuration first (mdns.rs 421-440).      *)
AnnouncesAddress == (<>[]lease) => []<>announced

(* What the device knows of the server: one that exists, and that is not   *)
(* given up early (udp.rs 63-95, mdns.rs 506-582).                         *)
ServerInv == DiscoveryTypeOK /\ KeepsServer
============================================================================
