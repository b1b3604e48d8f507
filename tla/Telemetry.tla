----------------------------- MODULE Telemetry ------------------------------
(***************************************************************************)
(* The device and the server together: the telemetry sender of the         *)
(* firmware (src/firmware/network/udp.rs), the two HTTP handlers of the    *)
(* firmware that the server calls (src/firmware/network/http.rs), and the  *)
(* server of module Server, joined by a network that may lose, duplicate   *)
(* and reorder datagrams.                                                  *)
(*                                                                         *)
(* One device; its clock advances by one between two packets, or by more   *)
(* while no server is known.  A datagram is a packet with its place in the *)
(* order of sending, [boot, k], which only the properties look at.  The    *)
(* HTTP call of the server reaches the device or not; its answer changes   *)
(* nothing.  The model begins with a device that has been up for a while,  *)
(* so that its sequence numbers wrap.                                      *)
(***************************************************************************)
EXTENDS Server

CONSTANTS
    Device,              \* the device
    FirstSeq, FirstUp,   \* its sequence number and uptime at the beginning
    MaxUp, MaxSends, MaxInFlight, MaxEvents    \* bounds of the model

(* No more packets in a boot than half the range of the numbers (2^31, at  *)
(* one packet a second), and a disk that works.                            *)
ASSUME TelemetryAssumption ==
    /\ {MaxUp, MaxSends, MaxInFlight, MaxEvents} \subseteq Nat
    /\ FirstSeq \in 0..(SeqSpace - 1) /\ FirstUp \in 0..MaxUp
    /\ 2 * MaxSends <= SeqSpace
    /\ [dev: {Device}, seq: 0..(SeqSpace - 1), up: 0..MaxUp, coll: BOOLEAN,
         clear: BOOLEAN] \subseteq Packets
ASSUME DiskAssumption == MaxFaults = 0

VARIABLES
    seq, up,             \* UDP_SEQ and the uptime in seconds
    deviceCollecting,    \* COLLECTION_ENABLED
    clearPending,        \* HISTORY_CLEAR_PENDING
    net,                 \* the datagrams in flight
    boot, k,             \* ghosts: boots so far, packets built in this boot
    inHand, origin,      \* ghosts: the place of the receiver's packet; of
                         \* each record, by its serial number
    since,               \* ghost: the place of the first packet built after
                         \* the device last cleared its history
    seen,                \* ghost: the places counted, in order, since the
                         \* statistics began
    disturbed,           \* ghost: a datagram was overtaken by a later one
    flagLost,            \* ghost: the flag of the last clear is gone
    events               \* commands, reboots and gaps so far, bounded

device == <<seq, up, deviceCollecting, clearPending>>
places == <<boot, k, inHand, origin, since, seen, disturbed, flagLost>>
tvars  == <<vars, device, net, places, events>>

Event == events < MaxEvents /\ events' = events + 1

Before(a, b) == a[1] < b[1] \/ (a[1] = b[1] /\ a[2] < b[2])
Nowhere == <<0, 0>>

TelemetryInit ==
    /\ Init
    /\ seq = FirstSeq /\ up = FirstUp
    /\ deviceCollecting = TRUE /\ clearPending = FALSE
    /\ net = {}
    /\ boot = 1 /\ k = 0
    /\ inHand = Nowhere /\ origin = <<>> /\ since = Nowhere
    /\ seen = <<>> /\ disturbed = FALSE /\ flagLost = FALSE
    /\ events = 0

----------------------------------------------------------------------------
(* The device.                                                             *)

(* build_packet takes the next number and the clear flag; the packet goes  *)
(* out, or send_to fails and both are spent.                               *)
NextSeq(s) == (s + 1) % SeqSpace

Built == [dev |-> Device, seq |-> seq, up |-> up, coll |-> deviceCollecting,
          clear |-> clearPending]

Send(ok) ==
    /\ up < MaxUp /\ k < MaxSends /\ Cardinality(net) < MaxInFlight
    /\ net' = IF ok THEN net \union {[place |-> <<boot, k + 1>>, packet |-> Built]}
                    ELSE net
    /\ seq' = NextSeq(seq)
    /\ up' = up + 1
    /\ k' = k + 1
    /\ clearPending' = FALSE
    /\ flagLost' = (flagLost \/ (clearPending /\ ~ok))
    /\ UNCHANGED <<events, vars, deviceCollecting, boot, inHand, origin, since, seen,
                   disturbed>>

(* A second without a known server: nothing is built.                      *)
Unsent ==
    /\ Event
    /\ up < MaxUp
    /\ up' = up + 1
    /\ UNCHANGED <<vars, seq, deviceCollecting, clearPending, net, places>>

(* POST /history/clear on the device: flash cleared, the flag raised.      *)
Cleared ==
    /\ clearPending' = TRUE
    /\ since' = <<boot, k + 1>>
    /\ flagLost' = FALSE

ClearOnDevice ==
    /\ Event
    /\ Cleared
    /\ UNCHANGED <<vars, seq, up, deviceCollecting, net, boot, k, inHand, origin,
                   seen, disturbed>>

(* POST /collection on the device, from a client of its own or a request   *)
(* that the server has given up.                                           *)
CollectionOnDevice(enabled) ==
    /\ Event
    /\ deviceCollecting' = enabled
    /\ UNCHANGED <<vars, seq, up, clearPending, net, places>>

(* A power cycle: the flag and the counter are in RAM, and the collection  *)
(* state comes back from flash.                                            *)
RebootDevice ==
    /\ Event
    /\ seq' = 0 /\ up' = 0
    /\ clearPending' = FALSE
    /\ flagLost' = (flagLost \/ clearPending)
    /\ boot' = boot + 1 /\ k' = 0
    /\ UNCHANGED <<vars, deviceCollecting, net, inHand, origin, since, seen,
                   disturbed>>

----------------------------------------------------------------------------
(* The network and the server.                                             *)

Lose(d) ==
    /\ net' = net \ {d}
    /\ flagLost' = (flagLost \/ d.packet.clear)
    /\ UNCHANGED <<events, vars, device, boot, k, inHand, origin, since, seen, disturbed>>

(* Delivery, of the datagram or of a copy of it.                           *)
Deliver(d) ==
    /\ Receive(d.packet)
    /\ net' \in {net, net \ {d}}
    /\ inHand' = d.place
    /\ disturbed' = (disturbed \/ Before(d.place, inHand))
    /\ UNCHANGED <<events, device, boot, k, origin, since, seen, flagLost>>

(* Any other step of the receiver, with a disk that works (module Server   *)
(* has the appends that fail).                                             *)
ReceiverStep ==
    /\ UdpClearStore \/ UdpClearFile \/ Insert \/ AppendLine
    /\ origin' = IF serial' > serial THEN Append(origin, inHand) ELSE origin
    /\ seen' = CASE udpPc = "insert" -> Append(seen, inHand)
                 [] udpPc = "clearStore" -> <<>>
                 [] OTHER -> seen
    /\ UNCHANGED <<events, device, net, boot, k, inHand, since, disturbed, flagLost>>

(* The server's HTTP requests; two of their steps call the device.         *)
ForwardedClear(c) ==
    /\ ForwardClear(c)
    /\ \/ Cleared /\ address[c] = Device
       \/ UNCHANGED <<clearPending, since, flagLost>>
    /\ UNCHANGED <<events, seq, up, deviceCollecting, net, boot, k, inHand, origin, seen,
                   disturbed>>

ForwardedCollection(c, enabled) ==
    /\ ForwardCollection(c, enabled)
    /\ \/ deviceCollecting' = enabled /\ LatestAddress = Device
       \/ UNCHANGED deviceCollecting
    /\ UNCHANGED <<events, seq, up, clearPending, net, places>>

RequestStep(c) ==
    /\ \/ Event /\ (RequestClear(c) \/ \E on \in BOOLEAN : RequestCollection(c, on))
       \/ UNCHANGED events /\ (ClearStore(c) \/ ClearFile(c))
    /\ seen' = IF pc[c] = "clearStore" THEN <<>> ELSE seen
    /\ UNCHANGED <<device, net, boot, k, inHand, origin, since, disturbed, flagLost>>

(* The packet in the receiver's hand dies with the server.                 *)
RestartServer ==
    /\ Restart
    /\ seen' = <<>>
    /\ flagLost' = (flagLost \/ (pkt # NoPacket /\ pkt.clear))
    /\ UNCHANGED <<events, device, net, boot, k, inHand, origin, since, disturbed>>

TelemetryNext ==
    \/ \E ok \in BOOLEAN : Send(ok)
    \/ Unsent \/ ClearOnDevice \/ RebootDevice
    \/ \E enabled \in BOOLEAN : CollectionOnDevice(enabled)
    \/ \E d \in net : Lose(d) \/ Deliver(d)
    \/ ReceiverStep
    \/ \E c \in Clients : \/ ForwardedClear(c) \/ RequestStep(c)
                          \/ \E enabled \in BOOLEAN : ForwardedCollection(c, enabled)
    \/ RestartServer

TelemetrySpec == TelemetryInit /\ [][TelemetryNext]_tvars

----------------------------------------------------------------------------
(* Every variable of the composition stays in its range.                   *)
TelemetryTypeOK ==
    /\ seq \in 0..(SeqSpace - 1) /\ up \in 0..MaxUp
    /\ deviceCollecting \in BOOLEAN /\ clearPending \in BOOLEAN
    /\ \A d \in net : d.place[1] \in 1..boot /\ d.packet \in Packets
    /\ boot \in 1..(MaxEvents + 1) /\ k \in 0..MaxSends
    /\ Len(origin) = serial

(* The packets built after the first one counted and before the latest     *)
(* one, and not counted themselves, while the device stays up.             *)
OneBoot == \A p \in ToSet(seen) : p[1] = seen[1][1]
Numbers == {p[2] : p \in ToSet(seen)}
Missing == {i \in 1..MaxSends : seen[1][2] < i /\ i \notin Numbers /\ \E j \in Numbers : i < j}

(* packets_dropped, inferred from gaps modulo 2^32, never hides a packet   *)
(* that is missing, however the packets of one boot are lost, duplicated   *)
(* and reordered; and as long as none was overtaken it is exact.           *)
DropsCounted ==
    seen # <<>> /\ OneBoot =>
        /\ dropped >= Cardinality(Missing)
        /\ ~disturbed => dropped = Cardinality(Missing)

(* As long as nothing was overtaken, a sample that enters the history is   *)
(* later than every sample already there, so none is there twice, across   *)
(* duplicates, reboots of the device, restarts of the server and clears.   *)
(* (Two restored records may be copies of one sample, if a client's clear  *)
(* fell between the insertion and the append of the first.)                *)
Live(r) == r.host # NoDevice
HistoryInSendingOrder ==
    ~disturbed => \A i, j \in DOMAIN records :
        i < j /\ Live(records[j])
            => Before(origin[records[i].n], origin[records[j].n])

(* Once everything in flight has arrived, the server keeps no sample from  *)
(* before the device last cleared its history, unless the one packet that  *)
(* carried the flag was lost or overtaken.  (With a failing truncation a   *)
(* restart brings the old records back.)                                   *)
ClearReachesServer ==
    ~disturbed /\ ~flagLost /\ ~clearPending /\ net = {} /\ udpPc = "recv"
        => \A r \in ToSet(records) : ~Before(origin[r.n], since)

(* The counters of the composition: each in its range, and the drops       *)
(* inferred from the numbers those that happened (store.rs 70-79).         *)
CountsInv == TelemetryTypeOK /\ DropsCounted
=============================================================================
