------------------------------- MODULE Server -------------------------------
(***************************************************************************)
(* The telemetry server's history: the ring buffer of store.rs, the JSONL  *)
(* file of persist.rs, and the tasks that use both.  The runtime is        *)
(* multi-threaded, so the UDP receiver (udp.rs) and the HTTP handlers      *)
(* (http.rs) interleave at every acquisition of the store's lock and at    *)
(* every file operation: each of those is a step of its own here.          *)
(*                                                                         *)
(* A packet is [dev, seq, up, coll, clear]; dev stands for the hostname    *)
(* and the address of its sender.  A record carries n, a ghost serial      *)
(* number in order of insertion, by which the properties recognise it.     *)
(* A line of the file is a record without its hostname, Torn (a line that  *)
(* does not parse) or Stub (a fragment with no newline, always the last).  *)
(* Measurements, and the append that drops only the final newline, are     *)
(* left out.  A file operation may fail; the clock does not go backwards.  *)
(***************************************************************************)
EXTENDS Integers, Sequences, FiniteSets, SequencesExt, FiniteSetsExt, Sieve

CONSTANTS Devices, NoDevice,     \* senders, and the all-zero hostname
          Clients,               \* HTTP requests that may be in progress at once
          Packets,               \* the datagrams that may arrive
          SeqSpace,                \* width of the packet sequence number: 2^32
          Retention,             \* age at which a record is pruned
          Torn, Stub, NoPacket,
          MaxTime, MaxReceived, MaxRecords, MaxFaults    \* bounds of the model

ASSUME WidthAssumption == SeqSpace \in Nat /\ SeqSpace > 1 /\ SeqSpace % 2 = 0
ASSUME BoundAssumption ==
    {Retention, MaxTime, MaxReceived, MaxRecords, MaxFaults} \subseteq Nat
ASSUME PacketAssumption ==
    Packets \subseteq [dev: Devices, seq: 0..(SeqSpace - 1), up: Nat,
                       coll: BOOLEAN, clear: BOOLEAN]

(* What the store and the file hold.  The sentinels are no records.        *)
Records == [n: Nat \ {0}, t: Nat, host: Devices \union {NoDevice}, dev: Devices,
            seq: 0..(SeqSpace - 1), up: Nat, coll: BOOLEAN]

ASSUME SentinelAssumption ==
    Torn # Stub /\ {Torn, Stub} \intersect Records = {} /\ NoPacket \notin Packets

VARIABLES
    records, latest, collecting, received, dropped, lastSeq,   \* the store
    file,                         \* the lines of the JSONL file
    hostname,                     \* CURRENT_HOSTNAME
    udpPc, pkt, clears, pending,  \* the receiver: where it is, its packet, the
                                  \* clears it owes, the record it has to append
    pc, address,                  \* each HTTP request, and the address it captured
    now, faults,
    serial, mark, cleared, exposed
        \* ghosts: last serial given out; its value at each request's store
        \* clear; the highest mark of a finished clear; the records that
        \* a truncation in progress or a failed append may have kept off the file

store == <<records, latest, collecting, received, dropped, lastSeq>>
receiver == <<hostname, udpPc, pkt, clears, pending>>
requests == <<pc, address, mark>>
ghosts == <<serial, cleared, exposed>>
vars == <<store, file, receiver, requests, ghosts, now, faults>>

NoRecord == [n |-> 0]

----------------------------------------------------------------------------
(* Operators of the store and of the file.                                 *)

(* Packets missing between the last number and this one, modulo the width; *)
(* a jump of half the range or more is a step backwards and counts nothing.*)
GapUnwrapped(last, seq) == seq - (last + 1)  \* mutant: not modulo the width
Gap(last, seq) ==
    LET gap == (seq - (last + 1)) % SeqSpace
    IN  IF gap < SeqSpace \div 2 THEN gap ELSE 0

(* One record per second of uptime, or the first after a device's reboot.  *)
ShouldStoreAlways(p) == TRUE  \* mutant
ShouldStore(p) ==
    \/ records = <<>>
    \/ p.up < Last(records).up
    \/ p.up - Last(records).up >= 1

InWindow(t) == t >= now - Retention

(* The loop that pops expired records off the front.                       *)
Pruned(rs) ==
    LET fresh == {i \in DOMAIN rs : InWindow(rs[i].t)}
    IN  IF fresh = {} THEN <<>> ELSE SubSeq(rs, Min(fresh), Len(rs))

Recorded(p) == [n |-> serial + 1, t |-> now, host |-> p.dev, dev |-> p.dev,
                seq |-> p.seq, up |-> p.up, coll |-> p.coll]

(* A JSONL line holds no hostname, and a restored packet has a zero one.   *)
Persisted(r) == [r EXCEPT !.host = NoDevice]

IsRecord(line) == line \notin {Torn, Stub}
Serials(lines) == {line.n : line \in {l \in lines : IsRecord(l)}}

(* A new line after an unterminated fragment completes it to garbage.      *)
Appended(lines, r) ==
    IF lines # <<>> /\ Last(lines) = Stub THEN Front(lines) \o <<Torn>>
                                          ELSE Append(lines, Persisted(r))
AppendedTorn(lines) ==
    IF lines # <<>> /\ Last(lines) = Stub THEN lines ELSE Append(lines, Stub)

(* store.clear(): everything but the retention and the collecting flag.    *)
ClearedStore ==
    /\ records' = <<>>
    /\ latest' = NoPacket
    /\ received' = 0
    /\ dropped' = 0
    /\ lastSeq' = -1
    /\ UNCHANGED collecting

(* persist::clear(): truncate, or log a failure and go on.                 *)
Truncated ==
    \/ file' = <<>> /\ UNCHANGED faults
    \/ faults < MaxFaults /\ faults' = faults + 1 /\ UNCHANGED file

----------------------------------------------------------------------------
(* The UDP receiver.                                                       *)

Init ==
    /\ records = <<>> /\ latest = NoPacket /\ collecting = FALSE
    /\ received = 0 /\ dropped = 0 /\ lastSeq = -1
    /\ file = <<>>
    /\ hostname = NoDevice
    /\ udpPc = "recv" /\ pkt = NoPacket /\ clears = 0 /\ pending = NoRecord
    /\ pc = [c \in Clients |-> "idle"]
    /\ address = [c \in Clients |-> NoDevice]
    /\ now = 0 /\ faults = 0
    /\ serial = 0 /\ mark = [c \in Clients |-> 0]
    /\ cleared = 0 /\ exposed = {}

(* A packet arrives.  The first hostname is recorded; another one takes    *)
(* over, which owes the store a clear; so does the packet's clear flag.    *)
ClearsRequested(p) == IF p.clear THEN 1 ELSE 0  \* mutant: no takeover
ClearsOnTakeover(p) ==  \* mutant: the clear flag is not looked at
    IF hostname \notin {NoDevice, p.dev} THEN 1 ELSE 0
ClearsOwed(p) ==
    (IF hostname \notin {NoDevice, p.dev} THEN 1 ELSE 0)
        + (IF p.clear THEN 1 ELSE 0)

Receive(p) ==
    /\ udpPc = "recv"
    /\ received < MaxReceived /\ serial < MaxRecords
    /\ pkt' = p
    /\ hostname' = p.dev
    /\ clears' = ClearsOwed(p)
    /\ udpPc' = IF ClearsOwed(p) > 0 THEN "clearStore" ELSE "insert"
    /\ UNCHANGED <<store, file, pending, requests, ghosts, now, faults>>

UdpClearStore ==
    /\ udpPc = "clearStore"
    /\ ClearedStore
    /\ udpPc' = "clearFile"
    /\ UNCHANGED <<file, hostname, pkt, clears, pending, requests, ghosts,
                   now, faults>>

UdpClearFile ==
    /\ udpPc = "clearFile"
    /\ Truncated
    /\ clears' = clears - 1
    /\ udpPc' = IF clears = 1 THEN "insert" ELSE "clearStore"
    /\ UNCHANGED <<store, hostname, pkt, pending, requests, ghosts, now>>

(* Store::insert, under one acquisition of the lock.                       *)
Counted(p) ==
    /\ dropped' = IF lastSeq = -1 THEN dropped ELSE dropped + Gap(lastSeq, p.seq)
    /\ received' = received + 1
    /\ lastSeq' = p.seq

Overtaking == \E c \in Clients : pc[c] = "clearFile"

Insert ==
    /\ udpPc = "insert"
    /\ Counted(pkt)
    /\ collecting' = pkt.coll
    /\ latest' = pkt
    /\ IF pkt.coll /\ ShouldStore(pkt)
          THEN /\ records' = Pruned(Append(records, Recorded(pkt)))
               /\ pending' = Recorded(pkt)
               /\ serial' = serial + 1
               /\ exposed' = exposed \union (IF Overtaking THEN {serial + 1} ELSE {})
               /\ udpPc' = "append"
          ELSE /\ udpPc' = "recv"
               /\ UNCHANGED <<records, pending, serial, exposed>>
    /\ pkt' = NoPacket
    /\ UNCHANGED <<file, hostname, clears, cleared, requests, now, faults>>

(* persist::append: the whole line, a part of it, or nothing at all.       *)
AppendLine ==
    /\ udpPc = "append"
    /\ file' = Appended(file, pending)
    /\ exposed' = exposed \union ({pending.n} \ Serials(ToSet(file')))
    /\ pending' = NoRecord
    /\ udpPc' = "recv"
    /\ UNCHANGED <<store, hostname, pkt, clears, requests, serial, cleared,
                   now, faults>>

AppendFails ==
    /\ udpPc = "append" /\ faults < MaxFaults
    /\ file' \in {file, AppendedTorn(file)}
    /\ exposed' = exposed \union {pending.n}
    /\ faults' = faults + 1
    /\ pending' = NoRecord
    /\ udpPc' = "recv"
    /\ UNCHANGED <<store, hostname, pkt, clears, requests, serial, cleared, now>>

----------------------------------------------------------------------------
(* The HTTP handlers: /history/clear and /collecting/start and /stop.      *)

At(c, from, to) == pc[c] = from /\ pc' = [pc EXCEPT ![c] = to]

(* The order in which post_clear does its work.                            *)
ClearFileFirst ==  \* mutant: the two clears swapped
                  [idle |-> "clearFile", clearFile |-> "clearStore",
                   clearStore |-> "forwardClear"]
ClearPath == [idle |-> "clearStore", clearStore |-> "clearFile",
              clearFile |-> "forwardClear"]
ClearStep(c, from) == At(c, from, ClearPath[from])

LatestAddress == IF latest = NoPacket THEN NoDevice ELSE latest.dev

(* post_clear: note the device's address, clear the store, clear the file, *)
(* then tell the device.                                                   *)
RequestClear(c) ==
    /\ ClearStep(c, "idle")
    /\ address' = [address EXCEPT ![c] = LatestAddress]
    /\ UNCHANGED <<store, file, receiver, mark, ghosts, now, faults>>

ClearStore(c) ==
    /\ ClearStep(c, "clearStore")
    /\ ClearedStore
    /\ mark' = [mark EXCEPT ![c] = serial]
    /\ UNCHANGED <<file, receiver, address, ghosts, now, faults>>

ClearFile(c) ==
    /\ ClearStep(c, "clearFile")
    /\ Truncated
    /\ mark' = IF file' = <<>> THEN mark ELSE [mark EXCEPT ![c] = 0]
    /\ UNCHANGED <<store, receiver, address, ghosts, now>>

(* With no packet yet nothing is sent; either way the client is answered.  *)
ForwardClear(c) ==
    /\ At(c, "forwardClear", "idle")
    /\ address' = [address EXCEPT ![c] = NoDevice]
    /\ cleared' = Max({cleared, mark[c]})
    /\ mark' = [mark EXCEPT ![c] = 0]
    /\ UNCHANGED <<store, file, receiver, serial, exposed, now, faults>>

Forwarding(enabled) == IF enabled THEN "forwardStart" ELSE "forwardStop"

RequestCollection(c, enabled) ==
    /\ At(c, "idle", Forwarding(enabled))
    /\ collecting' = enabled
    /\ UNCHANGED <<records, latest, received, dropped, lastSeq, file, receiver,
                   address, mark, ghosts, now, faults>>

(* forward_collection looks the address up only now.                       *)
ForwardCollection(c, enabled) ==
    /\ At(c, Forwarding(enabled), "idle")
    /\ UNCHANGED <<store, file, receiver, address, mark, ghosts, now, faults>>

----------------------------------------------------------------------------
Tick ==
    /\ now < MaxTime
    /\ now' = now + 1
    /\ UNCHANGED <<store, file, receiver, requests, ghosts, faults>>

(* The process dies anywhere and main() starts it again: persist::load     *)
(* reads the file, Store::restore keeps the records inside the retention   *)
(* window, and rewrite compacts the file by a rename, which may fail.      *)
(* When the file cannot be read the store stays empty and the file as it is.*)
RestoredUntilTorn(lines) ==  \* mutant: reading stops at a bad line
    LET bad == {i \in DOMAIN lines : ~IsRecord(lines[i])}
    IN  IF bad = {} THEN lines ELSE SubSeq(lines, 1, Min(bad) - 1)
Parsed(lines) == {i \in DOMAIN lines : IsRecord(lines[i])}
Restored(lines) == Sieved(lines, {i \in Parsed(lines) : InWindow(lines[i].t)})

(* What the compacted file holds, given what was read and what was kept.   *)
RewrittenEarly(lines, kept) == <<>>  \* mutant: compacted before the restore
Rewritten(lines, kept) == kept

PacketOf(r) == [dev |-> r.dev, seq |-> r.seq, up |-> r.up, coll |-> r.coll,
                clear |-> FALSE]

Load ==
    LET kept == Restored(file)
        parsed == Parsed(file)
    IN  /\ records' = kept
        /\ latest' = IF kept = <<>> THEN NoPacket ELSE PacketOf(Last(kept))
        /\ collecting' = (parsed # {} /\ file[Max(parsed)].coll)
        /\ \/ file' = Rewritten(file, kept) /\ UNCHANGED faults
           \/ faults < MaxFaults /\ faults' = faults + 1 /\ UNCHANGED file

LoadFails ==
    /\ faults < MaxFaults /\ faults' = faults + 1
    /\ records' = <<>> /\ latest' = NoPacket /\ collecting' = FALSE
    /\ UNCHANGED file

Restart ==
    /\ Load \/ LoadFails
    /\ received' = 0 /\ dropped' = 0 /\ lastSeq' = -1
    /\ hostname' = NoDevice
    /\ udpPc' = "recv" /\ pkt' = NoPacket /\ clears' = 0 /\ pending' = NoRecord
    /\ pc' = [c \in Clients |-> "idle"]
    /\ address' = [c \in Clients |-> NoDevice]
    /\ mark' = [c \in Clients |-> 0]
    /\ UNCHANGED <<ghosts, now>>

Request(c) ==
    \/ RequestClear(c) \/ ClearStore(c) \/ ClearFile(c) \/ ForwardClear(c)
    \/ \E enabled \in BOOLEAN :
          RequestCollection(c, enabled) \/ ForwardCollection(c, enabled)

Receiver ==
    \/ \E p \in Packets : Receive(p)
    \/ UdpClearStore \/ UdpClearFile \/ Insert \/ AppendLine \/ AppendFails

Next == Receiver \/ (\E c \in Clients : Request(c)) \/ Tick \/ Restart

Spec == Init /\ [][Next]_vars

----------------------------------------------------------------------------
(* Properties.                                                             *)

(* Every variable stays in its range; in particular the receiver owes a    *)
(* clear exactly while it is in the clearing part of its loop.             *)
TypeOK ==
    /\ \A r \in ToSet(records) : r.n \in 1..serial /\ r.t \in 0..now
    /\ latest \in Packets \union {NoPacket} \/ latest.clear = FALSE
    /\ collecting \in BOOLEAN
    /\ received \in 0..(MaxReceived + 1) /\ dropped \in Nat
    /\ lastSeq \in -1..(SeqSpace - 1)
    /\ hostname \in Devices \union {NoDevice}
    /\ udpPc \in {"recv", "clearStore", "clearFile", "insert", "append"}
    /\ clears \in 0..2 /\ (clears > 0) = (udpPc \in {"clearStore", "clearFile"})
    /\ (pending # NoRecord) = (udpPc = "append")
    /\ pc \in [Clients -> {"idle", "clearStore", "clearFile", "forwardClear",
                           "forwardStart", "forwardStop"}]
    /\ address \in [Clients -> Devices \union {NoDevice}]
    /\ now \in 0..MaxTime /\ faults \in 0..MaxFaults
    /\ serial \in 0..MaxRecords /\ cleared \in 0..serial

(* "Records are stored in arrival order" (store.rs:6), in the ring and in  *)
(* the file, across clears, torn lines and restarts: no record is there    *)
(* twice, and none is ahead of an earlier one.                             *)
Ordered(lines) ==
    \A i, j \in DOMAIN lines :
        i < j /\ IsRecord(lines[i]) /\ IsRecord(lines[j]) => lines[i].n < lines[j].n
ArrivalOrder == Ordered(records) /\ Ordered(file)

(* A record in memory is in the file, or is the one the receiver is about  *)
(* to append, unless its append failed or it was inserted in the middle of *)
(* somebody's clear.  A record never leaves the file in any other way.     *)
StoredIsOnFile ==
    Serials(ToSet(records)) \ exposed \subseteq Serials(ToSet(file) \union {pending})

(* Store and file together: each in order, and no record in the one that   *)
(* is not in the other but for the reasons above (store.rs 56-130,         *)
(* persist.rs).                                                            *)
HistoriesInv == TypeOK /\ ArrivalOrder /\ StoredIsOnFile

(* Clearing empties store and file in two steps, in the right order: once  *)
(* a clear has truncated the file, at most one record from before it can   *)
(* still be there, the one whose append was under way.                     *)
ClearLeavesAtMostOne ==
    Cardinality({n \in Serials(ToSet(file)) : n <= cleared}) <= 1

(* While one device reports, no live record of another one is left in the  *)
(* ring: a new hostname takes effect only with the ring cleared.           *)
LiveRecordsOfOneDevice ==
    clears = 0 => \A r \in ToSet(records) : r.host \in {NoDevice, hostname}

(* A restart that can read its file brings back every record of the window *)
(* that was in memory and safely on file: nothing a reader had seen is     *)
(* forgotten, whatever torn lines stand between.                           *)
RestartKeepsHistory ==
    [][Restart /\ ~LoadFails =>
        \A r \in ToSet(records) :
            InWindow(r.t) /\ r.n \notin exposed \union {pending.n}
                => r.n \in Serials(ToSet(records'))]_vars

(* What the sources say and the code does not do.                          *)

(* http.rs:305-306: the file is truncated at once "so a server restart does*)
(* not resurrect the cleared data".                                        *)
ClearedStaysCleared == \A n \in Serials(ToSet(file)) : n > cleared
=============================================================================
