# Brewster: a verification development

Brewster is a fermentation controller. A firmware for an ESP32-S3
(`src/src`, Rust, cooperative Embassy executor) reads DS18B20 probes, drives a
cooling and a heating relay, keeps a history in flash, serves HTTP and sends a
UDP telemetry packet every second. A server (`src/server`, Rust, multi-threaded
tokio) receives the packets, keeps a longer history in memory and in a JSONL
file, serves a dashboard (`src/web`, TypeScript) and forwards commands to the
device. This directory holds TLA+ models of these parts, the TLC runs that
check them and proofs checked by TLAPS.

Paths below are relative to the repository root; `PROJECT.json` gives, for
every definition, the lines it stands for (with the prefix `src/`).

## Inventory

| Part | State | Operations | Hard behaviour | Correct when |
| --- | --- | --- | --- | --- |
| Control loop (`src/firmware/controller.rs`, `src/bin/main.rs`) | two relay pins, two PIDs, two window counters, last setpoint, status slots | one step per second: convert, await, read, regulate or stand down | settings change during the await; five paths that must each leave everything consistent; two pins written one after the other | relays exclusive and justified by the last sample; no memory from another setpoint; what is published is what is driven |
| Flash history (`src/firmware/storage.rs`) | ring of records in flash; write index, next number, count | boot scan, append, clear, snapshot | power cuts in a sector rewrite, flash errors, interrupted clears, wrap-around | the ring is a numbered log that loses records only at its old end or in a failure |
| Settings (`src/firmware/storage.rs`, `network/http.rs`) | target, feature flags, two collection flags; two records in one sector | boot, three POST handlers | shared sector, RAM changed before the write, an ignored error | what was stored comes back; the two collection flags agree |
| Server history (`server/src/store.rs`, `persist.rs`, `udp.rs`, `http.rs`) | ring buffer, latest packet, counters, accepted hostname, file | insert, append, clear, truncate, load, compact; clear and collection requests | tasks interleave between locks and file operations; torn lines; restarts; device takeover | file and memory agree up to what is under way; clears clear; a restart forgets nothing |
| Telemetry sender, discovery client (`network/udp.rs`), discovery responder (`server/src/discovery.rs`) | packet number, pending clear flag, discovered server and its age | build and send, discover, expire | loss, duplication, reordering; a one-shot flag in a lossy packet; two sources of the server's address | commands reach the other side; drops are counted once |
| Packet codec (`network/udp.rs`, `server/src/packet.rs`) | none | encode, decode | saturating and truncating conversions | decode of encode is the value, within the resolution |
| Firmware HTTP server and status LED (`network/http.rs`, `status.rs`) | exchange active/error, hold deadline | begin, mark error, end; colour choice in the loop | a request inside the hold of the one before | an error is visible, and only then |
| NTP (`network/ntp.rs`, `status.rs`) | five-slot peer table, queries of a round, clock | wake the radio, query, match and choose, count failures, register and drop the gateway | the gateway changes while queries are in flight; late and doubled answers; a full table drops silently | one entry per server with its own statistics; the clock is set by the best answer of the round |
| mDNS (`network/mdns.rs`), Wi-Fi (`network/wifi.rs`, `network.rs`) | membership of the group, announcement deadline; attempts, link and address state | announce, search packets, answer; scan, connect, follow the configuration | packets of other services, joins that fail, an address that comes later than the configuration | the server is found and followed, the address announced, the association regained |
| Sensor driver (`sensor.rs`) | bus state of the ROM search | search, read with retries | discrepancies of the search tree | every probe found once |
| Dashboard (`web/*.ts`) | charts and their marks, last sequence number, toggle in flight | load history, poll (live sample, then merge), toggle, clear | answers applied out of order; numbers that start anew; a history longer than an answer | points of the history once and in order, none lost without a reason; loaded and live told apart; flag and newest point shown in the end |
| Serialisers, shared helpers, build script | none | formatting, calendar arithmetic, compile-time configuration | boundaries | reference definitions |

The parts interact so. The HTTP task of the firmware writes atomics that the
control loop reads (target, collection); the control loop publishes its state
in `status.rs`, from which HTTP, telemetry and, through `update_success`, the
flash history take it. Telemetry packets flow to the server one way; commands
flow back as HTTP requests of the server to the device, whose address the
server knows from the latest packet. The device's own history clear reaches
the server as a flag in a packet.

## Modules

| Module | Contents |
| --- | --- |
| `Controller`, `MCController`, `ControllerProofs` | the control loop; its instance; its theorems |
| `HistoryLog` | the abstract log the flash history promises |
| `History`, `MCHistory`, `HistoryProofs` | the flash ring, which refines `HistoryLog`; its instance; its theorems, the refinement among them |
| `Settings`, `MCSettings` | the settings and the sector they share; their instance |
| `Server`, `MCServer`, `ServerProofs` | the server's store, file, receiver task and requests; their instance; theorems |
| `Telemetry`, `MCTelemetry`, `TelemetryProofs` | `Server` composed with the device's sender and handlers and the network between them; its instance; theorems, on top of those of `Server` |
| `Peers`, `MCPeers`, `PeersProofs` | the NTP client's rounds, the peer table, the Wi-Fi status task's changes of it; their instance; theorems |
| `Wifi` | the Wi-Fi connection task |
| `Exchange`, `MCExchange` | the firmware's HTTP task and the status LED, on top of `Wifi`; their instance |
| `Discovery`, `MCDiscovery` | the server's announcements, the device's two listeners, the address telemetry goes to |
| `Dashboard`, `MCDashboard` | the page's load, poll, toggle and clear against the source that serves it |
| `Names` | the three walks over names in a DNS packet |
| `NetworkProofs` | theorems about `Settings`, `Exchange`, `Discovery` and `Names` |
| `Algorithms`, `MCAlgorithms` | pure algorithms of server and firmware; their inputs, and those of `Names` |
| `ViewProofs` | theorems about `Dashboard` and `Algorithms` |
| `Sieve` | `Sieved(s, keep)`: the elements of a sequence at chosen positions, in their order, which is what the flash snapshot and the server's load after a restart are |
| `DataLemmas` | lemmas that the proofs of several modules cite: induction over the natural numbers and over intervals, loops as functions of the number of their turns, ring and sector arithmetic, least and greatest elements, what `Sieved` returns |

Operators marked `mutant` in a comment are deliberately wrong variants of the
operator that follows; no specification uses them. Substituting one for the
right operator makes a run fail, which shows that the property it is listed
with depends on that piece of code.

### Controller

`pc` is the position of the loop of `main`: `"rest"` (the timer at the end of
the loop), `"converting"` (the await inside `control_step`), and `"heat"`, the
instant between the writes of the two pins, in which no task runs but the
hardware is visible. HTTP handlers (`PostTarget`, `PostCollection`) run at the
two awaits only, as the executor is cooperative. `ConversionFailed`,
`NoControlReading` and `Idle` are the three paths that release the relays
(`StandDown` is their common part); `DriveCool` followed by `DriveHeat` is the
regulating path. A PID is reduced to what can leak from one goal to another:
the set of setpoints its integral was accumulated under, and the setpoint of
its previous measurement; its output is any duty cycle. `slot` holds, for each
status slot, the probe whose reading it shows. `Reboot` may happen anywhere
and may bring back other settings (flash may be older than RAM).

### History and HistoryLog

A record is its sequence number, -1 an erased slot. `persist_history_sample`
is `EraseAhead` and `AppendAtStart` at a sector start, `AppendInSector`
elsewhere, then `Program`: `Storage::write` of the flash driver reads, erases
and reprograms the whole sector, and a power cut or an error may leave any
prefix of it programmed. `clear_history_persistent` erases sector after sector
and resets the counters at the end only. `Boot` is `history_init`. `run` is a
history variable: appends in a row without a failure. The refinement maps the
records of a sector under rewrite to those of its RAM image, and does not
count the record being added until its number is given out.

### Settings

The two records of the `cfg` sector and the copies in RAM. A request changes
RAM first, then rewrites the sector (`Rewrite`, `Program`), is refused before
anything is erased (`Refused`), or fails half-way (`ProgramFailed`); a power
cut may fall inside (`PowerCut`). `saved` is a history variable: which records
hold what was last asked for.

### Server

`udpPc` walks the receiver through its loop: packet received and hostname
checked, the clears it owes (one for a takeover, one for a clear flag, each
first of the store then of the file), insertion, append. `pc[c]` walks an HTTP
request through `post_clear` (address noted, store cleared, file truncated,
forwarded) or through a collection command. Every acquisition of the lock and
every file operation is one action; the order of the first two steps of
`post_clear` is the function `ClearPath`. A line of the file is a record
without hostname, `Torn` or `Stub` (an unterminated fragment, which swallows
the next line). `Restart` is the death of the process at any point followed by
`persist::load`. `serial`, `mark`, `cleared` and `exposed` are history
variables by which the properties recognise records: the number of the last
record, its value at a store clear, the highest such value whose clear is
finished, and the records that a clear in progress or a failed append may have
kept off the file.

### Telemetry

Extends `Server`, whose actions are conjoined with what they do to the device
and the network. `seq`, `up`, `deviceCollecting` and `clearPending` are the
sender's state; `Send` is one second of its loop with a known server,
`Unsent` one without; `ForwardedClear` and `ForwardedCollection` are the HTTP
calls of the server, which reach the device or do not. `net` is the set of
datagrams in flight, from which one may be lost, delivered, or delivered and
kept for a second delivery. The other variables are history variables: the
place of a packet in the order of sending, of which the properties know and
the code does not. The file operations of this composition succeed
(`DiskAssumption`), and a device does not send more packets in one boot than half
the range of their numbers (`TelemetryAssumption`; 68 years in the code).

`DropsCounted` and `HistoryInSendingOrder` say exactly how far reordering
matters: a packet overtaken is counted as dropped, never corrected, and a
sample with an earlier uptime is stored as if the device had rebooted; without
overtaking the count is exact and the history is in the order of sending, whatever
is lost, doubled, cleared or restarted. `ClearReachesServer` is
conditional on the packet that carries the clear flag: the flag is consumed
when the packet is built, so if that one packet is lost (or the device or the
server dies with it) the server keeps what the device erased until the
next clear, although `network/udp.rs:125-127` speaks of "keeping both sides in sync".

### Peers

`ntp_sync_task` is `pc`: `"sleep"`, `"wake"` (1250 ms in which whatever
arrives is thrown away) and `"recv"`. A datagram in flight is the token of its
query: the round, the server, and whether it was the wake-up query. `Receive`
drops it, takes it as an answer without a valid time (`Failing`), or takes it
with any sample (`Take`, whose entry is `Answering`, mirrored for a gateway that
is also the configured server); it may come once more. The end of a round
counts a failure for every server that has not answered, in the order of the
queries (`WithFailures`, a function of how many of them have been gone through). `SendAll`, `Proceed` and `EndRound`
are the stretches of the task without an await. `wifi_status_task` registers
and drops the gateway (`ConfigUp`, `ConfigDown`, `WaitExpires`) at its own
awaits, from a lease that changes at any time; the table it shows in the
network status is left out. `entitled` is a history variable: the gateways
that may be in the table now (the one last registered, and the one of the
round under way, whose end may enter it again). `answers` and `heard` are
history variables too: what each server of the round has said.

Counts of successes and failures begin with the model; the rank by offset
jitter is exercised from the start in which the first server has been heard
twice before (the second disjunct of `Init`).

### Wifi and Exchange

`Wifi` is `wifi_connection_task` with the driver as any sequence of successes,
failures and timeouts. `Exchange` runs the HTTP task on top of it. A request
is a sequence of fragments; `Read(n)` parses the first `n`, as the task reads
once and never looks at the rest. `Outcomes` is the answer of each handler,
whose effects are in `Settings`, `Controller` and `Telemetry`. Time passes in
ticks of 400 ms: the hold is 3, a turn of the loop at most 2. `applied`,
`failed` and `unseen` are history variables: what this exchange has carried
out, whether it met an error, whether the loop has not looked since it began.

`AppliedAsAsked` says what a cut request can do: a number or a bare name that
is cut is taken for the whole (`6|50` sets 6 and `3|000`, out of range whole,
sets 3), anything else is refused. The lower bound of the setpoint (-20) is
left out.

### Discovery

Seconds are counted; datagrams arrive or are lost within the second they are
sent in. `Announce` is one turn of the server's `run`, `ReceiveBeacon` and
`ReceiveMdns` the device's listeners, `ReceiveForeign` a packet of another
service or one that has the server's name in another place. `Moves` is the
death, start or move of the server. `sent` is where telemetry went in this
second. `last`, `ago` and `missed` are history variables: the server heard
last, for how long it has been silent, and how many of its announcements in a
row were lost. The server's turn takes exactly `Interval` seconds in the model; the
code sleeps that long after it has sent, and whole seconds are compared, so that
after five lost announcements the sixth may find the server expired a moment before.
That the server's sockets cannot be bound, after which it announces nothing, is left
out. Two servers at a time are not modelled (telemetry would go to
whichever was heard last), nor the wrap of the uptime after 136 years.

### Dashboard

Each activity of the page is a record of where it stands and the answer it
has been served; a request is served by one action and applied by a later
one, either of which may fail. `origin` says who serves the page, the server or
the device itself, and three things depend on it: what an answer has room for
(`Kept`: of more than `Points` points the device sends the newest, and the server the
first, the last and others between them, which the model leaves open), whose restart
begins the numbers anew (`DeviceRestarts` at the server, where they are packet
numbers; on the device the boot goes on from the last record, and it is
`ServeClear` that begins anew), and whether a packet can come late (`LatePacket`).
`Forget` drops the oldest point.

`chart` is the chart of the first probe. A poll pushes twice: `StatusApplied` the
sample of the status, and `MergeApplied` the points that are new. A sample is thus
on the chart as a live one and again as a point of the history, which the properties
do not deny: `PointsOnceInOrder` is about the points that the history brings. Of the
live samples since the load or a clear the model keeps the first, as `Live`; more of
them change nothing that a property looks at. `sessionBoundary` is the place of the
mark between what was loaded and what is live. The PID charts, the other
probes' charts (pushed in the same places), gaps and zoom are left out.

The other variables are history variables: `top` is the greatest number given out
and `late` the numbers that came after a greater one; `left` are the points an answer
had no room for, and `taken` those that a clear, or a load that was answered while the
history was empty, took off the chart; `mixed` says that what was loaded goes
back, and `sinceLoad` that there was a load and no clear since. `NothingSkipped`
excepts `late`, `left` and `taken`, so that it says which points a page lacks
and why; see below.

### Algorithms and Names

A behaviour is one input that does not change; each property compares the
algorithm with what it is for: `SearchFindsAll` with the set of devices on
the bus, `DateOfCalendar` with a count of days by years and months,
`PacketRoundTrip` with the identity within the range, `NameWalksAgree` one
walk with the other, `DownsamplingInv` with the
records they summarise. The inputs are exhaustive up to a small size and
sampled at the boundaries of the code. A loop of the code is a recursive
function of the number of its turns, with the turn as an operator of its own
(`ReadBit`, `SearchOn`, `WalkOn`, `Push`, ...), and enough turns that it is
over: that it is, is part of what is proved.

## Runs and bounds

The invariants whose names end in `Inv` are conjunctions of named parts: the
types of a module with the parts that say how its state hangs together
(`LoopInv`, `RingInv`, `FlagsInv`, `HistoriesInv`, `CountsInv`, `TableInv`,
`AnswersInv`, `LedInv`, `ServerInv`, `ChartInv`, `DownsamplingInv`,
`ConversionsInv`). Each part
is stated and explained by itself in its module.

| Run | Shows |
| --- | --- |
| `controller` | all invariants, the action property and `StopReleasesRelays` (under `WF(Loop)`), with two probes and a control index beyond the last (clamped to probe 1), temperatures on both sides of and inside the deadbands of three setpoints, two of which differ by no more than the tolerance, and a window of three steps |
| `history` | all invariants and the refinement, three sectors of two records (so that a sector boundary is not always the wrap-around), numbers up to 10 (one and a half times round) |
| `settings` | both properties, two targets, all flag combinations |
| `server` | all invariants and the action property, two devices, one clear or collection request at a time beside the receiver, three records, one failing file operation, a retention of zero seconds and one tick (so that pruning and expiry at restart happen), sequence numbers modulo 8 |
| `telemetry` | one device whose number wraps at its second packet, three packets per boot, two in flight, two events (commands, reboots, seconds without a server), one client of the server, two records |
| `peers` | one configured server and room for one gateway, gateways one of which is that server, two samples, two rounds, three changes of the lease, one datagram that stays under way from one round to the next |
| `exchange` | every kind of request, whole or cut at each fragment, a prometheus flag that changes, scans on every second attempt, three attempts until the count saturates, one outage; `ServesAgain` under fairness |
| `discovery` | two places for the server, with and without a configured address, two foreign packets, announcements every 2 seconds and expiry after 12 (5 and 30 in the code: six intervals as well); two liveness properties under fairness |
| `dashboard` | three numbers, one event (a click, a clear, a change by another client, a restart of the device, a late packet or a point that goes), answers of two points (2000 and 1000 in the code), two attempts (three in the code), at the server and at the device; two liveness properties under fairness |
| `algorithms` | histories of up to 5 records with thresholds 2 to 4, all buses of 3 bits with room for 6 devices, temperatures around the ends of `i16`, dates of four years from 1970, around 2000 and 2100 and to the end of 32-bit time, host names of up to 5 characters with room for 3, every second of the ramp; names of up to 4 bytes of seven kinds and longer ones with pointers, loops, 16 and 17 labels (one input of `Algorithms` or `Names` is varied at a time) |

The bounds suffice to reach every action and every branch; every property is
violated under the same bounds by a wrong variant of the code. `Server.cfg` with
`Clients = {c1, c2}` and two records also passes (2.0 million states), and so do the
invariants of `Dashboard.cfg` with two events (5.4 million states); they ask no new
question, so they are not listed runs.

Two more runs each check one statement of the code's interface or of a comment,
and TLC finds it violated:

| Run | Statement | What happens |
| --- | --- | --- |
| `history_count` | `total_samples` | the count is short after an append at the start of a sector that was not full of records: in the first round already, without a reboot (TLC's trace), or after one part-way round |
| `server_resurrect` | a cleared record is not resurrected | insert, whole clear, append |

Other disagreements between code and documentation, or behaviour that a reader
of the code may not expect, met while modelling; they have no run:

- Controller. Both pins are high between the two pin writes when the
  temperature jumps across the deadband in one sample (`controller.rs:190` and
  `:209`; `ARCHITECTURE.md:79` says the heat relay is never energised while the
  cool relay is active). The previous measurement survives a setpoint change,
  although the comment at `controller.rs:152-153` promises "no carry-over".
  Status slot 0 shows the control probe whichever its number (`status.rs:493`
  against `status.rs:74`).
- Settings. A stop answered 200 whose record could not be written is undone by
  the next power cycle (`network/http.rs:582` against `storage.rs:448`). A power
  cut while the flags record is written can lose the target record of the same
  sector (`storage.rs:513`).
- Server. A record inserted after `post_clear` emptied the store and appended
  before it truncates the file is in memory only (`persist.rs:4-5`: "no data
  can be lost"). The accepted hostname is not persisted, so after a restart the
  next device's records join the restored ones of another (`udp.rs:79` against
  `udp.rs:12-14`). A packet with another hostname takes over instead of being
  "silently dropped" (`udp.rs:15-16`).
- Downsampling. `/history?points=1` passes the clamp to 1..10000 and makes
  `threshold - 2` underflow in `store.rs:459` when there are two records or
  more. The last bucket averages an empty next bucket, so its points are
  weighed against the origin and not the last record (`store.rs:469-478`).
- Status LED. `README.md:55-57` says that the LED is red while an exchange
  fails; it is, but the loop samples it once a turn and an exchange's error
  ends with the exchange, so a short failing exchange shows blue, and the hold
  hides a runtime error for 1.2 s.
- mDNS. The comment at `network/mdns.rs:503` says that the first SRV and A
  records count; the last ones do. This path does not refuse a zero port as the
  beacon's does (`network/udp.rs:181`), and one makes the server unknown. The first
  announcement may lack the address, which then follows 30 s later. The two
  walks differ on names of more than 16 labels, which one gives up on.
- Dashboard. `lastHistorySeq` stays when the charts are cleared or loaded empty.
  The numbers begin anew when the device restarts (at the server) or when its own
  history is cleared (on the device's page, `storage.rs:280`): new points are then
  ignored until they pass the old number (`dashboard.ts:126`), and so is a packet
  that came late. A page loaded after a restart has both series, and its next merge
  pushes the old one once more. A point that an answer had no room for is not asked for
  again. An answer served before a clear and applied after it puts the cleared
  points back; points merged between the clear at the source and that of the page
  are lost from the chart. A sample is drawn twice, live and again from the history
  (`dashboard.ts:222` and `:131`).

Deadlock is checked in every run. Fairness is assumed in four:

- `controller`: `Loop`. The loop of `main` never returns, both its awaits are
  timers, and no other task blocks the executor; the HTTP task gets none.
- `exchange`: the steps that end by a timeout of the stack or a timer, the
  flush once the network is there (strong, as the network may come and go),
  and the connection task; that a driver asked again and again checks, starts
  and connects in the end is assumed of the hardware. No client is assumed to come.
- `discovery` and `dashboard`: the tasks' timers, intervals and turns, that
  time passes, and, for the properties that need it, that the network does not
  lose everything for ever (the antecedents of those properties, and strong fairness where a formula
  `Fairness` says so: of the page's requests for the status some are answered and applied,
  and of those for the history). Nothing is assumed of the server's moves, of points that come,
  of clicks or of other clients.

## Proofs

Every safety invariant and action property that a passing run checks is a theorem,
stated for every value of the constants that the named assumptions allow and
not only for the instances above. Each component has an inductive invariant
(`Init => IInv`, preserved by `[Next]_vars`), proved by one lemma per action or
group of actions, from which its theorems are derived. `NetworkProofs` and
`ViewProofs` hold the proofs of several components each, one section after the other.

`ControllerProofs`: for all temperatures, setpoints, deadbands, tolerances,
window lengths and numbers of probes allowed by `ControllerAssumption`, the
safety invariants of `Controller` (`LoopInv`, `RelaysExclusive`,
`RelayJustified`, `NoIntegralCarryOver`) and its action property.
The invariants are not inductive one by one: that `DriveHeat` keeps the relays
exclusive and justified rests on what `DriveCool` established for the state in
between. `IInv` is their conjunction with `MidStep`, which says that in `"heat"`
the step is a regulating one with a real reading, that the cool PID holds no
integral unless the reading is above the deadband, and that the compared
setpoint is within the tolerance of the remembered one. The action property
follows from `IInv` and the definition of the one step that can switch the cool
relay on.

`HistoryProofs`: for any number of sectors and of records in a sector
(`HistoryAssumption`), `RingInv`, `RecentKept`, `PowerCycleContinues` and the
refinement `ImplementsLog`. The argument is that the number of a record gives its
place: `Placed` says of every slot by itself that it is erased, or holds the
number that the distance from its slot to the write index (`Age`) calls for, or
is a record just programmed whose number was not given out. As it is a
statement about single slots it survives whatever a failed rewrite or a power
cut leaves out, which no statement about the ring as a whole does, and it is
what the boot scan needs: the largest number stands right before the write
index. `UnderWay` and `Clearing` describe an append and a clear that are
half-way through, `Origin` the ring that numbers from 0, `Settled` and `Kept`
how far back nothing is missing (`Bound`: a whole ring but for the sector that an
append makes room for). The refinement is shown step by step: each action
of `History` is an action of `HistoryLog` or leaves the mapped log as it is.

`ServerProofs`: for any number of clients, devices, packets, records and faults,
any retention and any width of the packet number (`WidthAssumption`,
`PacketAssumption`, `BoundAssumption`, `SentinelAssumption`), the three invariants of
`Server` and `RestartKeepsHistory`. Serial numbers carry the argument. The
receiver gives one out and appends the record before it takes the next packet,
so a record to be appended has the highest number, and the file none as high
(`Numbered`); a clear, at its beginning, therefore divides memory and file at one
number (`mark`, `cleared`), and between its two halves at most one record with a
number at or below it can still come to the file: the one that was on its way
(`AtMostOneLeft`). `Stored`, `Emptied` and `SameTimes` relate memory to the file
in these terms; `OneDevice` says when a takeover is between two clears.

`TelemetryProofs`: for any number of packets, reboots, commands and clients, any
width of the numbers and any number that the device begins with
(`TelemetryAssumption`, `DiskAssumption` and those of `Server`), the three
invariants of `Telemetry`, and that the composition implements the `Spec` of `Server`, so
that every theorem about the server holds of it too. The argument is about places in the
order of sending. A packet carries the number of its place (`Numbering`), and
nothing else that is in flight, in the receiver's hand, in memory or on file
shows another uptime for the same place (`Uptimes`): so a double of the last
sample is refused because its uptime is no later, and an earlier one can only come by
overtaking. While nothing is overtaken the receiver goes forward (`Forward`), which gives
the order of the history (`Later`). For the drops, the gap between two numbers is the
number of places between them although the numbers wrap, and one more place
counted leaves at most that many new holes, exactly that many when it is the
last (lemma `OneMore`). `Flagged` follows the clear flag: raised on the device, in
a packet in flight, in the receiver's hand before it has cleared the file, or done, with
nothing held anywhere from before the clear; otherwise it was lost.

`PeersProofs`: for any configured servers, gateways, samples, rounds, changes
of the lease and late answers (`ConfigAssumption`, `SampleAssumption`,
`AbsenceAssumption`, `BoundAssumption`), the three invariants of `Peers` and
`NoServerShutOut`. A step of the client is a chain of updates of the table
(failures of the queries that were refused or timed out, an answer, the mirrored
reply), none of which is a state of its own. What must hold of the table is
therefore a predicate of a table as a value (`Sound`: one entry for a source and a
server, its sample that server's last, its counts within the rounds, gateways
only if entitled); each kind of update is shown once to preserve it, and it is followed
through the chain. That an entry is counted once in a round is not inductive by
itself: `Owed` are the entries that may still be counted in the round
under way, and only those have one count left. `UnderWay` ties the best reply to
the answers of the round and these to the queries. `NoServerShutOut` is a count
of slots: the table has one more than there may be configured servers, so a
full one in which a configured server has no entry must hold two gateways.

`NetworkProofs`, settings: for all targets and any default among them
(`SettingsAssumption`, `AbsentIsNoRecord`), both invariants of `Settings`. That
what was stored comes back is not inductive, as flash holds nothing while the
sector is rewritten: `ImageReady` says that its image in RAM then holds the
record being written and whatever was saved next to it. A boot needs no
invariant but types: it takes RAM from flash, whatever is there.

`NetworkProofs`, exchanges: for all requests, attempts and outages, and for every
hold time longer than a turn of the control loop (`LoopAssumption`,
`WifiAssumption`), `LedInv` and `EveryExchangeShown`. `LampFollows` says that the
exchange is active between begin and end and in error when it has met one;
`HoldOutlasts` that, as long as the loop has not looked since an exchange
began, what is left of the hold time and the time since it last looked make up at
least the whole hold time. So some of it is left, as that time is shorter.

`AppliedAsAsked` rests on what the parser makes of a beginning of a request
(lemma `ParsesAsAsked`), for any request a client of the program may send
(`RequestAssumption`: the fragments of each kind of request, in the order in which
they are sent, with any digits, flags or name) and any digits
(`DigitAssumption`). `Has`, `After` and `UpTo` of a beginning are related to those
of the whole (`CutHas`, `AfterCut`, `UpToFirst`), and a number without its last
digits is smaller or the same (`CutNumber`). `RequestInv` adds that nothing has
been applied before the request is parsed.

`NetworkProofs`, discovery: for any servers, addresses, other hosts and leases, any
interval of the announcements and any expiry that is a multiple of it
(`IntervalAssumption`, and `ForeignAssumption`: nobody else offers the service),
`ServerInv` and `SentToHeardServer`. The age of the last announcement alone is
not inductive; `AgeBounded` bounds it, together with the time to the next
announcement, by the number of those that have been missed in a row, and `KnowsLast`
says that the device's record and what it has really heard are one.

`NetworkProofs`, names: for every sequence of bytes (`NameAssumption`),
`NameWalksAgree`. `Ahead` is the measure of the walk that follows pointers: a
label moves it on within the packet and a pointer costs one of sixteen, so it
ends within the turns that the function counts. `Together` says where skipping the
name is when the walk has passed so many labels without a pointer, and that its end
is decided by the first one. `Found` says that before its first label the walk
follows the very pointers that a search for a label follows, so that the search
comes to that label and takes it.

`ViewProofs`, dashboard: for any number of points and events, any room in an answer
and any number of attempts (`AttemptsAssumption`, `SeqAssumption`,
`PointsAssumption`), `ChartInv`, `LiveAfterBoundary` and `NothingSkipped`. A
request is answered at one time and applied at another, and in between the
source goes on. `Snapshot` is what stays true of an answer under way, however old:
a number in it that is not late is above those before it, and up to any of its
points it lacks nothing that the source still has but what is in `left`
(`AnswerIsSnapshot`, `SnapshotStays`): what comes to the source later is late or
above all numbers so far. `ChartPoints` says that no point on the chart is beyond
`lastHistorySeq`, so that what a merge adds, which rises from there (`NewPoints`), comes
after all of them (`OrderJoined`). `Marks` says that no live sample is on the
chart as long as the mark is to come, in `sessionGapPending` or
`pendingSessionBoundary`, and that it is in its place afterwards.

`ViewProofs`, algorithms: for every input that is `WellFormed`
(`ConstantsAssumption`, `InputAssumption`), the three properties of the algorithms.

- Downsampling: the buckets are disjoint and none is empty as there are more
  records than buckets (`BucketsShare`); the point chosen in one is a member of it,
  whatever the areas are (`LargestInBucket`), so the choice rises (`LttbSpans`). A
  place between two records lies between exactly two neighbours of the choice
  (`OneBetween`), which marks its gap once.
- Bus search: the identifiers are ordered by the first bit in which they differ
  (`Earlier`). `ReadSoFar` says what the first bits of a pass have led to: those that
  remain are the devices that agree with the identifier so far, it agrees with the one
  before up to the fork that is turned, and the last fork taken at 0 is noted.
  So a pass finds the next device in that order (`PassIsNext`), the first one when
  there is no fork to turn (`PassIsFirst`), and the last one has none
  (`PassIsLast`). `Scanned` says after `k` passes that those found are the
  devices up to the last of them.
- Conversions: the packet's temperatures and flags by their ranges and masks; the
  poll interval by monotonicity of the division; the host name by what a run of
  `Push` may produce, of which a second run keeps every character; and the date
  for every day from 1970 on. For that the sums over years and months of
  `DateOfCalendar` are brought to closed forms (`YearsCounted`, `MonthsCounted`), and the
  four divisions in `days_to_ymd` are shown to give the year of the era and the
  day in it (`YearOfEra`) and the month (`MonthOfYear`).

`DataLemmas` has what these proofs share. The induction theorems of the library
take the property as an operator, which the provers here cannot instantiate;
lemmas `Induction` and `IntervalInduction` state the principle for a set of numbers
instead, and `Recursion` that a function which a loop defines exists. That is enough
for the recursive functions that the models use, and why none of them is a
`RECURSIVE` operator.

Only model-checked: liveness (`StopReleasesRelays`, `ServesAgain`, `FollowsServer`,
`AnnouncesAddress`, `PageCatchesUp`, `NewestShown`), which rests on fairness, for which the prover has
no support.

## Plan

What could follow: the answers of the mDNS responder; two servers at a time.

## Not modelled

- The serialisers (`metrics.rs`, `error.rs`: formatting of the published
  state into JSON, Prometheus and console text) and the build script
  (compile-time configuration): no state that changes. One of them,
  `metrics.rs:267` and `:271`, writes a backslash and an `n` where a line end is meant.
- Bit timing, checksums and retries on the one-wire bus, the Wi-Fi driver, the
  flash driver beyond erase and program: hardware; their failures are choices
  in `Controller`, `Wifi` and `History`.
- The floating-point arithmetic of the PID: its output is any duty cycle.
- Answers of the mDNS responder to questions, `get_stats`, the event stream, the
  temperature forward, the setpoint form, zoom and drawing of the page, the
  displayed network state and probe names: projections or single assignments.
- Generated `.js` files are compiled from the `.ts` ones.
