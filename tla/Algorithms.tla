----------------------------- MODULE Algorithms -----------------------------
(***************************************************************************)
(* The pure algorithms of the program, each against what it is for:        *)
(*   - downsampling and gap marks of the server's history (store.rs);      *)
(*   - the search for the probes on the one-wire bus (sensor.rs);          *)
(*   - the telemetry packet, written by udp.rs and read by packet.rs;      *)
(*   - dates and host names (shared.rs), the NTP poll interval (ntp.rs).   *)
(*                                                                         *)
(* A behaviour is one input; nothing happens to it.  Temperatures are      *)
(* integers, lengths are those of the configuration.  Indices of records   *)
(* count from 0 as in the code: r[i] is element i + 1 of the sequence.  A  *)
(* loop is a function of the number of its turns.                          *)
(***************************************************************************)
EXTENDS Integers, Sequences, SequencesExt, FiniteSets, FiniteSetsExt

CONSTANTS
    Inputs,          \* records [kind, ...], see the operators
    GapThreshold,    \* gap_threshold in seconds
    MaxRoms,         \* MAX of ds18b20_scan_roms
    HostLen,         \* capacity of a host name
    MinPoll, MaxPoll, Ramp,    \* NTP_MIN_POLL_SECS, NTP_SYNC_INTERVAL_SECS,
                               \* NTP_POLL_RAMP_DURATION_SECS
    Unknown          \* UNKNOWN_TEMPERATURE_CENTI, NaN

VARIABLE input

ASSUME ConstantsAssumption ==
    /\ MaxRoms \in Nat /\ HostLen \in Nat \ {0}
    /\ MinPoll \in Nat /\ MaxPoll \in Nat /\ MinPoll <= MaxPoll /\ Ramp \in Nat \ {0}
    /\ Unknown \in Int /\ Unknown < -32768   \* i32::MIN

----------------------------------------------------------------------------
(* lttb_indices, for a threshold of at least 2.                            *)

AbsOf(n) == IF n < 0 THEN -n ELSE n

Bucket(i, n, buckets) == (i * (n - 2)) \div buckets + 1

(* Twice the area of the triangle of a, b and the average of C, times the  *)
(* size of C, which is empty for the last bucket: the average is then the  *)
(* origin.                                                                 *)
Area(r, a, b, C) ==
    LET k  == Max({1, Cardinality(C)})
        sx == MapThenSumSet(LAMBDA j : r[j + 1].uptime, C)
        sy == MapThenSumSet(LAMBDA j : r[j + 1].temp, C)
        A  == r[a + 1]
        B  == r[b + 1]
    IN  AbsOf((k * A.uptime - sx) * (B.temp - A.temp)
              - (A.uptime - B.uptime) * (sy - k * A.temp))

(* The point of bucket i, with a selected before it: the first of those    *)
(* that make the largest triangle.                                         *)
Largest(r, a, i, n, buckets) ==
    LET from == Bucket(i, n, buckets)
        upto == Bucket(i + 1, n, buckets)
        C    == IF i + 1 < buckets THEN upto .. (Bucket(i + 2, n, buckets) - 1) ELSE {}
        best[j \in from .. upto] ==
            IF j = from THEN from
            ELSE IF Area(r, a, j - 1, C) > Area(r, a, best[j - 1], C) THEN j - 1
            ELSE best[j - 1]
    IN  best[upto]

LttbIndices(r, threshold) ==
    LET n       == Len(r)
        buckets == threshold - 2
        selected[i \in 0 .. buckets] ==
            IF i = 0 THEN 0 ELSE Largest(r, selected[i - 1], i - 1, n, buckets)
    IN  IF n <= threshold THEN [i \in 1 .. n |-> i - 1]
        ELSE [i \in 1 .. threshold |->
                 IF i = threshold THEN n - 1 ELSE selected[i - 1]]

(* history_data: a point has a gap before it if two records in a row that  *)
(* it stands for were received far apart.                                  *)
Late(r, k) == r[k + 2].received - r[k + 1].received > GapThreshold

GapBeforeLastPair(r, sel, i) ==  \* mutant
    i > 1 /\ Late(r, sel[i] - 1)
GapBefore(r, sel, i) ==
    i > 1 /\ \E k \in sel[i - 1]..(sel[i] - 1) : Late(r, k)

----------------------------------------------------------------------------
(* ds18b20_scan_roms.  The bus is a set of ROMs, sequences of bits; on it, *)
(* a bit reads 1 only if every device still taking part sends 1.           *)

DirectionAgain(bit, last, rom) ==  \* mutant
    IF bit <= last THEN rom[bit] = 1 ELSE FALSE
Direction(bit, last, rom) ==
    IF bit < last THEN rom[bit] = 1 ELSE bit = last

(* One bit of a pass that is as p says: alive, the devices that still take *)
(* part; next, the last fork where 0 was taken.                            *)
ReadBit(p, bit, last, rom) ==
    LET id  == \A d \in p.alive : d[bit] = 1
        cmp == \A d \in p.alive : d[bit] = 0
        one == IF ~id /\ ~cmp THEN Direction(bit, last, rom) ELSE id
    IN  IF ~p.ok \/ (id /\ cmp) THEN [p EXCEPT !.ok = FALSE]
        ELSE [ok    |-> TRUE,
              alive |-> {d \in p.alive : d[bit] = IF one THEN 1 ELSE 0},
              next  |-> IF ~id /\ ~cmp /\ ~one THEN bit ELSE p.next,
              rom   |-> [p.rom EXCEPT ![bit] = IF one THEN 1 ELSE 0]]

Pass(bus, last, rom) ==
    LET s[bit \in 0 .. Len(rom)] ==
            IF bit = 0 THEN [ok |-> TRUE, alive |-> bus, next |-> 0, rom |-> rom]
            ELSE ReadBit(s[bit - 1], bit, last, rom)
    IN  s[Len(rom)]

(* One turn of the loop over the passes; nothing happens when it is done.  *)
SearchOn(bus, s) ==
    LET p == Pass(bus, s.last, s.rom)
    IN  IF s.done THEN s
        ELSE IF ~p.ok \/ Len(s.found) = MaxRoms THEN [s EXCEPT !.done = TRUE]
        ELSE [found |-> Append(s.found, p.rom), rom |-> p.rom,
              last |-> p.next, done |-> p.next = 0]

(* It is done after one pass more than there is room for at the latest.    *)
ScanRoms(bus, width) ==
    LET start == [found |-> <<>>, rom |-> [i \in 1 .. width |-> 0], last |-> 0,
                  done |-> FALSE]
        s[k \in 0 .. MaxRoms + 1] == IF k = 0 THEN start ELSE SearchOn(bus, s[k - 1])
    IN  s[MaxRoms + 1].found

----------------------------------------------------------------------------
(* build_packet and Packet::decode, as far as values change on the way:    *)
(* temperatures (one, in hundredths) and flags.                            *)

I16Min == -32768
I16Max == 32767
TempNone == I16Max
Clamp(n, lo, hi) == IF n < lo THEN lo ELSE IF n > hi THEN hi ELSE n

EncodeTempWide(centi) ==  \* mutant
    IF centi = Unknown THEN TempNone ELSE Clamp(centi, I16Min, I16Max)
EncodeTemp(centi) ==
    IF centi = Unknown THEN TempNone ELSE Clamp(centi, I16Min, I16Max - 1)
DecodeTemp(wire) == IF wire = TempNone THEN Unknown ELSE wire

FlagBits == <<"relay_on", "collecting", "ntp_synced", "history_clear", "heat_on">>
Mask == <<1, 2, 4, 8, 16>>
EncodeFlags(set) ==
    LET bit(i) == IF FlagBits[i] \in set THEN Mask[i] ELSE 0
    IN  bit(1) + bit(2) + bit(3) + bit(4) + bit(5)
DecodeFlags(wire) == {FlagBits[i] : i \in {i \in 1..5 : (wire \div Mask[i]) % 2 = 1}}

----------------------------------------------------------------------------
(* days_to_ymd, from 1970 on.                                              *)

DaysToYmd(days) ==
    LET z   == days + 719468
        era == z \div 146097
        doe == z % 146097
        yoe == (doe - doe \div 1460 + doe \div 36524 - doe \div 146096) \div 365
        doy == doe - (365 * yoe + yoe \div 4 - yoe \div 100)
        mp  == (5 * doy + 2) \div 153
        m   == IF mp < 10 THEN mp + 3 ELSE mp - 9
    IN  <<yoe + era * 400 + (IF m <= 2 THEN 1 ELSE 0), m,
          doy - (153 * mp + 2) \div 5 + 1>>
----------------------------------------------------------------------------
(* normalized_dhcp_hostname: "A" stands for the capitals, "." for what a   *)
(* host name may not contain.                                              *)
Mapped(c) == CASE c = "A" -> "a" [] c \in {"a", "-"} -> c [] OTHER -> "-"

Trim(s) ==
    LET kept == {i \in DOMAIN s : s[i] # "-"}
    IN  IF kept = {} THEN <<>> ELSE SubSeq(s, 1, Max(kept))

Push(out, c) == IF Len(out) >= HostLen \/ (out = <<>> /\ Mapped(c) = "-")
                THEN out ELSE Append(out, Mapped(c))

Hostname(s) ==
    LET out[i \in 0 .. Len(s)] == IF i = 0 THEN <<>> ELSE Push(out[i - 1], s[i])
        name == Trim(out[Len(s)])
    IN  IF name = <<>> THEN <<"a">> ELSE name

(* ntp_poll_interval_secs_after_sync.                                      *)
PollInterval(age) ==
    IF age >= Ramp THEN MaxPoll
    ELSE MinPoll + (age * (MaxPoll - MinPoll) + Ramp \div 2) \div Ramp

----------------------------------------------------------------------------
(* What the operators are applied to.                                      *)
WellFormed(x) ==
    CASE x.kind = "history"  -> /\ x.records \in Seq([uptime : Int, temp : Int, received : Int])
                                /\ x.records # <<>> /\ x.threshold \in Nat /\ x.threshold >= 2
      [] x.kind = "bus"      -> /\ x.width \in Nat \ {0}
                                /\ x.bus \in SUBSET [1 .. x.width -> {0, 1}]
                                /\ IsFiniteSet(x.bus)
      [] x.kind = "packet"   -> x.centi \in Int /\ x.flags \subseteq Range(FlagBits)
      [] x.kind = "day"      -> x.days \in Nat
      [] x.kind = "hostname" -> x.text \in Seq(STRING)
      [] x.kind = "age"      -> x.age \in Nat

ASSUME InputAssumption == \A x \in Inputs : WellFormed(x)

AlgorithmsInit == input \in Inputs
AlgorithmsNext == UNCHANGED input
AlgorithmsSpec == AlgorithmsInit /\ [][AlgorithmsNext]_input

----------------------------------------------------------------------------
(* Properties.                                                             *)

Selected == LttbIndices(input.records, input.threshold)

(* Downsampling keeps as many records as asked for (or all), in order,     *)
(* none twice, with the first and the last.                                *)
LttbSpansHistory ==
    input.kind = "history" =>
        LET n == Len(input.records)
        IN  /\ Len(Selected) = Min({n, input.threshold})
            /\ Selected[1] = 0 /\ Last(Selected) = n - 1
            /\ \A i \in 1..(Len(Selected) - 1) : Selected[i] < Selected[i + 1]

(* Every real gap between two records in a row is marked at exactly one of *)
(* the points that are left, however few they are (store.rs 155, 209-222). *)
EveryGapMarkedOnce ==
    input.kind = "history" =>
        \A k \in 0..(Len(input.records) - 2) :
            Late(input.records, k) =>
                Cardinality({i \in 2..Len(Selected) :
                                /\ GapBefore(input.records, Selected, i)
                                /\ k \in Selected[i - 1]..(Selected[i] - 1)}) = 1

(* What is left of a history stands for all of it (store.rs 163-222).      *)
DownsamplingInv == LttbSpansHistory /\ EveryGapMarkedOnce

(* The search finds every device on the bus, each once, and stops; with    *)
(* more of them than there is room for it finds as many as fit.            *)
SearchFindsAll ==
    input.kind = "bus" =>
        LET found == ScanRoms(input.bus, input.width)
        IN  /\ IsInjective(found)
            /\ Range(found) \subseteq input.bus
            /\ Len(found) = Min({MaxRoms, Cardinality(input.bus)})

(* What the server reads is what the device measured, in the range of the  *)
(* packet; a reading is never taken for a missing one, or the other way    *)
(* round; and no flag is taken for another.                                *)
PacketRoundTrip ==
    input.kind = "packet" =>
        LET temp == DecodeTemp(EncodeTemp(input.centi))
        IN  /\ temp = Unknown <=> input.centi = Unknown
            /\ input.centi \in I16Min .. I16Max - 1 => temp = input.centi
            /\ DecodeFlags(EncodeFlags(input.flags)) = input.flags

(* The date is that of the calendar: counted back, year by year and month  *)
(* by month, it gives the day.                                             *)
Leap(y) == y % 4 = 0 /\ (y % 100 # 0 \/ y % 400 = 0)
MonthDays(y, m) == CASE m = 2 -> (IF Leap(y) THEN 29 ELSE 28)
                     [] m \in {4, 6, 9, 11} -> 30
                     [] OTHER -> 31
DateOfCalendar ==
    input.kind = "day" =>
        LET date == DaysToYmd(input.days)
            y == date[1]
            m == date[2]
            years[k \in 1970 .. y] ==
                IF k = 1970 THEN 0 ELSE years[k - 1] + (IF Leap(k - 1) THEN 366 ELSE 365)
            months[k \in 1 .. m] ==
                IF k = 1 THEN 0 ELSE months[k - 1] + MonthDays(y, k - 1)
        IN  /\ m \in 1..12 /\ date[3] \in 1..MonthDays(y, m)
            /\ years[y] + months[m] + date[3] - 1 = input.days

(* The host name is a label that DHCP and mDNS accept, and normalising it  *)
(* again changes nothing: both users of it get the same name.              *)
HostnameIsLabel ==
    input.kind = "hostname" =>
        LET name == Hostname(input.text)
        IN  /\ Len(name) \in 1..HostLen
            /\ name[1] # "-" /\ Last(name) # "-"
            /\ Hostname(name) = name

(* The poll interval never falls with the age of the synchronisation and   *)
(* stays between its bounds.                                               *)
PollIntervalRamps ==
    input.kind = "age" =>
        /\ PollInterval(input.age) \in MinPoll..MaxPoll
        /\ PollInterval(input.age) <= PollInterval(input.age + 1)

(* The conversions keep what they convert: measurements and flags in a     *)
(* packet, days in a date, a host name, an age (udp.rs 313-331, packet.rs  *)
(* 95-117, shared.rs 97-163, ntp.rs 88-100).                               *)
ConversionsInv == PacketRoundTrip /\ DateOfCalendar /\ HostnameIsLabel /\ PollIntervalRamps
=============================================================================
