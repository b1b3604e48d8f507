---------------------------- MODULE ServerProofs ----------------------------
(* The history of Server for any number of clients, devices, packets,      *)
(* records and faults, any retention and any width of the packet number.   *)
(*                                                                         *)
(* Serial numbers carry the argument: the receiver gives them out one at a *)
(* time and appends each record before it takes the next packet, so a      *)
(* number in memory, on file or on its way there says which of the clears  *)
(* it came after.                                                          *)
EXTENDS Server, DataLemmas, FiniteSetTheorems

Lines == Records \union {Torn, Stub}

\* The records among some lines; those on file, or about to be.
Recs(lines) == {l \in ToSet(lines) : l \in Records}
OnFile == Recs(file) \union ({pending} \intersect Records)

\* What a restart takes for the last packet.
Restorable == [dev: Devices, seq: 0..(SeqSpace - 1), up: Nat, coll: BOOLEAN,
               clear: {FALSE}]

InHand == udpPc \in {"clearStore", "clearFile", "insert"}

Typed ==
    /\ records \in Seq(Records)
    /\ file \in Seq(Lines)
    /\ pending \in Records \union {NoRecord}
    /\ pending # NoRecord <=> udpPc = "append"
    /\ latest \in Packets \union {NoPacket} \union Restorable
    /\ collecting \in BOOLEAN
    /\ received \in 0..MaxReceived
    /\ dropped \in Nat
    /\ lastSeq \in -1..(SeqSpace - 1)
    /\ hostname \in Devices \union {NoDevice}
    /\ udpPc \in {"recv", "clearStore", "clearFile", "insert", "append"}
    /\ clears \in 0..2
    /\ clears > 0 <=> udpPc \in {"clearStore", "clearFile"}
    /\ pc \in [Clients -> {"idle", "clearStore", "clearFile", "forwardClear",
                           "forwardStart", "forwardStop"}]
    /\ address \in [Clients -> Devices \union {NoDevice}]
    /\ now \in 0..MaxTime
    /\ faults \in 0..MaxFaults
    /\ serial \in 0..MaxRecords
    /\ cleared \in 0..serial
    /\ mark \in [Clients -> 0..serial]

\* The packet in hand is of the device the receiver listens to, and fits.
Carried ==
    InHand => /\ pkt \in Packets
              /\ hostname = pkt.dev
              /\ received < MaxReceived
              /\ serial < MaxRecords

\* A record to be appended has the last serial number, and the file none as high.
Numbered ==
    /\ \A r \in ToSet(records) \union OnFile : r.n \in 1..serial /\ r.t \in 0..now
    /\ \A l \in Recs(file) : l.host = NoDevice
    /\ udpPc = "append" => pending.n = serial /\ \A l \in Recs(file) : l.n < serial

\* In memory means on file, or known to be in danger.
Stored ==
    \A r \in ToSet(records) : r.n \in exposed \/ \E l \in OnFile : l.n = r.n

\* Between a clear of the store and that of the file.
Emptied ==
    /\ udpPc = "clearFile" => records = <<>>
    /\ \A c \in Clients :
         pc[c] = "clearFile" => \A r \in ToSet(records) : r.n \in exposed

\* The record in memory and its line on file are of the same time.
SameTimes ==
    \A r \in ToSet(records), l \in OnFile : r.n = l.n => r.t = l.t

\* At most one record on file, or on its way there, is as old as m.
AtMostOne(m) == \A k, l \in OnFile : k.n <= m /\ l.n <= m => k.n = l.n

AtMostOneLeft ==
    /\ AtMostOne(cleared)
    /\ \A c \in Clients : pc[c] = "forwardClear" => AtMostOne(mark[c])

OneDevice ==
    udpPc # "clearStore" => \A r \in ToSet(records) : r.host \in {NoDevice, hostname}

IInv ==
    /\ Typed
    /\ Carried
    /\ Numbered
    /\ ArrivalOrder
    /\ Stored
    /\ Emptied
    /\ SameTimes
    /\ AtMostOneLeft
    /\ OneDevice

----------------------------------------------------------------------------
(* Sentinels are no records, and records are not empty.                    *)
LEMMA Sentinels ==
    /\ Torn # Stub /\ Torn \notin Records /\ Stub \notin Records
    /\ NoRecord \notin Records
    /\ \A l \in Lines : IsRecord(l) <=> l \in Records
<1>1. NoRecord \notin Records
  BY DEF NoRecord, Records
<1> QED
  BY <1>1, SentinelAssumption DEF Lines, IsRecord

(* The elements of a sequence.                                             *)
LEMMA Elements ==
    ASSUME NEW S, NEW s \in Seq(S)
    PROVE  /\ DOMAIN s = 1 .. Len(s)
           /\ \A x : x \in ToSet(s) <=> \E i \in 1 .. Len(s) : x = s[i]
           /\ ToSet(s) \subseteq S
  BY DEF ToSet

(* What it means that lines are in order, without the lines that are none. *)
LEMMA OrderedLines ==
    ASSUME NEW s \in Seq(Lines)
    PROVE  Ordered(s) <=> \A i, j \in 1 .. Len(s) :
             i < j /\ s[i] \in Records /\ s[j] \in Records => s[i].n < s[j].n
<1>1. \A i \in 1 .. Len(s) : s[i] \in Lines
  OBVIOUS
<1> QED
  BY <1>1, Elements, Sentinels DEF Ordered

(* In an order two records with the same number are the same.              *)
LEMMA OrderedUnique ==
    ASSUME NEW s \in Seq(Lines), Ordered(s), NEW k \in Recs(s), NEW l \in Recs(s),
           k.n = l.n
    PROVE  k = l
<1>1. PICK i \in 1 .. Len(s) : k = s[i]
  BY Elements DEF Recs
<1>2. PICK j \in 1 .. Len(s) : l = s[j]
  BY Elements DEF Recs
<1>3. k.n \in Nat /\ l.n \in Nat /\ k \in Records /\ l \in Records
  BY DEF Recs, Records
<1>4. ~(i < j) /\ ~(j < i)
  BY <1>1, <1>2, <1>3, OrderedLines
<1> QED
  BY <1>1, <1>2, <1>4

(* Appending the newest record to the file, which a fragment at its end    *)
(* may spoil, adds at most that record and loses none.                     *)
LEMMA AppendedFile ==
    ASSUME NEW s \in Seq(Lines), Ordered(s), NEW r \in Records,
           \A l \in Recs(s) : l.n < r.n
    PROVE  /\ Appended(s, r) \in Seq(Lines)
           /\ Ordered(Appended(s, r))
           /\ Recs(s) \subseteq Recs(Appended(s, r))
           /\ Recs(Appended(s, r)) \subseteq Recs(s) \union {Persisted(r)}
<1> DEFINE t == Appended(s, r)
<1>1. Persisted(r) \in Records /\ Persisted(r).n = r.n
  BY DEF Persisted, Records
<1>2. CASE s # <<>> /\ Last(s) = Stub
  <2>1. t = Front(s) \o <<Torn>>
    BY <1>2 DEF Appended
  <2>2. Len(s) \in Nat \ {0} /\ s[Len(s)] = Stub
    BY <1>2 DEF Last
  <2>3. /\ Front(s) \in Seq(Lines) /\ Len(Front(s)) = Len(s) - 1
        /\ \A i \in 1 .. Len(s) - 1 : Front(s)[i] = s[i]
    <3>1. Front(s) = SubSeq(s, 1, Len(s) - 1)
      BY DEF Front
    <3>2. PICK k \in Nat : k = Len(s) - 1
      BY <2>2
    <3>3. Front(s) = SubSeq(s, 1, k) /\ Len(s) = k + 1
      BY <2>2, <3>1, <3>2
    <3> QED
      BY <3>2, <3>3
  <2>4. Torn \in Lines
    BY DEF Lines
  <2>5. /\ t \in Seq(Lines) /\ Len(t) = Len(s)
        /\ \A i \in 1 .. Len(s) - 1 : t[i] = s[i]
        /\ t[Len(s)] = Torn
    BY <2>1, <2>2, <2>3, <2>4
  <2> HIDE DEF t
  <2>6. \A i \in 1 .. Len(s) : s[i] \in Records \/ t[i] \in Records => s[i] = t[i]
    BY <2>2, <2>5, Sentinels
  <2>7. Ordered(t)
    BY <2>5, <2>6, OrderedLines
  <2>8. Recs(t) = Recs(s)
    BY <2>5, <2>6, Elements DEF Recs
  <2> QED
    BY <2>5, <2>7, <2>8 DEF t
<1>3. CASE ~(s # <<>> /\ Last(s) = Stub)
  <2>1. t = Append(s, Persisted(r))
    BY <1>3 DEF Appended
  <2>2. Persisted(r) \in Lines
    BY <1>1 DEF Lines
  <2>3. /\ t \in Seq(Lines) /\ Len(t) = Len(s) + 1 /\ Len(s) \in Nat
        /\ \A i \in 1 .. Len(s) : t[i] = s[i]
        /\ t[Len(s) + 1] = Persisted(r)
    BY <2>1, <2>2
  <2> HIDE DEF t
  <2>4. \A i \in 1 .. Len(s) : s[i] \in Records => s[i].n < r.n
    BY Elements DEF Recs
  <2>5. Ordered(t)
    <3> SUFFICES ASSUME NEW i \in 1 .. Len(t), NEW j \in 1 .. Len(t), i < j,
                        t[i] \in Records, t[j] \in Records
                 PROVE  t[i].n < t[j].n
      BY <2>3, OrderedLines
    <3>1. i \in 1 .. Len(s) /\ t[i] = s[i]
      BY <2>3
    <3>2. CASE j = Len(s) + 1
      BY <1>1, <2>3, <2>4, <3>1, <3>2
    <3>3. CASE j \in 1 .. Len(s)
      BY <2>3, <3>1, <3>3, OrderedLines
    <3> QED
      BY <2>3, <3>2, <3>3
  <2>6. Recs(s) \subseteq Recs(t) /\ Recs(t) \subseteq Recs(s) \union {Persisted(r)}
    <3>1. \A x \in ToSet(s) : x \in ToSet(t)
      BY <2>3, Elements
    <3>2. \A x \in ToSet(t) : x \in ToSet(s) \/ x = Persisted(r)
      BY <2>3, Elements
    <3> QED
      BY <3>1, <3>2 DEF Recs
  <2> QED
    BY <2>3, <2>5, <2>6 DEF t
<1> QED
  BY <1>2, <1>3

(* A failed append leaves a fragment, and the records as they were.        *)
LEMMA AppendedFragment ==
    ASSUME NEW s \in Seq(Lines), Ordered(s)
    PROVE  /\ AppendedTorn(s) \in Seq(Lines)
           /\ Ordered(AppendedTorn(s))
           /\ Recs(AppendedTorn(s)) = Recs(s)
<1> DEFINE t == Append(s, Stub)
<1>1. /\ t \in Seq(Lines) /\ Len(t) = Len(s) + 1 /\ Len(s) \in Nat
      /\ \A i \in 1 .. Len(s) : t[i] = s[i]
      /\ t[Len(s) + 1] = Stub
  <2>1. Stub \in Lines
    BY DEF Lines
  <2> QED
    BY <2>1
<1> HIDE DEF t
<1>2. \A i \in 1 .. Len(t) : t[i] \in Records => i \in 1 .. Len(s) /\ t[i] = s[i]
  BY <1>1, Sentinels
<1>3. Ordered(t)
  BY <1>1, <1>2, OrderedLines
<1>4. Recs(t) = Recs(s)
  <2>1. Recs(s) \subseteq Recs(t)
    BY <1>1, Elements DEF Recs
  <2>2. Recs(t) \subseteq Recs(s)
    BY <1>1, <1>2, Elements DEF Recs
  <2> QED
    BY <2>1, <2>2
<1> QED
  BY <1>1, <1>3, <1>4 DEF AppendedTorn, t

(* Pruning takes records from the front.                                   *)
LEMMA PrunedRecords ==
    ASSUME NEW s \in Seq(Records), Ordered(s)
    PROVE  /\ Pruned(s) \in Seq(Records)
           /\ Ordered(Pruned(s))
           /\ ToSet(Pruned(s)) \subseteq ToSet(s)
<1> DEFINE fresh == {i \in DOMAIN s : InWindow(s[i].t)}
<1>1. CASE fresh = {}
  <2>1. Pruned(s) = <<>>
    BY <1>1 DEF Pruned
  <2> QED
    BY <2>1 DEF Ordered, ToSet
<1>2. CASE fresh # {}
  <2>1. PICK m \in 1 .. Len(s) : Pruned(s) = SubSeq(s, m, Len(s))
    <3>1. fresh \in SUBSET Nat /\ fresh \subseteq 1 .. Len(s)
      BY Elements
    <3> HIDE DEF fresh
    <3>2. Min(fresh) \in fresh
      <4>1. \E x \in fresh : \A y \in fresh : x <= y
        BY <1>2, <3>1, Least
      <4> QED
        BY <4>1 DEF Min
    <3> QED
      BY <1>2, <3>1, <3>2 DEF Pruned, fresh
  <2> DEFINE t == SubSeq(s, m, Len(s))
  <2>2. /\ t \in Seq(Records) /\ Len(t) = Len(s) - m + 1 /\ Len(s) \in Nat
        /\ \A i \in 1 .. Len(t) : t[i] = s[i + m - 1] /\ i + m - 1 \in 1 .. Len(s)
    OBVIOUS
  <2> HIDE DEF t
  <2>3. s \in Seq(Lines) /\ t \in Seq(Lines)
    BY <2>2 DEF Lines
  <2>4. \A i \in 1 .. Len(s) : s[i] \in Records
    OBVIOUS
  <2>5. Ordered(t)
    <3> SUFFICES ASSUME NEW i \in 1 .. Len(t), NEW j \in 1 .. Len(t), i < j
                 PROVE  t[i].n < t[j].n
      BY <2>3, OrderedLines
    <3>1. i + m - 1 < j + m - 1
      BY <2>2
    <3> QED
      BY <2>2, <2>3, <2>4, <3>1, OrderedLines
  <2>6. ToSet(t) \subseteq ToSet(s)
    BY <2>2, Elements
  <2> QED
    BY <2>1, <2>2, <2>5, <2>6 DEF t
<1> QED
  BY <1>1, <1>2

(* Loading keeps the records of the window, all of them and in order.      *)
LEMMA RestoredRecords ==
    ASSUME NEW s \in Seq(Lines), Ordered(s)
    PROVE  /\ Restored(s) \in Seq(Records)
           /\ Ordered(Restored(s))
           /\ ToSet(Restored(s)) = {l \in Recs(s) : InWindow(l.t)}
<1> DEFINE I == {i \in Parsed(s) : InWindow(s[i].t)}
<1>1. PICK t : t = Restored(s) /\ t = Sieved(s, I)
  BY DEF Restored
<1>2. /\ I \subseteq 1 .. Len(s)
      /\ \A i \in 1 .. Len(s) : i \in I <=> s[i] \in Records /\ InWindow(s[i].t)
  <2>1. \A i \in 1 .. Len(s) : s[i] \in Lines
    OBVIOUS
  <2> QED
    BY <2>1, Elements, Sentinels DEF Parsed
<1>3. t \in Seq(Lines) /\ \E at : Positions(at, t, s, I, Len(s))
  BY <1>1, SievedElements
<1> HIDE DEF I
<1>4. PICK at : Positions(at, t, s, I, Len(s))
  BY <1>3
<1>5. \A j \in 1 .. Len(t) : at[j] \in I /\ at[j] \in 1 .. Len(s) /\ t[j] = s[at[j]]
  BY <1>4 DEF Positions
<1>6. \A j \in 1 .. Len(t) : t[j] \in Records
  BY <1>2, <1>5
<1>7. t \in Seq(Records)
  BY <1>3, <1>6
<1>8. Ordered(t)
  <2> SUFFICES ASSUME NEW i \in 1 .. Len(t), NEW j \in 1 .. Len(t), i < j
               PROVE  t[i].n < t[j].n
    BY <1>3, OrderedLines
  <2>1. at[i] < at[j]
    BY <1>4 DEF Positions
  <2> QED
    BY <1>2, <1>5, <2>1, OrderedLines
<1>9. ASSUME NEW x \in ToSet(t) PROVE x \in Recs(s) /\ InWindow(x.t)
  <2>1. PICK j \in 1 .. Len(t) : x = t[j]
    BY <1>3, Elements
  <2> QED
    BY <1>2, <1>5, <1>6, <2>1, Elements DEF Recs
<1>10. ASSUME NEW x \in Recs(s), InWindow(x.t) PROVE x \in ToSet(t)
  <2>1. PICK i \in 1 .. Len(s) : x = s[i] /\ x \in Records
    BY Elements DEF Recs
  <2>2. i \in I \cap 1 .. Len(s)
    BY <1>2, <1>10, <2>1
  <2>3. PICK j \in 1 .. Len(t) : at[j] = i
    BY <1>4, <2>2 DEF Positions
  <2> QED
    BY <1>3, <1>5, <2>1, <2>3, Elements
<1> QED
  BY <1>1, <1>7, <1>8, <1>9, <1>10

(* The numbers of some lines are those of the records among them.          *)
LEMMA RecordSerials ==
    ASSUME NEW s \in Seq(Lines)
    PROVE  Serials(ToSet(s)) = {l.n : l \in Recs(s)}
<1>1. {l \in ToSet(s) : IsRecord(l)} = Recs(s)
  BY Elements, Sentinels DEF Recs
<1> QED
  BY <1>1 DEF Serials

(* No lines, no records.                                                   *)
LEMMA NoLines == /\ <<>> \in Seq(Lines) /\ <<>> \in Seq(Records)
                 /\ ToSet(<<>>) = {} /\ Recs(<<>>) = {} /\ Ordered(<<>>)
  BY DEF ToSet, Recs, Ordered

(* Outside the append, what is on file is what the file holds.             *)
LEMMA NothingPending ==
    ASSUME pending = NoRecord
    PROVE  OnFile = Recs(file)
  BY Sentinels DEF OnFile

----------------------------------------------------------------------------
(* The invariant holds at the start.                                       *)
LEMMA InitHolds == Init => IInv
<1> SUFFICES ASSUME Init PROVE IInv
  OBVIOUS
<1>1. Typed
  <2>1. /\ 0 \in 0 .. MaxReceived /\ 0 \in 0 .. MaxTime /\ 0 \in 0 .. MaxFaults
        /\ 0 \in 0 .. MaxRecords /\ 0 \in 0 .. 0 /\ -1 \in -1 .. (SeqSpace - 1)
    BY BoundAssumption, WidthAssumption
  <2>2. records \in Seq(Records) /\ file \in Seq(Lines)
    BY NoLines DEF Init
  <2>3. /\ pc \in [Clients -> {"idle", "clearStore", "clearFile", "forwardClear",
                               "forwardStart", "forwardStop"}]
        /\ address \in [Clients -> Devices \union {NoDevice}]
        /\ mark \in [Clients -> 0 .. serial]
    BY <2>1 DEF Init
  <2>4. clears \in 0 .. 2 /\ (clears > 0 <=> udpPc \in {"clearStore", "clearFile"})
    BY DEF Init
  <2>5. pending = NoRecord /\ udpPc = "recv" /\ collecting = FALSE /\ dropped \in Nat
        /\ latest = NoPacket /\ hostname = NoDevice
    BY DEF Init
  <2>6. /\ received \in 0 .. MaxReceived /\ lastSeq \in -1 .. (SeqSpace - 1)
        /\ now \in 0 .. MaxTime /\ faults \in 0 .. MaxFaults
        /\ serial \in 0 .. MaxRecords /\ cleared \in 0 .. serial
    BY <2>1 DEF Init
  <2> QED
    BY <2>2, <2>3, <2>4, <2>5, <2>6 DEF Typed
<1>2. OnFile = {} /\ ToSet(records) = {} /\ Recs(file) = {}
  BY NoLines, NothingPending DEF Init
<1>3. Carried
  BY DEF Init, Carried, InHand
<1>4. Numbered /\ Stored /\ SameTimes /\ OneDevice
  BY <1>2 DEF Init, Numbered, Stored, SameTimes, OneDevice
<1>5. ArrivalOrder
  BY NoLines DEF Init, ArrivalOrder
<1>6. Emptied /\ AtMostOneLeft
  BY <1>2 DEF Init, Emptied, AtMostOneLeft, AtMostOne
<1> QED
  BY <1>1, <1>3, <1>4, <1>5, <1>6 DEF IInv

----------------------------------------------------------------------------
(* Steps that leave the histories alone.                                   *)

(* What such a step keeps.                                                 *)
LEMMA Unmoved ==
    ASSUME IInv, Typed', now' >= now,
           UNCHANGED <<records, file, pending, serial, exposed, cleared, mark>>,
           \A c \in Clients :
             pc'[c] \in {"clearFile", "forwardClear"} => pc'[c] = pc[c]
    PROVE  /\ Numbered' /\ ArrivalOrder' /\ Stored' /\ SameTimes'
           /\ AtMostOneLeft'
           /\ \A c \in Clients :
                pc'[c] = "clearFile" => \A r \in ToSet(records') : r.n \in exposed'
<1>1. OnFile' = OnFile /\ Recs(file') = Recs(file)
  BY DEF OnFile, Recs
<1>2. Numbered'
  <2>1. 0 .. now \subseteq 0 .. now'
    BY DEF IInv, Typed
  <2>2. udpPc' = "append" <=> udpPc = "append"
    BY DEF IInv, Typed
  <2> QED
    BY <1>1, <2>1, <2>2 DEF IInv, Numbered
<1>3. ArrivalOrder'
  BY DEF IInv, ArrivalOrder, Ordered
<1>4. Stored' /\ SameTimes'
  BY <1>1 DEF IInv, Stored, SameTimes
<1>5. AtMostOneLeft'
  BY <1>1 DEF IInv, AtMostOneLeft, AtMostOne
<1>6. \A c \in Clients :
        pc'[c] = "clearFile" => \A r \in ToSet(records') : r.n \in exposed'
  BY DEF IInv, Emptied
<1> QED
  BY <1>2, <1>3, <1>4, <1>5, <1>6

(* A packet arrives.                                                       *)
LEMMA ReceiveKeeps ==
    ASSUME IInv, NEW p \in Packets, Receive(p)
    PROVE  IInv'
<1> USE DEF Receive, store, requests, ghosts
<1>1. p.dev \in Devices /\ ClearsOwed(p) \in 0 .. 2
  BY PacketAssumption DEF ClearsOwed
<1>2. Typed'
  BY <1>1 DEF IInv, Typed
<1>3. /\ Numbered' /\ ArrivalOrder' /\ Stored' /\ SameTimes' /\ AtMostOneLeft'
      /\ \A c \in Clients :
           pc'[c] = "clearFile" => \A r \in ToSet(records') : r.n \in exposed'
  <2>1. now' >= now
    BY DEF IInv, Typed
  <2>2. UNCHANGED <<records, file, pending, serial, exposed, cleared, mark, pc>>
    OBVIOUS
  <2> QED
    BY <1>2, <2>1, <2>2, Unmoved
<1>4. Carried'
  BY DEF Carried
<1>5. Emptied'
  BY <1>3 DEF Emptied
<1>6. OneDevice'
  <2>1. ClearsOwed(p) = 0 => hostname \in {NoDevice, p.dev}
    BY DEF ClearsOwed
  <2> SUFFICES ASSUME udpPc' # "clearStore", NEW r \in ToSet(records)
               PROVE  r.host \in {NoDevice, p.dev}
    BY DEF OneDevice
  <2>2. r.host \in {NoDevice, hostname}
    BY DEF IInv, OneDevice
  <2> QED
    BY <1>1, <2>1, <2>2
<1> QED
  BY <1>2, <1>3, <1>4, <1>5, <1>6 DEF IInv

(* A clear begins; collection is switched, and told to the device.         *)
LEMMA QuietRequestKeeps ==
    ASSUME IInv, NEW c \in Clients,
           \/ RequestClear(c)
           \/ \E enabled \in BOOLEAN :
                 RequestCollection(c, enabled) \/ ForwardCollection(c, enabled)
    PROVE  IInv'
<1>1. /\ UNCHANGED <<records, file, pending, serial, exposed, cleared, mark,
                     received, dropped, lastSeq, latest, now, faults>>
      /\ UNCHANGED <<hostname, udpPc, pkt, clears>>
  BY DEF RequestClear, RequestCollection, ForwardCollection, store, receiver, ghosts
<1>2. collecting' \in BOOLEAN
  BY DEF IInv, Typed, RequestClear, RequestCollection, ForwardCollection, store
<1>3. PICK to \in {"idle", "clearStore", "forwardStart", "forwardStop"} :
        pc' = [pc EXCEPT ![c] = to]
  <2>1. CASE RequestClear(c)
    BY <2>1 DEF RequestClear, ClearStep, At, ClearPath
  <2>2. CASE \E enabled \in BOOLEAN :
               RequestCollection(c, enabled) \/ ForwardCollection(c, enabled)
    BY <2>2 DEF RequestCollection, ForwardCollection, At, Forwarding
  <2> QED
    BY <2>1, <2>2
<1>4. address' \in [Clients -> Devices \union {NoDevice}]
  <2>1. LatestAddress \in Devices \union {NoDevice}
    BY PacketAssumption DEF IInv, Typed, LatestAddress, Restorable
  <2> QED
    BY <2>1 DEF IInv, Typed, RequestClear, RequestCollection, ForwardCollection
<1>5. Typed'
  BY <1>1, <1>2, <1>3, <1>4 DEF IInv, Typed
<1>6. /\ Numbered' /\ ArrivalOrder' /\ Stored' /\ SameTimes' /\ AtMostOneLeft'
      /\ \A d \in Clients :
           pc'[d] = "clearFile" => \A r \in ToSet(records') : r.n \in exposed'
  <2>1. \A d \in Clients :
          pc'[d] \in {"clearFile", "forwardClear"} => pc'[d] = pc[d]
    BY <1>3 DEF IInv, Typed
  <2>2. now' >= now
    BY <1>1 DEF IInv, Typed
  <2> QED
    BY <1>1, <1>5, <2>1, <2>2, Unmoved
<1>7. Carried' /\ OneDevice'
  BY <1>1 DEF IInv, Carried, InHand, OneDevice
<1>8. Emptied'
  BY <1>1, <1>6 DEF IInv, Emptied
<1> QED
  BY <1>5, <1>6, <1>7, <1>8 DEF IInv

(* Time passes.                                                            *)
LEMMA TickKeeps ==
    ASSUME IInv, Tick
    PROVE  IInv'
<1> USE DEF Tick, store, receiver, requests, ghosts
<1>1. Typed'
  BY BoundAssumption DEF IInv, Typed
<1>2. /\ Numbered' /\ ArrivalOrder' /\ Stored' /\ SameTimes' /\ AtMostOneLeft'
      /\ \A c \in Clients :
           pc'[c] = "clearFile" => \A r \in ToSet(records') : r.n \in exposed'
  <2>1. now' >= now
    BY DEF IInv, Typed
  <2>2. UNCHANGED <<records, file, pending, serial, exposed, cleared, mark, pc>>
    OBVIOUS
  <2> QED
    BY <1>1, <2>1, <2>2, Unmoved
<1>3. Carried' /\ OneDevice' /\ Emptied'
  BY <1>2 DEF IInv, Carried, InHand, OneDevice, Emptied
<1> QED
  BY <1>1, <1>2, <1>3 DEF IInv

----------------------------------------------------------------------------
(* The clears.                                                             *)

(* Emptying the store.                                                     *)
LEMMA StoreEmptied ==
    ASSUME IInv, Typed', records' = <<>>, UNCHANGED <<file, pending, serial, now>>
    PROVE  /\ OnFile' = OnFile
           /\ Numbered' /\ ArrivalOrder' /\ Stored' /\ SameTimes'
           /\ Emptied' /\ OneDevice'
<1>1. OnFile' = OnFile /\ Recs(file') = Recs(file)
  BY DEF OnFile, Recs
<1>2. ToSet(records') = {}
  BY NoLines
<1>3. Numbered'
  <2>1. udpPc' = "append" <=> udpPc = "append"
    BY DEF IInv, Typed
  <2> QED
    BY <1>1, <1>2, <2>1 DEF IInv, Numbered
<1>4. ArrivalOrder'
  BY NoLines DEF IInv, ArrivalOrder, Ordered
<1>5. Stored' /\ SameTimes' /\ Emptied' /\ OneDevice'
  BY <1>2 DEF Stored, SameTimes, Emptied, OneDevice
<1> QED
  BY <1>1, <1>3, <1>4, <1>5

(* The receiver's clear of the store.                                      *)
LEMMA UdpClearStoreKeeps ==
    ASSUME IInv, UdpClearStore
    PROVE  IInv'
<1> USE DEF UdpClearStore, ClearedStore, requests, ghosts
<1>1. Typed'
  BY NoLines, WidthAssumption, BoundAssumption DEF IInv, Typed
<1>2. /\ OnFile' = OnFile
      /\ Numbered' /\ ArrivalOrder' /\ Stored' /\ SameTimes'
      /\ Emptied' /\ OneDevice'
  BY <1>1, StoreEmptied
<1>3. Carried'
  BY BoundAssumption DEF IInv, Typed, Carried, InHand
<1>4. AtMostOneLeft'
  BY <1>2 DEF IInv, AtMostOneLeft, AtMostOne
<1> QED
  BY <1>1, <1>2, <1>3, <1>4 DEF IInv

(* A request's clear of the store: from now on its mark counts.            *)
LEMMA ClearStoreKeeps ==
    ASSUME IInv, NEW c \in Clients, ClearStore(c)
    PROVE  IInv'
<1> USE DEF ClearStore, ClearedStore, receiver, ghosts
<1>1. pc' = [pc EXCEPT ![c] = "clearFile"]
  BY DEF ClearStep, At, ClearPath
<1>2. Typed'
  BY <1>1, NoLines, WidthAssumption, BoundAssumption DEF IInv, Typed
<1>3. /\ OnFile' = OnFile
      /\ Numbered' /\ ArrivalOrder' /\ Stored' /\ SameTimes'
      /\ Emptied' /\ OneDevice'
  BY <1>2, StoreEmptied
<1>4. Carried'
  BY BoundAssumption DEF IInv, Typed, Carried, InHand
<1>5. AtMostOneLeft'
  <2>1. \A d \in Clients : pc'[d] = "forwardClear" =>
          pc[d] = "forwardClear" /\ mark'[d] = mark[d]
    BY <1>1 DEF IInv, Typed
  <2> QED
    BY <1>3, <2>1 DEF IInv, AtMostOneLeft, AtMostOne
<1> QED
  BY <1>2, <1>3, <1>4, <1>5 DEF IInv

(* Truncating the file leaves lines, and faults, in range.                 *)
LEMMA TruncatedTypes ==
    ASSUME IInv, Truncated
    PROVE  file' \in Seq(Lines) /\ faults' \in 0 .. MaxFaults
<1>1. file \in Seq(Lines) /\ faults \in 0 .. MaxFaults
  BY DEF IInv, Typed
<1>2. file' \in Seq(Lines)
  BY <1>1, NoLines DEF Truncated
<1>3. faults' \in 0 .. MaxFaults
  BY <1>1, BoundAssumption DEF Truncated
<1> QED
  BY <1>2, <1>3

(* Emptying the file, when nothing in memory is safe any more.             *)
LEMMA FileEmptied ==
    ASSUME IInv, Typed', file' = <<>>,
           UNCHANGED <<records, pending, serial, exposed, now>>,
           \A r \in ToSet(records) : r.n \in exposed
    PROVE  /\ Numbered' /\ ArrivalOrder' /\ Stored' /\ SameTimes'
           /\ \A m : AtMostOne(m)'
<1>1. Recs(file') = {} /\ OnFile' \subseteq OnFile /\ OnFile' \subseteq {pending}
  BY NoLines DEF OnFile
<1>2. Numbered'
  <2>1. udpPc' = "append" <=> udpPc = "append"
    BY DEF IInv, Typed
  <2> QED
    BY <1>1, <2>1 DEF IInv, Numbered
<1>3. ArrivalOrder'
  BY NoLines DEF IInv, ArrivalOrder, Ordered
<1>4. Stored' /\ SameTimes'
  BY <1>1 DEF IInv, Stored, SameTimes
<1>5. \A m : AtMostOne(m)'
  BY <1>1 DEF AtMostOne
<1> QED
  BY <1>2, <1>3, <1>4, <1>5

(* The receiver's clear of the file: the store is still empty.             *)
LEMMA UdpClearFileKeeps ==
    ASSUME IInv, UdpClearFile
    PROVE  IInv'
<1> USE DEF UdpClearFile, store, requests, ghosts
<1>1. Typed'
  <2>1. file' \in Seq(Lines) /\ faults' \in 0 .. MaxFaults
    BY TruncatedTypes
  <2>2. clears' \in 0 .. 2 /\ (clears' > 0 <=> udpPc' \in {"clearStore", "clearFile"})
    BY DEF IInv, Typed
  <2> QED
    BY <2>1, <2>2 DEF IInv, Typed
<1>2. ToSet(records) = {} /\ ToSet(records') = {}
  BY NoLines DEF IInv, Emptied
<1>3. Carried'
  BY DEF IInv, Typed, Carried, InHand
<1>4. Emptied' /\ OneDevice'
  BY <1>2 DEF Emptied, OneDevice
<1>5. /\ Numbered' /\ ArrivalOrder' /\ Stored' /\ SameTimes' /\ AtMostOneLeft'
  <2>1. CASE file' = <<>>
    <3>1. /\ Numbered' /\ ArrivalOrder' /\ Stored' /\ SameTimes'
          /\ \A m : AtMostOne(m)'
      BY <1>1, <1>2, <2>1, FileEmptied
    <3> QED
      BY <3>1 DEF AtMostOneLeft, AtMostOne
  <2>2. CASE UNCHANGED file
    <3>1. now' >= now
      BY DEF IInv, Typed
    <3>2. UNCHANGED <<records, file, pending, serial, exposed, cleared, mark, pc>>
      BY <2>2
    <3> QED
      BY <1>1, <3>1, <3>2, Unmoved
  <2> QED
    BY <2>1, <2>2 DEF Truncated
<1> QED
  BY <1>1, <1>3, <1>4, <1>5 DEF IInv

(* A request's clear of the file, or its failure.                          *)
LEMMA ClearFileKeeps ==
    ASSUME IInv, NEW c \in Clients, ClearFile(c)
    PROVE  IInv'
<1> USE DEF ClearFile, store, receiver, ghosts
<1>1. pc[c] = "clearFile" /\ pc' = [pc EXCEPT ![c] = "forwardClear"]
  BY DEF ClearStep, At, ClearPath
<1>2. Typed'
  <2>1. file' \in Seq(Lines) /\ faults' \in 0 .. MaxFaults
    BY TruncatedTypes
  <2>2. mark' \in [Clients -> 0 .. serial]
    BY DEF IInv, Typed
  <2> QED
    BY <1>1, <2>1, <2>2 DEF IInv, Typed
<1>3. \A r \in ToSet(records) : r.n \in exposed
  BY <1>1 DEF IInv, Emptied
<1>4. Carried' /\ OneDevice'
  BY DEF IInv, Typed, Carried, InHand, OneDevice
<1>5. Emptied'
  BY <1>3 DEF IInv, Emptied
<1>6. CASE file' = <<>>
  <2>1. /\ Numbered' /\ ArrivalOrder' /\ Stored' /\ SameTimes'
        /\ \A m : AtMostOne(m)'
    BY <1>2, <1>3, <1>6, FileEmptied
  <2>2. AtMostOneLeft'
    BY <2>1 DEF AtMostOneLeft, AtMostOne
  <2> QED
    BY <1>2, <1>4, <1>5, <2>1, <2>2 DEF IInv
<1>7. CASE file' # <<>>
  <2>1. UNCHANGED file
    BY <1>7 DEF Truncated
  <2>2. OnFile' = OnFile /\ Recs(file') = Recs(file)
    BY <2>1 DEF OnFile, Recs
  <2>3. Numbered' /\ ArrivalOrder' /\ Stored' /\ SameTimes'
    <3>1. udpPc' = "append" <=> udpPc = "append"
      OBVIOUS
    <3> QED
      BY <2>1, <2>2 DEF IInv, Numbered, ArrivalOrder, Ordered, Stored, SameTimes
  <2>4. AtMostOneLeft'
    <3>1. \A d \in Clients : pc'[d] = "forwardClear" =>
            mark'[d] = 0 \/ (pc[d] = "forwardClear" /\ mark'[d] = mark[d])
      BY <1>1, <1>7 DEF IInv, Typed
    <3>2. AtMostOne(0)'
      BY <2>2 DEF IInv, Typed, Numbered, AtMostOne
    <3> QED
      BY <2>2, <3>1, <3>2 DEF IInv, AtMostOneLeft, AtMostOne
  <2> QED
    BY <1>2, <1>4, <1>5, <2>3, <2>4 DEF IInv
<1> QED
  BY <1>6, <1>7

(* A clear ends, and its mark is final.                                    *)
LEMMA ForwardClearKeeps ==
    ASSUME IInv, NEW c \in Clients, ForwardClear(c)
    PROVE  IInv'
<1> USE DEF ForwardClear, store, receiver
<1>1. pc[c] = "forwardClear" /\ pc' = [pc EXCEPT ![c] = "idle"]
  BY DEF At
<1>2. cleared' \in {cleared, mark[c]} /\ cleared' \in 0 .. serial
  <2>1. {cleared, mark[c]} \in SUBSET Nat /\ {cleared, mark[c]} \subseteq 0 .. serial
    BY DEF IInv, Typed
  <2>2. Max({cleared, mark[c]}) \in {cleared, mark[c]}
    <3>1. \A a, b \in Nat : Max({a, b}) \in {a, b}
      BY DEF Max
    <3> QED
      BY <2>1, <3>1
  <2> QED
    BY <2>1, <2>2
<1>3. Typed'
  BY <1>1, <1>2 DEF IInv, Typed
<1>4. OnFile' = OnFile /\ Recs(file') = Recs(file)
  BY DEF OnFile, Recs
<1>5. Numbered' /\ ArrivalOrder' /\ Stored' /\ SameTimes'
  BY <1>4 DEF IInv, Numbered, ArrivalOrder, Ordered, Stored, SameTimes
<1>6. Carried' /\ OneDevice'
  BY DEF IInv, Typed, Carried, InHand, OneDevice
<1>7. Emptied'
  BY <1>1 DEF IInv, Typed, Emptied
<1>8. AtMostOneLeft'
  <2>1. AtMostOne(cleared')
    BY <1>1, <1>2 DEF IInv, AtMostOneLeft
  <2>2. ASSUME NEW d \in Clients, pc'[d] = "forwardClear"
        PROVE  AtMostOne(mark'[d])
    <3>1. pc[d] = "forwardClear" /\ mark'[d] = mark[d]
      BY <1>1, <2>2 DEF IInv, Typed
    <3> QED
      BY <3>1 DEF IInv, AtMostOneLeft
  <2> QED
    BY <1>4, <2>1, <2>2 DEF AtMostOneLeft, AtMostOne
<1> QED
  BY <1>3, <1>5, <1>6, <1>7, <1>8 DEF IInv

----------------------------------------------------------------------------
(* The insert and the append.                                              *)

(* A gap is a count.                                                       *)
LEMMA GapIsNat ==
    ASSUME NEW last \in Int, NEW seq \in Int
    PROVE  Gap(last, seq) \in Nat
<1>1. \A d \in Int : d % SeqSpace \in Nat
  BY WidthAssumption
<1> QED
  BY <1>1 DEF Gap

(* The counters after a packet.                                            *)
LEMMA CountedTypes ==
    ASSUME IInv, NEW p \in Packets, Counted(p), received < MaxReceived
    PROVE  /\ received' \in 0 .. MaxReceived /\ dropped' \in Nat
           /\ lastSeq' \in -1 .. (SeqSpace - 1)
<1>1. /\ received \in 0 .. MaxReceived /\ MaxReceived \in Nat
      /\ dropped \in Nat /\ lastSeq \in Int
  BY BoundAssumption, WidthAssumption DEF IInv, Typed
<1>2. p.seq \in 0 .. (SeqSpace - 1) /\ SeqSpace \in Nat /\ p.seq \in Int
  BY PacketAssumption, WidthAssumption
<1>3. Gap(lastSeq, p.seq) \in Nat
  BY <1>1, <1>2, GapIsNat
<1>4. received' \in 0 .. MaxReceived /\ lastSeq' \in -1 .. (SeqSpace - 1)
  BY <1>1, <1>2 DEF Counted
<1>5. dropped' \in Nat
  BY <1>1, <1>3 DEF Counted
<1> QED
  BY <1>4, <1>5

(* The record a packet becomes.                                            *)
LEMMA RecordOfPacket ==
    ASSUME IInv, NEW p \in Packets
    PROVE  Recorded(p) \in Records
<1>1. now \in Nat /\ serial + 1 \in Nat \ {0}
  <2>1. now \in 0 .. MaxTime /\ serial \in 0 .. MaxRecords
    BY DEF IInv, Typed
  <2> QED
    BY <2>1, BoundAssumption
<1>2. p \in [dev: Devices, seq: 0 .. (SeqSpace - 1), up: Nat,
             coll: BOOLEAN, clear: BOOLEAN]
  BY PacketAssumption
<1> QED
  BY <1>1, <1>2 DEF Recorded, Records

(* Inserting a record puts it at the end and prunes the front.             *)
LEMMA InsertedRecords ==
    ASSUME IInv, NEW r \in Records, r.n = serial + 1
    PROVE  /\ Pruned(Append(records, r)) \in Seq(Records)
           /\ Ordered(Pruned(Append(records, r)))
           /\ ToSet(Pruned(Append(records, r))) \subseteq ToSet(records) \union {r}
<1> DEFINE s == Append(records, r)
<1>1. records \in Seq(Records) /\ records \in Seq(Lines) /\ Ordered(records)
  BY DEF IInv, Typed, Lines, ArrivalOrder
<1>2. \A i \in 1 .. Len(records) : records[i] \in Records /\ records[i].n <= serial
  <2>1. \A i \in 1 .. Len(records) : records[i] \in ToSet(records)
    BY <1>1, Elements
  <2>2. serial \in Nat
    BY BoundAssumption DEF IInv, Typed
  <2> QED
    BY <1>1, <2>1, <2>2 DEF IInv, Numbered
<1>3. /\ s \in Seq(Records) /\ Len(s) = Len(records) + 1 /\ Len(records) \in Nat
      /\ \A i \in 1 .. Len(records) : s[i] = records[i]
      /\ s[Len(records) + 1] = r
  BY <1>1
<1> HIDE DEF s
<1>4. s \in Seq(Lines)
  BY <1>3 DEF Lines
<1>5. Ordered(s)
  <2> SUFFICES ASSUME NEW i \in 1 .. Len(s), NEW j \in 1 .. Len(s), i < j
               PROVE  s[i].n < s[j].n
    BY <1>4, OrderedLines
  <2>1. i \in 1 .. Len(records) /\ s[i] = records[i]
    BY <1>3
  <2>2. CASE j = Len(records) + 1
    <3>1. s[i].n <= serial /\ s[i].n \in Nat /\ serial \in Nat
      <4>1. serial \in Nat
        BY BoundAssumption DEF IInv, Typed
      <4>2. s[i] \in Records /\ s[i].n <= serial
        BY <1>2, <2>1
      <4> QED
        BY <4>1, <4>2 DEF Records
    <3>2. s[j].n = serial + 1
      BY <1>3, <2>2
    <3> QED
      BY <3>1, <3>2
  <2>3. CASE j \in 1 .. Len(records)
    BY <1>1, <1>2, <1>3, <2>1, <2>3, OrderedLines
  <2> QED
    BY <1>3, <2>2, <2>3
<1>6. ToSet(s) = ToSet(records) \union {r}
  BY <1>1, <1>3, Elements
<1> QED
  BY <1>3, <1>5, <1>6, PrunedRecords DEF s

(* A packet that is not stored changes the counters only.                  *)
LEMMA InsertNothingKeeps ==
    ASSUME IInv, Insert, UNCHANGED <<records, pending, serial, exposed>>,
           udpPc' = "recv"
    PROVE  IInv'
<1> USE DEF Insert, requests
<1>1. pkt \in Packets /\ hostname = pkt.dev /\ received < MaxReceived
  BY DEF IInv, Carried, InHand
<1>2. Typed'
  <2>1. /\ received' \in 0 .. MaxReceived /\ dropped' \in Nat
        /\ lastSeq' \in -1 .. (SeqSpace - 1)
    BY <1>1, CountedTypes
  <2>2. collecting' \in BOOLEAN
    BY <1>1, PacketAssumption
  <2>4. clears = 0 /\ pending = NoRecord
    BY DEF IInv, Typed
  <2> QED
    BY <1>1, <2>1, <2>2, <2>4 DEF IInv, Typed
<1>3. /\ Numbered' /\ ArrivalOrder' /\ Stored' /\ SameTimes' /\ AtMostOneLeft'
      /\ \A c \in Clients :
           pc'[c] = "clearFile" => \A r \in ToSet(records') : r.n \in exposed'
  <2>1. now' >= now
    BY DEF IInv, Typed
  <2>2. UNCHANGED <<records, file, pending, serial, exposed, cleared, mark, pc>>
    OBVIOUS
  <2> QED
    BY <1>2, <2>1, <2>2, Unmoved
<1>4. Carried' /\ Emptied' /\ OneDevice'
  BY <1>3 DEF IInv, Carried, InHand, Emptied, OneDevice
<1> QED
  BY <1>2, <1>3, <1>4 DEF IInv

(* A packet that is stored gets the next number, and a place in the        *)
(* store before it gets one on file.                                       *)
LEMMA InsertRecordKeeps ==
    ASSUME IInv, Insert, records' = Pruned(Append(records, Recorded(pkt))),
           pending' = Recorded(pkt), serial' = serial + 1, udpPc' = "append",
           exposed' = exposed \union (IF Overtaking THEN {serial + 1} ELSE {})
    PROVE  IInv'
<1> USE DEF Insert, requests
<1> DEFINE r == Recorded(pkt)
<1>1. /\ pkt \in Packets /\ hostname = pkt.dev /\ received < MaxReceived
      /\ serial < MaxRecords /\ serial \in Nat /\ clears = 0 /\ pending = NoRecord
      /\ now \in Nat
  BY BoundAssumption DEF IInv, Carried, InHand, Typed
<1>2. /\ r \in Records /\ r.n = serial + 1 /\ r.t = now /\ r.host = hostname
  BY <1>1, RecordOfPacket DEF Recorded
<1>3. /\ records' \in Seq(Records) /\ Ordered(records')
      /\ ToSet(records') \subseteq ToSet(records) \union {r}
  BY <1>2, InsertedRecords
<1>4. pending' = r /\ r # NoRecord
  BY <1>2, Sentinels
<1> HIDE DEF r
<1>5. OnFile = Recs(file) /\ OnFile' = OnFile \union {r} /\ Recs(file') = Recs(file)
  BY <1>1, <1>2, <1>4, Sentinels DEF OnFile, Recs
<1>6. \A l \in ToSet(records) \union OnFile : l.n \in 1 .. serial /\ l.t \in 0 .. now
  BY DEF IInv, Numbered
<1>7. Typed'
  <2>1. /\ received' \in 0 .. MaxReceived /\ dropped' \in Nat
        /\ lastSeq' \in -1 .. (SeqSpace - 1)
    BY <1>1, CountedTypes
  <2>2. collecting' \in BOOLEAN
    BY <1>1, PacketAssumption
  <2>4. /\ serial' \in 0 .. MaxRecords /\ cleared' \in 0 .. serial'
        /\ mark' \in [Clients -> 0 .. serial']
    <3>1. 0 .. serial \subseteq 0 .. serial'
      BY <1>1
    <3>2. serial' \in 0 .. MaxRecords
      BY <1>1, BoundAssumption
    <3> QED
      BY <3>1, <3>2 DEF IInv, Typed
  <2>5. pending' \in Records /\ clears' = 0
    BY <1>1, <1>2, <1>4
  <2> QED
    BY <1>1, <1>3, <1>4, <2>1, <2>2, <2>4, <2>5 DEF IInv, Typed
<1>8. Numbered'
  <2>1. \A l \in ToSet(records') \union OnFile' :
          l.n \in 1 .. serial' /\ l.t \in 0 .. now'
    BY <1>1, <1>2, <1>3, <1>5, <1>6
  <2>2. \A l \in Recs(file') : l.host = NoDevice /\ l.n < serial'
    BY <1>1, <1>5, <1>6 DEF IInv, Numbered
  <2>3. pending'.n = serial'
    BY <1>2, <1>4
  <2> QED
    BY <2>1, <2>2, <2>3 DEF Numbered
<1>9. ArrivalOrder'
  BY <1>3 DEF IInv, ArrivalOrder, Ordered
<1>10. Stored'
  <2>1. \A l \in ToSet(records) : l.n \in exposed' \/ \E k \in OnFile' : k.n = l.n
    BY <1>5 DEF IInv, Stored
  <2>2. r \in OnFile'
    BY <1>5
  <2> QED
    BY <1>3, <2>1, <2>2 DEF Stored
<1>11. Carried'
  BY DEF Carried, InHand
<1>12. Emptied'
  <2> SUFFICES ASSUME NEW c \in Clients, pc[c] = "clearFile", NEW l \in ToSet(records')
               PROVE  l.n \in exposed'
    BY DEF Emptied
  <2>1. serial + 1 \in exposed'
    BY DEF Overtaking
  <2>2. l \in ToSet(records) => l.n \in exposed
    BY DEF IInv, Emptied
  <2> QED
    BY <1>2, <1>3, <2>1, <2>2
<1>13. SameTimes'
  <2> SUFFICES ASSUME NEW k \in ToSet(records'), NEW l \in OnFile', k.n = l.n
               PROVE  k.t = l.t
    BY DEF SameTimes
  <2>1. CASE k = r
    BY <1>1, <1>2, <1>5, <1>6, <2>1
  <2>2. CASE k \in ToSet(records) /\ l = r
    BY <1>1, <1>2, <1>6, <2>2
  <2>3. CASE k \in ToSet(records) /\ l \in OnFile
    BY <2>3 DEF IInv, SameTimes
  <2> QED
    BY <1>3, <1>5, <2>1, <2>2, <2>3
<1>14. AtMostOneLeft'
  <2>1. ASSUME NEW m \in 0 .. serial, AtMostOne(m) PROVE AtMostOne(m)'
    <3>1. \A l \in OnFile' : l.n <= m => l \in OnFile
      BY <1>1, <1>2, <1>5
    <3> QED
      BY <2>1, <3>1 DEF AtMostOne
  <2>2. cleared \in 0 .. serial /\ cleared' = cleared /\ AtMostOne(cleared)
    BY DEF IInv, Typed, AtMostOneLeft
  <2>3. \A c \in Clients : pc'[c] = "forwardClear" =>
          mark[c] \in 0 .. serial /\ mark'[c] = mark[c] /\ AtMostOne(mark[c])
    BY DEF IInv, Typed, AtMostOneLeft
  <2> QED
    BY <2>1, <2>2, <2>3 DEF AtMostOneLeft, AtMostOne
<1>15. OneDevice'
  <2>1. \A l \in ToSet(records) : l.host \in {NoDevice, hostname}
    BY DEF IInv, OneDevice
  <2> QED
    BY <1>2, <1>3, <2>1 DEF OneDevice
<1> QED
  BY <1>7, <1>8, <1>9, <1>10, <1>11, <1>12, <1>13, <1>14, <1>15 DEF IInv

(* A packet is inserted.                                                   *)
LEMMA InsertKeeps ==
    ASSUME IInv, Insert
    PROVE  IInv'
  BY InsertNothingKeeps, InsertRecordKeeps DEF Insert

(* When the receiver is done with a record, with the file in order and     *)
(* holding nothing but what was, or was to be, there.                      *)
LEMMA AppendDone ==
    ASSUME IInv, udpPc = "append", udpPc' = "recv", pending' = NoRecord,
           file' \in Seq(Lines), Ordered(file'), faults' \in 0 .. MaxFaults,
           Recs(file) \subseteq Recs(file'),
           Recs(file') \subseteq Recs(file) \union {Persisted(pending)},
           Persisted(pending) \in Recs(file') \/ pending.n \in exposed',
           exposed \subseteq exposed',
           UNCHANGED <<store, hostname, pkt, clears, requests, serial, cleared, now>>
    PROVE  IInv'
<1> USE DEF store, requests
<1>1. /\ pending \in Records /\ pending.n = serial /\ serial \in Nat
      /\ OnFile = Recs(file) \union {pending} /\ OnFile' = Recs(file')
  <2>1. pending # NoRecord /\ pending \in Records
    BY DEF IInv, Typed
  <2>2. serial \in Nat
    BY BoundAssumption DEF IInv, Typed
  <2> QED
    BY <2>1, <2>2, Sentinels DEF OnFile, IInv, Numbered
<1>2. /\ Persisted(pending).n = pending.n /\ Persisted(pending).t = pending.t
      /\ Persisted(pending).host = NoDevice
  BY <1>1 DEF Persisted, Records
<1>3. \A l \in OnFile' : \E k \in OnFile : k.n = l.n /\ k.t = l.t
  BY <1>1, <1>2
<1>4. Typed'
  BY DEF IInv, Typed
<1>5. Numbered'
  <2>1. \A l \in Recs(file') : l.host = NoDevice
    BY <1>2 DEF IInv, Numbered
  <2> QED
    BY <1>3, <2>1 DEF IInv, Numbered
<1>6. ArrivalOrder'
  BY DEF IInv, ArrivalOrder, Ordered
<1>7. Stored'
  <2> SUFFICES ASSUME NEW k \in ToSet(records), k.n \notin exposed'
               PROVE  \E l \in OnFile' : l.n = k.n
    BY DEF Stored
  <2>1. PICK l \in OnFile : l.n = k.n
    BY DEF IInv, Stored
  <2>2. CASE l \in Recs(file)
    BY <1>1, <2>1, <2>2
  <2>3. CASE l = pending
    BY <1>1, <1>2, <2>1, <2>3
  <2> QED
    BY <1>1, <2>2, <2>3
<1>8. Carried' /\ Emptied' /\ OneDevice'
  BY DEF IInv, Carried, InHand, Emptied, OneDevice
<1>9. SameTimes'
  <2> SUFFICES ASSUME NEW k \in ToSet(records), NEW l \in OnFile', k.n = l.n
               PROVE  k.t = l.t
    BY DEF SameTimes
  <2>1. PICK q \in OnFile : q.n = l.n /\ q.t = l.t
    BY <1>3
  <2> QED
    BY <2>1 DEF IInv, SameTimes
<1>10. AtMostOneLeft'
  <2>1. AtMostOne(cleared)'
    <3>1. AtMostOne(cleared) /\ cleared' = cleared
      BY DEF IInv, AtMostOneLeft
    <3> QED
      BY <1>3, <3>1 DEF AtMostOne
  <2>2. ASSUME NEW c \in Clients, pc'[c] = "forwardClear"
        PROVE  AtMostOne(mark[c])'
    <3>1. AtMostOne(mark[c]) /\ mark' = mark
      BY <2>2 DEF IInv, AtMostOneLeft
    <3> QED
      BY <1>3, <3>1 DEF AtMostOne
  <2> QED
    BY <2>1, <2>2 DEF AtMostOneLeft
<1> QED
  BY <1>4, <1>5, <1>6, <1>7, <1>8, <1>9, <1>10 DEF IInv

(* A record is appended.                                                   *)
LEMMA AppendLineKeeps ==
    ASSUME IInv, AppendLine
    PROVE  IInv'
<1> USE DEF AppendLine
<1>1. /\ pending \in Records /\ file \in Seq(Lines) /\ Ordered(file)
      /\ \A l \in Recs(file) : l.n < pending.n
  <2>1. pending \in Records
    BY DEF IInv, Typed
  <2> QED
    BY <2>1 DEF IInv, Typed, Numbered, ArrivalOrder
<1>2. /\ file' \in Seq(Lines) /\ Ordered(file')
      /\ Recs(file) \subseteq Recs(file')
      /\ Recs(file') \subseteq Recs(file) \union {Persisted(pending)}
  BY <1>1, AppendedFile
<1>3. Persisted(pending) \in Recs(file') \/ pending.n \in exposed'
  <2> SUFFICES ASSUME pending.n \in Serials(ToSet(file'))
               PROVE  Persisted(pending) \in Recs(file')
    OBVIOUS
  <2>1. PICK l \in Recs(file') : l.n = pending.n
    BY <1>2, RecordSerials
  <2>2. l \notin Recs(file)
    BY <1>1, <2>1 DEF Records
  <2> QED
    BY <1>2, <2>2
<1>4. faults' \in 0 .. MaxFaults
  BY DEF IInv, Typed
<1> QED
  BY <1>2, <1>3, <1>4, AppendDone

(* An append fails.                                                        *)
LEMMA AppendFailsKeeps ==
    ASSUME IInv, AppendFails
    PROVE  IInv'
<1> USE DEF AppendFails
<1>1. file \in Seq(Lines) /\ Ordered(file)
  BY DEF IInv, Typed, ArrivalOrder
<1>2. file' \in Seq(Lines) /\ Ordered(file') /\ Recs(file') = Recs(file)
  BY <1>1, AppendedFragment
<1>3. faults' \in 0 .. MaxFaults
  BY BoundAssumption DEF IInv, Typed
<1> QED
  BY <1>2, <1>3, AppendDone

----------------------------------------------------------------------------
(* The restart.                                                            *)

(* What is common to the two ways a restart may go: a store that holds     *)
(* nothing but records on file, and a file that keeps its order.           *)
LEMMA Restarted ==
    ASSUME IInv, Restart, records' \in Seq(Records), Ordered(records'),
           file' \in Seq(Lines), Ordered(file'),
           ToSet(records') \subseteq Recs(file'), Recs(file') \subseteq Recs(file),
           latest' \in {NoPacket} \union Restorable, collecting' \in BOOLEAN,
           faults' \in 0 .. MaxFaults
    PROVE  IInv'
<1> USE DEF Restart, ghosts
<1>1. OnFile' = Recs(file') /\ OnFile' \subseteq OnFile
  BY Sentinels DEF OnFile
<1>2. \A c \in Clients : pc'[c] = "idle" /\ mark'[c] = 0
  OBVIOUS
<1>3. Typed'
  <2>1. /\ 0 \in 0 .. MaxReceived /\ -1 \in -1 .. (SeqSpace - 1) /\ 0 \in 0 .. serial
    BY BoundAssumption, WidthAssumption DEF IInv, Typed
  <2>2. /\ pc' \in [Clients -> {"idle", "clearStore", "clearFile", "forwardClear",
                                "forwardStart", "forwardStop"}]
        /\ address' \in [Clients -> Devices \union {NoDevice}]
        /\ mark' \in [Clients -> 0 .. serial]
    BY <2>1
  <2>3. received' = 0 /\ dropped' = 0 /\ lastSeq' = -1 /\ clears' = 0
    OBVIOUS
  <2>4. clears' \in 0 .. 2 /\ ~(clears' > 0) /\ dropped' \in Nat
    BY <2>3
  <2> QED
    BY <2>1, <2>2, <2>3, <2>4 DEF IInv, Typed
<1>4. Numbered'
  <2>1. \A l \in ToSet(records') \union OnFile' : l \in OnFile
    BY <1>1
  <2> QED
    BY <2>1 DEF IInv, Numbered
<1>5. ArrivalOrder'
  BY DEF ArrivalOrder, Ordered
<1>6. Stored'
  BY <1>1 DEF Stored
<1>7. Carried' /\ Emptied'
  BY <1>2 DEF Carried, InHand, Emptied
<1>8. SameTimes'
  BY <1>1, OrderedUnique DEF SameTimes
<1>9. AtMostOneLeft'
  BY <1>1, <1>2 DEF IInv, AtMostOneLeft, AtMostOne
<1>10. OneDevice'
  BY DEF IInv, Numbered, OneDevice
<1> QED
  BY <1>3, <1>4, <1>5, <1>6, <1>7, <1>8, <1>9, <1>10 DEF IInv

(* The last of the records a load kept.                                    *)
LEMMA PacketRead ==
    ASSUME NEW s \in Seq(Records), s # <<>>
    PROVE  PacketOf(Last(s)) \in Restorable
<1>1. Len(s) \in 1 .. Len(s) /\ Last(s) = s[Len(s)]
  BY DEF Last
<1>2. Last(s) \in Records
  BY <1>1
<1> QED
  BY <1>2 DEF PacketOf, Restorable, Records

(* The process dies and starts again.                                      *)
LEMMA RestartKeeps ==
    ASSUME IInv, Restart
    PROVE  IInv'
<1>1. file \in Seq(Lines) /\ Ordered(file) /\ faults \in 0 .. MaxFaults
  BY DEF IInv, Typed, ArrivalOrder
<1>2. CASE Load
  <2>1. PICK kept : kept = Restored(file)
    OBVIOUS
  <2>2. /\ kept \in Seq(Records) /\ kept \in Seq(Lines) /\ Ordered(kept)
        /\ ToSet(kept) \subseteq Recs(file) /\ Recs(kept) = ToSet(kept)
    <3>1. /\ kept \in Seq(Records) /\ Ordered(kept) /\ ToSet(kept) \subseteq Recs(file)
      BY <1>1, <2>1, RestoredRecords
    <3>2. kept \in Seq(Lines)
      BY <3>1 DEF Lines
    <3> QED
      BY <3>1, <3>2 DEF Recs
  <2>3. records' = kept /\ file' \in {kept, file} /\ faults' \in 0 .. MaxFaults
    BY <1>1, <1>2, <2>1, BoundAssumption DEF Load, Rewritten
  <2>4. latest' \in {NoPacket} \union Restorable
    BY <1>2, <2>1, <2>2, PacketRead DEF Load
  <2>5. collecting' \in BOOLEAN
    BY <1>2 DEF Load
  <2> QED
    BY <1>1, <2>2, <2>3, <2>4, <2>5, Restarted
<1>3. CASE LoadFails
  <2>1. /\ records' \in Seq(Records) /\ Ordered(records') /\ ToSet(records') = {}
        /\ file' = file /\ latest' = NoPacket /\ collecting' \in BOOLEAN
    BY <1>3, NoLines DEF LoadFails
  <2>2. faults' \in 0 .. MaxFaults
    BY <1>1, <1>3, BoundAssumption DEF LoadFails
  <2> QED
    BY <1>1, <2>1, <2>2, Restarted
<1> QED
  BY <1>2, <1>3 DEF Restart

----------------------------------------------------------------------------
(* The theorems.                                                           *)

(* A step that changes nothing keeps the invariant.                        *)
LEMMA StutterKeeps == IInv /\ UNCHANGED vars => IInv'
<1> SUFFICES ASSUME IInv, UNCHANGED vars PROVE IInv'
  OBVIOUS
<1> USE DEF vars, store, receiver, requests, ghosts
<1>1. Typed'
  BY DEF IInv, Typed
<1>2. /\ Numbered' /\ ArrivalOrder' /\ Stored' /\ SameTimes' /\ AtMostOneLeft'
      /\ \A c \in Clients :
           pc'[c] = "clearFile" => \A r \in ToSet(records') : r.n \in exposed'
  <2>1. now' >= now
    BY DEF IInv, Typed
  <2>2. UNCHANGED <<records, file, pending, serial, exposed, cleared, mark, pc>>
    OBVIOUS
  <2> QED
    BY <1>1, <2>1, <2>2, Unmoved
<1>3. Carried' /\ OneDevice' /\ Emptied'
  BY <1>2 DEF IInv, Carried, InHand, OneDevice, Emptied
<1> QED
  BY <1>1, <1>2, <1>3 DEF IInv

(* Every step keeps the invariant.                                         *)
LEMMA StepKeeps == IInv /\ [Next]_vars => IInv'
<1> SUFFICES ASSUME IInv, [Next]_vars PROVE IInv'
  OBVIOUS
<1>1. CASE Receiver
  BY <1>1, ReceiveKeeps, UdpClearStoreKeeps, UdpClearFileKeeps, InsertKeeps,
     AppendLineKeeps, AppendFailsKeeps DEF Receiver
<1>2. CASE \E c \in Clients : Request(c)
  BY <1>2, QuietRequestKeeps, ClearStoreKeeps, ClearFileKeeps, ForwardClearKeeps
     DEF Request
<1>3. CASE Tick
  BY <1>3, TickKeeps
<1>4. CASE Restart
  BY <1>4, RestartKeeps
<1>5. CASE UNCHANGED vars
  BY <1>5, StutterKeeps
<1> QED
  BY <1>1, <1>2, <1>3, <1>4, <1>5 DEF Next

(* The inductive invariant of the store, the file and their users: what is *)
(* numbered is in order, in memory means on file or in known danger, what  *)
(* is left from before a clear is one record, and the two histories agree. *)
THEOREM ServerInvariant == Spec => []IInv
<1>1. Init => IInv
  BY InitHolds
<1>2. IInv /\ [Next]_vars => IInv'
  BY StepKeeps
<1> QED
  BY <1>1, <1>2, PTL DEF Spec

(* Store and file stay within their types and in the order of arrival, and *)
(* no record in memory is missing on file but those a failed append or an  *)
(* overtaking truncation put at risk (store.rs, persist.rs, udp.rs).       *)
THEOREM ServerHistories == Spec => []HistoriesInv
<1>1. IInv => HistoriesInv
  <2> SUFFICES ASSUME IInv PROVE HistoriesInv
    OBVIOUS
  <2>1. TypeOK
    <3>1. received \in 0 .. (MaxReceived + 1)
      BY BoundAssumption DEF IInv, Typed
    <3>2. latest \in Packets \union {NoPacket} \/ latest.clear = FALSE
      BY DEF IInv, Typed, Restorable
    <3>3. \A r \in ToSet(records) : r.n \in 1 .. serial /\ r.t \in 0 .. now
      BY DEF IInv, Numbered
    <3>4. (clears > 0) = (udpPc \in {"clearStore", "clearFile"})
      BY DEF IInv, Typed
    <3>5. (pending # NoRecord) = (udpPc = "append")
      BY DEF IInv, Typed
    <3> QED
      BY <3>1, <3>2, <3>3, <3>4, <3>5 DEF IInv, Typed, TypeOK
  <2>2. StoredIsOnFile
    <3>1. records \in Seq(Records) /\ file \in Seq(Lines)
      BY DEF IInv, Typed
    <3>2. \A r \in ToSet(records) : r.n \in exposed \/ \E l \in OnFile : l.n = r.n
      BY DEF IInv, Stored
    <3>3. OnFile \subseteq {l \in ToSet(file) \union {pending} : IsRecord(l)}
      <4>1. \A l \in Records : IsRecord(l)
        BY Sentinels DEF Lines
      <4> QED
        BY <4>1 DEF OnFile, Recs
    <3> QED
      BY <3>1, <3>2, <3>3 DEF StoredIsOnFile, Serials
  <2> QED
    BY <2>1, <2>2 DEF HistoriesInv, IInv
<1> QED
  BY <1>1, ServerInvariant, PTL

(* Once a clear has run its course, whatever ran beside it, the file holds *)
(* at most one record from before it (http.rs post_clear, udp.rs).         *)
THEOREM ServerClear == Spec => []ClearLeavesAtMostOne
<1>1. IInv => ClearLeavesAtMostOne
  <2> SUFFICES ASSUME IInv PROVE ClearLeavesAtMostOne
    OBVIOUS
  <2> DEFINE S == {n \in Serials(ToSet(file)) : n <= cleared}
  <2>1. \A m, n \in S : m = n
    <3>1. Serials(ToSet(file)) = {l.n : l \in Recs(file)}
      BY RecordSerials DEF IInv, Typed
    <3>2. \A k, l \in Recs(file) : k.n <= cleared /\ l.n <= cleared => k.n = l.n
      BY DEF IInv, AtMostOneLeft, AtMostOne, OnFile
    <3> QED
      BY <3>1, <3>2
  <2> HIDE DEF S
  <2>2. Cardinality(S) \in {0, 1}
    <3>1. CASE S = {}
      BY <3>1, FS_EmptySet
    <3>2. CASE S # {}
      <4>1. PICK n : S = {n}
        BY <2>1, <3>2
      <4> QED
        BY <4>1, FS_Singleton
    <3> QED
      BY <3>1, <3>2
  <2> QED
    BY <2>2 DEF ClearLeavesAtMostOne, S
<1> QED
  BY <1>1, ServerInvariant, PTL

(* Outside the clear that a takeover owes, the ring holds live records of  *)
(* the present device only (udp.rs: a new hostname clears the store first).*)
THEOREM ServerOneDevice == Spec => []LiveRecordsOfOneDevice
<1>1. IInv => LiveRecordsOfOneDevice
  BY DEF IInv, Typed, OneDevice, LiveRecordsOfOneDevice
<1> QED
  BY <1>1, ServerInvariant, PTL

(* A restart that reads its file brings back every record of the window    *)
(* that was in memory and safely on file (main.rs, persist.rs load).       *)
THEOREM ServerRestart == Spec => RestartKeepsHistory
<1>1. ASSUME IInv, Restart, ~LoadFails, NEW r \in ToSet(records), InWindow(r.t),
             r.n \notin exposed \union {pending.n}
      PROVE  r.n \in Serials(ToSet(records'))
  <2>1. PICK l \in Recs(file) : l.n = r.n
    BY <1>1 DEF IInv, Stored, OnFile
  <2>2. InWindow(l.t)
    <3>1. l.t = r.t
      BY <1>1, <2>1 DEF IInv, SameTimes, OnFile
    <3> QED
      BY <1>1, <3>1
  <2>3. records' = Restored(file)
    BY <1>1 DEF Restart, Load
  <2>4. file \in Seq(Lines) /\ Ordered(file)
    BY <1>1 DEF IInv, Typed, ArrivalOrder
  <2>5. records' \in Seq(Records) /\ l \in ToSet(records')
    BY <2>1, <2>2, <2>3, <2>4, RestoredRecords
  <2>6. IsRecord(l)
    <3>1. l \in Records
      BY DEF Recs
    <3> QED
      BY <3>1, Sentinels DEF Lines
  <2> QED
    BY <2>1, <2>5, <2>6 DEF Serials
<1>2. IInv /\ [Next]_vars =>
        [Restart /\ ~LoadFails =>
          \A r \in ToSet(records) :
            InWindow(r.t) /\ r.n \notin exposed \union {pending.n}
              => r.n \in Serials(ToSet(records'))]_vars
  BY <1>1
<1> QED
  BY <1>2, ServerInvariant, PTL DEF Spec, RestartKeepsHistory

=============================================================================
