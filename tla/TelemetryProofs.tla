-------------------------- MODULE TelemetryProofs --------------------------
(* The device, the network and the server, for any number of packets,      *)
(* reboots, commands, clients and records.                                 *)
(*                                                                         *)
(* Every step is a step of Server, so what is proved of Server holds here. *)
(* What is added is about places in the order of sending: a packet and the *)
(* record made of it show the uptime and the number of their place, and as *)
(* long as nothing is overtaken the receiver has gone no further than the  *)
(* packet last in its hand.                                                *)
EXTENDS Telemetry, ServerProofs

Places == Nat \X Nat

\* The records in memory, on file or on their way there.
Held == ToSet(records) \union OnFile

\* The uptimes that packets and records show, with their places.
Sightings ==
    {<<origin[r.n], r.up>> : r \in Held}
        \union {<<d.place, d.packet.up>> : d \in net}
        \union (IF InHand THEN {<<inHand, pkt.up>>} ELSE {})

\* The number of the packet at a place.
SeqAt(b, i) == ((IF b = 1 THEN FirstSeq ELSE 0) + (i - 1)) % SeqSpace

\* A place at which a packet has been built.
Past(p) == p \in Places /\ p[1] >= 1 /\ p[2] \in 1..MaxSends /\ ~Before(<<boot, k>>, p)

Ranges ==
    /\ seq \in 0..(SeqSpace - 1) /\ up \in 0..MaxUp
    /\ deviceCollecting \in BOOLEAN /\ clearPending \in BOOLEAN
    /\ disturbed \in BOOLEAN
    /\ events \in 0..MaxEvents
    /\ boot \in 1..(events + 1) /\ k \in 0..MaxSends
    /\ origin \in Seq(Places) /\ Len(origin) = serial
    /\ seen \in Seq(Places)
    /\ inHand \in Places /\ since \in Places

\* A packet carries the number of its place.
Numbering ==
    /\ seq = SeqAt(boot, k + 1)
    /\ \A d \in net : /\ Past(d.place) /\ d.packet \in Packets
                      /\ d.packet.seq = SeqAt(d.place[1], d.place[2])
    /\ InHand => Past(inHand) /\ pkt.seq = SeqAt(inHand[1], inHand[2])

\* One packet, one uptime.
Uptimes ==
    /\ \A s \in Sightings : Past(s[1])
    /\ \A s, t \in Sightings : s[1] = t[1] => s[2] = t[2]

\* The receiver has gone forward only.
Forward ==
    ~disturbed =>
        /\ \A i, j \in 1..serial : i < j => ~Before(origin[j], origin[i])
        /\ \A i \in 1..serial : ~Before(inHand, origin[i])
        /\ \A i, j \in 1..Len(seen) : i < j => ~Before(seen[j], seen[i])
        /\ \A i \in 1..Len(seen) : ~Before(inHand, seen[i])

\* A live record is later than all before it.
Later ==
    ~disturbed =>
        \A r, q \in ToSet(records) :
            r.n < q.n /\ Live(q) => Before(origin[r.n], origin[q.n])

\* What the counters are made of.
Counters ==
    /\ \A i \in 1..Len(seen) : Past(seen[i])
    /\ seen = <<>> => lastSeq = -1 /\ dropped = 0
    /\ seen # <<>> => lastSeq = SeqAt(Last(seen)[1], Last(seen)[2])
    /\ DropsCounted

\* The way of the clear flag: raised, in flight, in the receiver's hand, done.
FlagOnItsWay ==
    \/ clearPending
    \/ \E d \in net : d.place = since /\ d.packet.clear
    \/ udpPc \in {"clearStore", "clearFile"} /\ inHand = since /\ pkt.clear
Clean ==
    /\ ~Before(inHand, since)
    /\ \A r \in Held : ~Before(origin[r.n], since)

Flagged ==
    /\ clearPending => since = <<boot, k + 1>>
    /\ ~disturbed /\ ~flagLost => FlagOnItsWay \/ Clean

TInv ==
    /\ IInv
    /\ Ranges
    /\ Numbering
    /\ Uptimes
    /\ Forward
    /\ Later
    /\ Counters
    /\ Flagged

----------------------------------------------------------------------------
(* Places and numbers.                                                     *)

(* The order of sending is a total one.                                    *)
LEMMA PlaceOrder ==
    ASSUME NEW p \in Places, NEW q \in Places, NEW r \in Places
    PROVE  /\ ~Before(p, p)
           /\ Before(p, q) \/ p = q \/ Before(q, p)
           /\ ~(Before(p, q) /\ Before(q, p))
           /\ Before(p, q) /\ ~Before(r, q) => Before(p, r)
           /\ ~Before(q, p) /\ Before(q, r) => Before(p, r)
           /\ ~Before(p, q) /\ ~Before(q, r) => ~Before(p, r)
<1>1. /\ p[1] \in Nat /\ p[2] \in Nat /\ p = <<p[1], p[2]>>
      /\ q[1] \in Nat /\ q[2] \in Nat /\ q = <<q[1], q[2]>>
      /\ r[1] \in Nat /\ r[2] \in Nat
  BY DEF Places
<1>2. p[1] = q[1] /\ p[2] = q[2] => p = q
  BY <1>1
<1> QED
  BY <1>1, <1>2 DEF Before

(* The bounds of the numbers, spelt out.                                   *)
LEMMA Widths ==
    /\ SeqSpace \in Nat /\ SeqSpace > 1 /\ SeqSpace \in Nat \ {0}
    /\ SeqSpace = 2 * (SeqSpace \div 2) /\ SeqSpace \div 2 \in Nat
    /\ MaxUp \in Nat /\ MaxSends \in Nat /\ MaxEvents \in Nat
    /\ MaxSends <= SeqSpace \div 2 /\ MaxSends < SeqSpace
    /\ FirstSeq \in 0 .. (SeqSpace - 1) /\ FirstUp \in 0 .. MaxUp
<1>1. SeqSpace = 2 * (SeqSpace \div 2) /\ SeqSpace \div 2 \in Nat
  BY WidthAssumption
<1> QED
  BY <1>1, WidthAssumption, TelemetryAssumption

(* The number at a place, without the modulus.                             *)
LEMMA SeqAtValue ==
    ASSUME NEW b \in Nat, NEW i \in 1 .. MaxSends + 1
    PROVE  LET c == IF b = 1 THEN FirstSeq ELSE 0
           IN  SeqAt(b, i) = IF c + (i - 1) < SeqSpace THEN c + (i - 1)
                                                      ELSE c + (i - 1) - SeqSpace
<1>1. PICK c : c = IF b = 1 THEN FirstSeq ELSE 0
  OBVIOUS
<1>2. c \in 0 .. SeqSpace - 1 /\ i - 1 \in 0 .. SeqSpace - 1
  BY <1>1, Widths
<1>3. (c + (i - 1)) % SeqSpace = IF c + (i - 1) < SeqSpace THEN c + (i - 1)
                                                        ELSE c + (i - 1) - SeqSpace
  BY <1>2, Widths, AheadInRing
<1> QED
  BY <1>1, <1>3 DEF SeqAt

(* Numbers are in their range, and follow one another.                     *)
LEMMA SeqAtRange ==
    ASSUME NEW b \in Nat, NEW i \in 1 .. MaxSends + 1
    PROVE  /\ SeqAt(b, i) \in 0 .. (SeqSpace - 1)
           /\ i <= MaxSends => SeqAt(b, i + 1) = NextSeq(SeqAt(b, i))
<1>1. PICK c : c = IF b = 1 THEN FirstSeq ELSE 0
  OBVIOUS
<1>2. c \in 0 .. SeqSpace - 1
  BY <1>1, Widths
<1>3. SeqAt(b, i) = IF c + (i - 1) < SeqSpace THEN c + (i - 1)
                                             ELSE c + (i - 1) - SeqSpace
  BY <1>1, SeqAtValue
<1>4. SeqAt(b, i) \in 0 .. (SeqSpace - 1)
  BY <1>2, <1>3, Widths
<1>5. ASSUME i <= MaxSends PROVE SeqAt(b, i + 1) = NextSeq(SeqAt(b, i))
  <2>1. i + 1 \in 1 .. MaxSends + 1 /\ (i + 1) - 1 = i
    BY <1>5, Widths
  <2>2. SeqAt(b, i + 1) = IF c + i < SeqSpace THEN c + i ELSE c + i - SeqSpace
    BY <1>1, <2>1, SeqAtValue
  <2>3. NextSeq(SeqAt(b, i)) =
          IF SeqAt(b, i) = SeqSpace - 1 THEN 0 ELSE SeqAt(b, i) + 1
    BY <1>4, Widths, NextInRing DEF NextSeq
  <2> QED
    BY <1>2, <1>3, <2>2, <2>3, Widths
<1> QED
  BY <1>4, <1>5

(* The gap between the numbers of two places of a boot counts the places   *)
(* between them; it is none from one place to itself or an earlier one.    *)
LEMMA GapBetween ==
    ASSUME NEW b \in Nat, NEW i \in 1 .. MaxSends, NEW j \in 1 .. MaxSends
    PROVE  Gap(SeqAt(b, i), SeqAt(b, j)) = IF i < j THEN (j - i) - 1 ELSE 0
<1>1. PICK c : c = IF b = 1 THEN FirstSeq ELSE 0
  OBVIOUS
<1>2. c \in 0 .. SeqSpace - 1
  BY <1>1, Widths
<1>3. PICK x, y : x = SeqAt(b, i) /\ y = SeqAt(b, j)
  OBVIOUS
<1>4. /\ x = IF c + (i - 1) < SeqSpace THEN c + (i - 1) ELSE c + (i - 1) - SeqSpace
      /\ y = IF c + (j - 1) < SeqSpace THEN c + (j - 1) ELSE c + (j - 1) - SeqSpace
  <2>1. i \in 1 .. MaxSends + 1 /\ j \in 1 .. MaxSends + 1
    BY Widths
  <2> QED
    BY <1>1, <1>3, <2>1, SeqAtValue
<1>5. x \in 0 .. SeqSpace - 1 /\ y \in 0 .. SeqSpace - 1
  BY <1>2, <1>4, Widths
<1>6. (y - (x + 1)) % SeqSpace = IF x + 1 <= y THEN y - (x + 1)
                                              ELSE y - (x + 1) + SeqSpace
  <2>1. x + 1 \in 1 .. SeqSpace
    BY <1>5, Widths
  <2> QED
    BY <1>5, <2>1, Widths, BackInRing
<1>7. (y - (x + 1)) % SeqSpace = IF i < j THEN (j - i) - 1
                                         ELSE (j - i) - 1 + SeqSpace
  BY <1>2, <1>4, <1>6, Widths
<1>8. CASE i < j
  <2>1. (j - i) - 1 < SeqSpace \div 2
    BY Widths
  <2> QED
    BY <1>3, <1>7, <1>8, <2>1 DEF Gap
<1>9. CASE ~(i < j)
  <2>1. ~((j - i) - 1 + SeqSpace < SeqSpace \div 2)
    BY <1>9, Widths
  <2> QED
    BY <1>3, <1>7, <1>9, <2>1 DEF Gap
<1> QED
  BY <1>8, <1>9

----------------------------------------------------------------------------
(* What steps have in common.                                              *)

\* Sending goes on: the next place is no earlier than it was.
Onward ==
    /\ boot' \in Nat /\ boot' >= 1 /\ k' \in 0..MaxSends
    /\ ~Before(<<boot', k'>>, <<boot, k>>)

(* As when nothing is sent.                                                *)
LEMMA SamePlace ==
    ASSUME Ranges, UNCHANGED <<boot, k>>
    PROVE  Onward
  BY Widths DEF Ranges, Onward, Before

(* A place that was past is past.                                          *)
LEMMA PastKept ==
    ASSUME Ranges, Onward
    PROVE  \A p : Past(p) => Past(p)'
<1>1. <<boot, k>> \in Places /\ <<boot', k'>> \in Places
  BY Widths DEF Ranges, Onward, Places
<1>2. ASSUME NEW p, Past(p) PROVE Past(p)'
  <2>1. p \in Places /\ ~Before(<<boot, k>>, p)
    BY <1>2 DEF Past
  <2>2. ~Before(<<boot', k'>>, p)
    BY <1>1, <2>1, PlaceOrder DEF Onward
  <2> QED
    BY <1>2, <2>2 DEF Past
<1> QED
  BY <1>2

\* Nothing is held that was not, but for the host and whether it is on file.
HeldBefore == \A r \in Held' : \E q \in Held : q.n = r.n /\ q.up = r.up

\* What the receiver has in its hand it had, or it was in flight.
InHandBefore ==
    InHand' => \/ InHand /\ inHand' = inHand /\ pkt' = pkt
               \/ \E d \in net : inHand' = d.place /\ pkt' = d.packet

(* Then no packet or record shows anything new.                            *)
LEMMA NothingNew ==
    ASSUME Ranges, Onward, Uptimes, UNCHANGED origin, HeldBefore, InHandBefore,
           net' \subseteq net
    PROVE  Uptimes'
<1>1. Sightings' \subseteq Sightings
  <2>1. \A r \in Held' : <<origin'[r.n], r.up>> \in Sightings
    BY DEF HeldBefore, Sightings
  <2>2. \A d \in net' : <<d.place, d.packet.up>> \in Sightings
    BY DEF Sightings
  <2>3. InHand' => <<inHand', pkt'.up>> \in Sightings
    BY DEF InHandBefore, Sightings
  <2> QED
    BY <2>1, <2>2, <2>3 DEF Sightings
<1>2. \A p : Past(p) => Past(p)'
  BY PastKept
<1> QED
  BY <1>1, <1>2 DEF Uptimes

(* And each packet still carries the number of its place.                  *)
LEMMA NumberingKept ==
    ASSUME Ranges, Onward, Numbering, InHandBefore, net' \subseteq net,
           seq' = SeqAt(boot', k' + 1)
    PROVE  Numbering'
<1>1. \A p : Past(p) => Past(p)'
  BY PastKept
<1>2. \A d \in net' : /\ Past(d.place)' /\ d.packet \in Packets
                      /\ d.packet.seq = SeqAt(d.place[1], d.place[2])
  BY <1>1 DEF Numbering
<1>3. InHand' => Past(inHand)' /\ pkt'.seq = SeqAt(inHand'[1], inHand'[2])
  BY <1>1 DEF Numbering, InHandBefore
<1> QED
  BY <1>2, <1>3 DEF Numbering

(* The counters stand still,                                               *)
LEMMA CountersKept ==
    ASSUME Ranges, Onward, Counters, disturbed => disturbed',
           UNCHANGED <<seen, lastSeq, dropped>>
    PROVE  Counters'
<1>1. \A p : Past(p) => Past(p)'
  BY PastKept
<1>2. DropsCounted'
  BY DEF Ranges, Counters, DropsCounted, OneBoot, Missing, Numbers
<1> QED
  BY <1>1, <1>2 DEF Counters

(* or begin anew.                                                         *)
LEMMA CountersBegin ==
    ASSUME seen' = <<>>, lastSeq' = -1, dropped' = 0
    PROVE  Counters'
<1>1. Len(seen') = 0
  OBVIOUS
<1> QED
  BY <1>1 DEF Counters, DropsCounted

(* A step of the device, which leaves the server alone, or the loss of a   *)
(* datagram.                                                               *)
LEMMA ServerAlone ==
    ASSUME TInv, Onward, Ranges', UNCHANGED <<vars, inHand, origin, seen, disturbed>>
    PROVE  /\ IInv' /\ Forward' /\ Later' /\ Counters'
           /\ HeldBefore /\ InHandBefore /\ Held' = Held
<1> USE DEF vars, store, receiver, requests, ghosts
<1>1. IInv'
  BY StutterKeeps DEF TInv
<1>2. Forward' /\ Later'
  BY DEF TInv, Forward, Later, Live
<1>3. Counters'
  BY CountersKept DEF TInv
<1>4. Held' = Held
  BY DEF Held, OnFile, Recs
<1>5. HeldBefore /\ InHandBefore
  BY <1>4 DEF HeldBefore, InHandBefore, InHand
<1> QED
  BY <1>1, <1>2, <1>3, <1>4, <1>5

----------------------------------------------------------------------------
(* The device.                                                             *)

(* What the device builds is a packet with the number of its place.        *)
LEMMA BuiltPacket ==
    ASSUME TInv
    PROVE  Built \in Packets /\ Built.seq = SeqAt(boot, k + 1) /\ Built.up = up
<1>1. Built \in [dev: {Device}, seq: 0..(SeqSpace - 1), up: 0..MaxUp, coll: BOOLEAN,
                 clear: BOOLEAN]
  BY DEF TInv, Ranges, Built
<1> QED
  BY <1>1, TelemetryAssumption DEF TInv, Numbering, Built

(* The next place is after all at which packets have been built.           *)
LEMMA NextPlace ==
    ASSUME TInv, k < MaxSends
    PROVE  /\ <<boot, k + 1>> \in Places
           /\ ~Past(<<boot, k + 1>>)
<1>1. boot \in Nat /\ boot >= 1 /\ k \in Nat /\ k + 1 \in 1 .. MaxSends
  BY Widths DEF TInv, Ranges
<1>2. <<boot, k + 1>> \in Places
  BY <1>1 DEF Places
<1>3. ~Past(<<boot, k + 1>>)
  BY <1>1 DEF Past, Before
<1> QED
  BY <1>2, <1>3

(* A packet is built, and goes out or not.                                 *)
LEMMA SendKeeps ==
    ASSUME TInv, NEW ok \in BOOLEAN, Send(ok)
    PROVE  TInv'
<1> USE DEF Send
<1>1. boot \in Nat /\ boot >= 1 /\ k \in Nat /\ k' = k + 1 /\ k + 1 \in 1 .. MaxSends
  BY Widths DEF TInv, Ranges
<1>2. Onward
  BY <1>1 DEF Onward, Before
<1>3. PICK new, at : at = <<boot, k + 1>> /\ new = [place |-> at, packet |-> Built]
  OBVIOUS
<1>4. net' = IF ok THEN net \union {new} ELSE net
  BY <1>3
<1>5. seq' = SeqAt(boot', k' + 1) /\ seq' \in 0 .. (SeqSpace - 1)
  <2>1. seq = SeqAt(boot, k + 1)
    BY DEF TInv, Numbering
  <2>2. k + 1 \in 1 .. MaxSends + 1 /\ k + 1 <= MaxSends
    BY <1>1, Widths
  <2>3. seq' = SeqAt(boot, (k + 1) + 1)
    BY <1>1, <2>1, <2>2, SeqAtRange
  <2>4. (k + 1) + 1 \in 1 .. MaxSends + 1
    BY <1>1, Widths
  <2>5. SeqAt(boot, (k + 1) + 1) \in 0 .. (SeqSpace - 1)
    BY <1>1, <2>4, SeqAtRange
  <2> QED
    BY <1>1, <2>3, <2>5
<1>6. Ranges'
  <2>1. up' \in 0 .. MaxUp /\ k' \in 0 .. MaxSends
    BY <1>1, Widths DEF TInv, Ranges
  <2>2. clearPending' \in BOOLEAN
    BY DEF TInv, Ranges
  <2>3. serial' = serial
    BY DEF vars, ghosts
  <2> QED
    BY <1>5, <2>1, <2>2, <2>3 DEF TInv, Ranges
<1>7. /\ IInv' /\ Forward' /\ Later' /\ Counters'
      /\ HeldBefore /\ InHandBefore /\ Held' = Held
  BY <1>2, <1>6, ServerAlone
<1>8. \A p : Past(p) => Past(p)'
  BY <1>2, PastKept DEF TInv
<1>9. Past(at)' /\ ~Past(at)
  <2>1. at \in Places /\ ~Past(at)
    BY <1>1, <1>3, NextPlace
  <2>2. at[1] = boot' /\ at[2] = k'
    BY <1>1, <1>3
  <2> QED
    BY <1>1, <2>1, <2>2 DEF Past, Before
<1>10. Numbering'
  <2>1. \A d \in net : /\ Past(d.place)' /\ d.packet \in Packets
                       /\ d.packet.seq = SeqAt(d.place[1], d.place[2])
    BY <1>8 DEF TInv, Numbering
  <2>2. /\ Past(new.place)' /\ new.packet \in Packets
        /\ new.packet.seq = SeqAt(new.place[1], new.place[2])
    BY <1>3, <1>9, BuiltPacket DEF TInv, Ranges
  <2>3. InHand' => Past(inHand)' /\ pkt'.seq = SeqAt(inHand'[1], inHand'[2])
    BY <1>8 DEF TInv, Numbering, InHand, vars, receiver
  <2> QED
    BY <1>4, <1>5, <2>1, <2>2, <2>3 DEF Numbering
<1>11. Uptimes'
  <2>1. Sightings' \subseteq Sightings \union {<<at, up>>}
    <3>1. \A r \in Held' : <<origin'[r.n], r.up>> \in Sightings
      BY <1>7 DEF Sightings
    <3>2. \A d \in net' : <<d.place, d.packet.up>>
                            \in Sightings \union {<<at, up>>}
      BY <1>3, <1>4, BuiltPacket DEF Sightings
    <3>3. InHand' => <<inHand', pkt'.up>> \in Sightings
      BY DEF Sightings, InHand, vars, receiver
    <3> QED
      BY <3>1, <3>2, <3>3 DEF Sightings
  <2>2. \A s \in Sightings : s[1] # at /\ Past(s[1])'
    BY <1>8, <1>9 DEF TInv, Uptimes
  <2> QED
    BY <1>9, <2>1, <2>2 DEF TInv, Uptimes
<1>12. Flagged'
  <2>1. clearPending' = FALSE /\ since' = since
    BY DEF TInv, Ranges
  <2>2. ASSUME ~disturbed', ~flagLost' PROVE FlagOnItsWay' \/ Clean'
    <3>1. ~disturbed /\ ~flagLost /\ (clearPending => ok)
      BY <2>2
    <3>2. CASE clearPending
      <4>1. new \in net' /\ new.place = since' /\ new.packet.clear
        BY <1>3, <1>4, <2>1, <3>1, <3>2 DEF TInv, Flagged, Built
      <4> QED
        BY <4>1 DEF FlagOnItsWay
    <3>3. CASE \E d \in net : d.place = since /\ d.packet.clear
      BY <1>4, <2>1, <3>3 DEF FlagOnItsWay
    <3>4. CASE udpPc \in {"clearStore", "clearFile"} /\ inHand = since /\ pkt.clear
      BY <3>4 DEF FlagOnItsWay, vars, receiver
    <3>5. CASE Clean
      BY <1>7, <3>5 DEF Clean
    <3> QED
      BY <3>1, <3>2, <3>3, <3>4, <3>5 DEF TInv, Flagged, FlagOnItsWay
  <2> QED
    BY <2>1, <2>2 DEF Flagged
<1> QED
  BY <1>6, <1>7, <1>10, <1>11, <1>12 DEF TInv

(* The device does something else: nothing new is sent.                    *)
LEMMA NoPacketBuilt ==
    ASSUME TInv, Onward, Ranges', UNCHANGED <<vars, inHand, origin, seen, disturbed>>,
           seq' = SeqAt(boot', k' + 1), net' \subseteq net,
           Flagged'
    PROVE  TInv'
<1>1. /\ IInv' /\ Forward' /\ Later' /\ Counters'
      /\ HeldBefore /\ InHandBefore /\ Held' = Held
  BY ServerAlone
<1>2. Numbering'
  BY <1>1, NumberingKept DEF TInv
<1>3. Uptimes'
  BY <1>1, NothingNew DEF TInv
<1> QED
  BY <1>1, <1>2, <1>3 DEF TInv

\* Nothing that the clear flag depends on has changed.
FlagAlone ==
    UNCHANGED <<clearPending, since, boot, k, net, flagLost, disturbed, inHand, origin,
                records, file, pending, udpPc, pkt>>

(* Then the flag is where it was.                                          *)
LEMMA FlagAloneKeeps ==
    ASSUME TInv, FlagAlone
    PROVE  Flagged'
<1>1. Held' = Held
  BY DEF FlagAlone, Held, OnFile, Recs
<1> QED
  BY <1>1 DEF TInv, FlagAlone, Flagged, FlagOnItsWay, Clean

(* A second without a server, or a collection command.                     *)
LEMMA QuietDeviceKeeps ==
    ASSUME TInv, Unsent \/ \E enabled \in BOOLEAN : CollectionOnDevice(enabled)
    PROVE  TInv'
<1> USE DEF Unsent, CollectionOnDevice, Event, places
<1>1. Onward
  BY SamePlace DEF TInv
<1>2. Ranges'
  BY Widths DEF TInv, Ranges, vars, ghosts
<1>3. Flagged'
  <2>1. FlagAlone
    BY DEF FlagAlone, vars, store, receiver
  <2> QED
    BY <2>1, FlagAloneKeeps
<1>4. seq' = SeqAt(boot', k' + 1)
  BY DEF TInv, Numbering
<1> QED
  BY <1>1, <1>2, <1>3, <1>4, NoPacketBuilt

(* The device clears its history: the flag is raised.                      *)
LEMMA ClearOnDeviceKeeps ==
    ASSUME TInv, ClearOnDevice
    PROVE  TInv'
<1> USE DEF ClearOnDevice, Event, Cleared
<1>1. Onward
  BY SamePlace DEF TInv
<1>2. Ranges'
  <2>1. <<boot, k + 1>> \in Places
    BY Widths DEF TInv, Ranges, Places
  <2>2. events' \in 0 .. MaxEvents /\ boot \in 1 .. (events' + 1)
    BY Widths DEF TInv, Ranges
  <2>3. serial' = serial
    BY DEF vars, ghosts
  <2> QED
    BY <2>1, <2>2, <2>3 DEF TInv, Ranges
<1>3. Flagged'
  BY DEF Flagged, FlagOnItsWay
<1>4. seq' = SeqAt(boot', k' + 1)
  BY DEF TInv, Numbering
<1> QED
  BY <1>1, <1>2, <1>3, <1>4, NoPacketBuilt

(* The device starts again; a flag it had not sent is gone.                *)
LEMMA RebootDeviceKeeps ==
    ASSUME TInv, RebootDevice
    PROVE  TInv'
<1> USE DEF RebootDevice, Event
<1>1. Onward
  BY Widths DEF TInv, Ranges, Onward, Before
<1>2. Ranges'
  <2>1. /\ seq' \in 0 .. (SeqSpace - 1) /\ up' \in 0 .. MaxUp /\ k' \in 0 .. MaxSends
        /\ events' \in 0 .. MaxEvents /\ boot' \in 1 .. (events' + 1)
    BY Widths DEF TInv, Ranges
  <2>2. clearPending' \in BOOLEAN
    BY DEF TInv, Ranges
  <2>3. serial' = serial
    BY DEF vars, ghosts
  <2> QED
    BY <2>1, <2>2, <2>3 DEF TInv, Ranges
<1>3. Flagged'
  <2>1. Held' = Held
    BY DEF Held, OnFile, Recs, vars, store, receiver
  <2> QED
    BY <2>1 DEF TInv, Flagged, FlagOnItsWay, Clean, vars, receiver
<1>4. seq' = SeqAt(boot', k' + 1)
  <2>1. 1 \in 1 .. MaxSends + 1 /\ boot + 1 \in Nat /\ boot + 1 # 1
    BY Widths DEF TInv, Ranges
  <2>2. SeqAt(boot + 1, 1) = 0
    BY <2>1, Widths, SeqAtValue
  <2> QED
    BY <2>2
<1> QED
  BY <1>1, <1>2, <1>3, <1>4, NoPacketBuilt

----------------------------------------------------------------------------
(* The network.                                                            *)

(* A datagram is lost, with the flag it may carry.                         *)
LEMMA LoseKeeps ==
    ASSUME TInv, NEW d \in net, Lose(d)
    PROVE  TInv'
<1> USE DEF Lose
<1>1. Onward
  BY SamePlace DEF TInv
<1>2. net' \subseteq net /\ UNCHANGED <<vars, inHand, origin, seen, disturbed>>
  OBVIOUS
<1>3. Ranges'
  <2>1. serial' = serial
    BY DEF vars, ghosts
  <2> QED
    BY <2>1 DEF TInv, Ranges, device
<1>4. Flagged'
  <2>1. Held' = Held
    BY DEF Held, OnFile, Recs, vars, store, receiver
  <2>2. ASSUME ~flagLost' PROVE ~flagLost /\ \A e \in net : e.packet.clear => e \in net'
    BY <2>2
  <2>3. UNCHANGED <<clearPending, since, boot, k, disturbed, inHand, origin, udpPc, pkt>>
    BY DEF device, vars, receiver
  <2> QED
    BY <2>1, <2>2, <2>3 DEF TInv, Flagged, FlagOnItsWay, Clean
<1>5. seq' = SeqAt(boot', k' + 1)
  BY DEF TInv, Numbering, device
<1> QED
  BY <1>1, <1>2, <1>3, <1>4, <1>5, NoPacketBuilt

(* A datagram, or a copy of it, comes to the receiver.                     *)
LEMMA DeliverKeeps ==
    ASSUME TInv, NEW d \in net, Deliver(d)
    PROVE  TInv'
<1> USE DEF Deliver
<1>1. d.packet \in Packets /\ Past(d.place) /\ d.place \in Places
  BY DEF TInv, Numbering, Past
<1>2. /\ IInv' /\ udpPc = "recv"
      /\ UNCHANGED <<store, file, pending, requests, ghosts, now, faults>>
  BY <1>1, ReceiveKeeps DEF TInv, Receive
<1>3. /\ UNCHANGED <<seq, boot, k, origin, since, seen, flagLost, clearPending>>
      /\ inHand' = d.place /\ pkt' = d.packet /\ net' \subseteq net
      /\ net \ {d} \subseteq net'
  BY DEF Receive, device
<1>4. Onward
  BY <1>3, SamePlace DEF TInv
<1>5. disturbed' <=> disturbed \/ Before(d.place, inHand)
  OBVIOUS
<1>6. Ranges'
  <2>1. disturbed' \in BOOLEAN
    BY DEF TInv, Ranges, Before
  <2>2. serial' = serial
    BY <1>2 DEF ghosts
  <2> QED
    BY <1>1, <1>3, <2>1, <2>2 DEF TInv, Ranges, device
<1>7. Held' = Held
  BY <1>2 DEF Held, OnFile, Recs, store
<1>8. HeldBefore /\ InHandBefore
  BY <1>3, <1>7 DEF HeldBefore, InHandBefore
<1>9. Numbering' /\ Uptimes'
  <2>1. seq' = SeqAt(boot', k' + 1)
    BY <1>3 DEF TInv, Numbering
  <2> QED
    BY <1>3, <1>4, <1>8, <2>1, NumberingKept, NothingNew DEF TInv
<1>10. Forward'
  <2>1. ASSUME ~disturbed' PROVE ~disturbed /\ ~Before(d.place, inHand)
    BY <1>5, <2>1
  <2>2. ASSUME ~disturbed', NEW p \in Places, ~Before(inHand, p)
        PROVE  ~Before(d.place, p)
    <3>1. inHand \in Places
      BY DEF TInv, Ranges
    <3> QED
      BY <1>1, <2>1, <2>2, <3>1, PlaceOrder
  <2>3. /\ \A i \in 1 .. serial : origin[i] \in Places
        /\ \A i \in 1 .. Len(seen) : seen[i] \in Places
    BY DEF TInv, Ranges
  <2>4. serial' = serial
    BY <1>2 DEF ghosts
  <2> QED
    BY <1>3, <2>1, <2>2, <2>3, <2>4 DEF TInv, Forward
<1>11. Later'
  BY <1>2, <1>3, <1>5 DEF TInv, Later, Live, store
<1>12. Counters'
  BY <1>2, <1>3, <1>4, <1>5, CountersKept DEF TInv, store
<1>13. Flagged'
  <2>1. ASSUME ~disturbed', ~flagLost' PROVE FlagOnItsWay' \/ Clean'
    <3>1. FlagOnItsWay \/ Clean
      BY <1>3, <1>5, <2>1 DEF TInv, Flagged
    <3>2. CASE clearPending
      BY <1>3, <3>2 DEF FlagOnItsWay
    <3>3. CASE \E e \in net : e.place = since /\ e.packet.clear
      <4>1. PICK e \in net : e.place = since /\ e.packet.clear
        BY <3>3
      <4>2. CASE e = d
        <5>1. ClearsOwed(d.packet) > 0
          BY <4>1, <4>2 DEF ClearsOwed
        <5>2. udpPc' = "clearStore"
          BY <5>1 DEF Receive
        <5> QED
          BY <1>3, <4>1, <4>2, <5>2 DEF FlagOnItsWay
      <4>3. CASE e # d
        BY <1>3, <4>1, <4>3 DEF FlagOnItsWay
      <4> QED
        BY <4>2, <4>3
    <3>4. CASE Clean
      <4>1. inHand \in Places /\ since \in Places
        BY DEF TInv, Ranges
      <4>2. ~Before(d.place, since)
        BY <1>1, <1>5, <2>1, <3>4, <4>1, PlaceOrder DEF Clean
      <4> QED
        BY <1>3, <1>7, <3>4, <4>2 DEF Clean
    <3> QED
      BY <1>2, <3>1, <3>2, <3>3, <3>4 DEF FlagOnItsWay
  <2> QED
    BY <1>3, <2>1 DEF TInv, Flagged
<1> QED
  BY <1>2, <1>6, <1>9, <1>10, <1>11, <1>12, <1>13 DEF TInv

----------------------------------------------------------------------------
(* Steps of the server that take no sample.                                *)

\* The packets in flight and the samples taken are as they were.
NoSample ==
    /\ UNCHANGED <<seq, up, boot, k, net, origin, serial, inHand, disturbed>>
    /\ seen' \in {seen, <<>>}
    /\ InHand' => InHand /\ pkt' = pkt
    /\ HeldBefore
    /\ \/ ToSet(records') \subseteq ToSet(records)
       \/ \A r \in ToSet(records') : ~Live(r)

(* Then the order of what is there is not disturbed.                       *)
LEMMA NoSampleKeeps ==
    ASSUME TInv, NoSample, IInv', Ranges', Counters', Flagged'
    PROVE  TInv'
<1> USE DEF NoSample
<1>1. Onward
  BY SamePlace DEF TInv
<1>2. InHandBefore /\ seq' = SeqAt(boot', k' + 1)
  BY DEF InHandBefore, TInv, Numbering
<1>3. Numbering' /\ Uptimes'
  BY <1>1, <1>2, NumberingKept, NothingNew DEF TInv
<1>4. Forward'
  <2>1. CASE seen' = seen
    BY <2>1 DEF TInv, Forward
  <2>2. CASE seen' = <<>>
    <3>1. 1 .. Len(seen') = {}
      BY <2>2
    <3> QED
      BY <3>1 DEF TInv, Forward
  <2> QED
    BY <2>1, <2>2
<1>5. Later'
  <2>1. CASE ToSet(records') \subseteq ToSet(records)
    BY <2>1 DEF TInv, Later, Live
  <2>2. CASE \A r \in ToSet(records') : ~Live(r)
    BY <2>2 DEF Later, Live
  <2> QED
    BY <2>1, <2>2
<1> QED
  BY <1>3, <1>4, <1>5 DEF TInv

(* What is held is less than it was, or the same.                          *)
LEMMA LessHeld ==
    ASSUME IInv, pending' = pending,
           records' \in {records, <<>>}, file' \in {file, <<>>}
    PROVE  /\ Held' \subseteq Held /\ HeldBefore
           /\ ToSet(records') \subseteq ToSet(records)
<1>1. ToSet(records') \subseteq ToSet(records) /\ Recs(file') \subseteq Recs(file)
  BY NoLines
<1>2. OnFile' \subseteq OnFile
  BY <1>1 DEF OnFile
<1>3. Held' \subseteq Held
  BY <1>1, <1>2 DEF Held
<1> QED
  BY <1>1, <1>3 DEF HeldBefore

\* The flag is where it was, and what is held is less than it was.
FlagKept ==
    /\ UNCHANGED <<clearPending, since, boot, k, net, origin, disturbed, inHand>>
    /\ ~flagLost' => ~flagLost
    /\ Held' \subseteq Held
    /\ udpPc \in {"clearStore", "clearFile"} /\ pkt.clear
         => flagLost' \/ (udpPc' \in {"clearStore", "clearFile"} /\ pkt' = pkt)

(* Then what was on its way still is, and what was clean too.              *)
LEMMA FlagKeptKeeps ==
    ASSUME TInv, FlagKept
    PROVE  Flagged'
<1>1. ASSUME ~disturbed', ~flagLost' PROVE FlagOnItsWay' \/ Clean'
  <2>1. FlagOnItsWay \/ Clean
    BY <1>1 DEF TInv, Flagged, FlagKept
  <2>2. CASE FlagOnItsWay
    BY <1>1, <2>2 DEF FlagOnItsWay, FlagKept
  <2>3. CASE Clean
    BY <2>3 DEF Clean, FlagKept
  <2> QED
    BY <2>1, <2>2, <2>3
<1> QED
  BY <1>1 DEF TInv, Flagged, FlagKept

(* A disk that works truncates the file.                                   *)
LEMMA TruncationWorks ==
    ASSUME IInv, Truncated
    PROVE  file' = <<>>
  BY DiskAssumption DEF IInv, Typed, Truncated

(* The receiver clears the store,                                          *)
LEMMA ReceiverClearsStore ==
    ASSUME TInv, UdpClearStore, ReceiverStep
    PROVE  TInv'
<1> USE DEF UdpClearStore, ClearedStore, requests, ghosts, device
<1>1. IInv'
  BY UdpClearStoreKeeps DEF TInv
<1>2. /\ UNCHANGED <<seq, up, deviceCollecting, clearPending, events, net, boot, k,
                     inHand, since, disturbed, flagLost, serial, origin>>
      /\ seen' = <<>>
  BY DEF ReceiverStep, TInv, Ranges, IInv, Typed
<1>3. Ranges'
  BY <1>2 DEF TInv, Ranges
<1>4. /\ Held' \subseteq Held /\ HeldBefore
      /\ ToSet(records') \subseteq ToSet(records)
  BY LessHeld DEF TInv
<1>5. NoSample
  BY <1>2, <1>4 DEF NoSample, InHand
<1>6. Counters'
  BY <1>2, CountersBegin
<1>7. FlagKept
  BY <1>2, <1>4 DEF FlagKept
<1> QED
  BY <1>1, <1>3, <1>5, <1>6, <1>7, FlagKeptKeeps, NoSampleKeeps

(* and the file, which leaves nothing of what the device has cleared.      *)
LEMMA ReceiverClearsFile ==
    ASSUME TInv, UdpClearFile, ReceiverStep
    PROVE  TInv'
<1> USE DEF UdpClearFile, store, requests, ghosts, device
<1>1. IInv' /\ file' = <<>> /\ records = <<>> /\ pending = NoRecord
  BY UdpClearFileKeeps, TruncationWorks DEF TInv, IInv, Emptied, Typed
<1>2. /\ UNCHANGED <<seq, up, deviceCollecting, clearPending, events, net, boot, k,
                     inHand, since, disturbed, flagLost, serial, origin, seen>>
  BY DEF ReceiverStep, TInv, Ranges, IInv, Typed
<1>3. Ranges'
  BY <1>2 DEF TInv, Ranges
<1>4. /\ Held' \subseteq Held /\ HeldBefore
      /\ ToSet(records') \subseteq ToSet(records)
  BY <1>1, LessHeld DEF TInv
<1>5. Held' = {}
  BY <1>1, NoLines, Sentinels DEF Held, OnFile
<1>6. NoSample
  BY <1>2, <1>4 DEF NoSample, InHand
<1>7. Counters'
  <2>1. Onward
    BY <1>2, SamePlace DEF TInv
  <2> QED
    BY <1>2, <2>1, CountersKept DEF TInv
<1>8. Flagged'
  <2>1. CASE udpPc' = "clearStore"
    <3>1. FlagKept
      BY <1>2, <1>4, <2>1 DEF FlagKept
    <3> QED
      BY <3>1, FlagKeptKeeps
  <2>2. CASE udpPc' = "insert"
    <3>1. ASSUME ~disturbed', ~flagLost' PROVE FlagOnItsWay' \/ Clean'
      <4>1. FlagOnItsWay \/ Clean
        BY <1>2, <3>1 DEF TInv, Flagged
      <4>2. CASE inHand = since
        <5>1. inHand \in Places
          BY DEF TInv, Ranges
        <5>2. ~Before(inHand, since)
          BY <4>2, <5>1, PlaceOrder
        <5> QED
          BY <1>2, <1>5, <5>2 DEF Clean
      <4>3. CASE Clean
        BY <1>2, <1>5, <4>3 DEF Clean
      <4> QED
        BY <1>2, <4>1, <4>2, <4>3 DEF FlagOnItsWay
    <3> QED
      BY <1>2, <3>1 DEF TInv, Flagged
  <2> QED
    BY <2>1, <2>2
<1> QED
  BY <1>1, <1>3, <1>6, <1>7, <1>8, NoSampleKeeps

(* The line of a sample goes to the file.                                  *)
LEMMA ReceiverAppends ==
    ASSUME TInv, AppendLine, ReceiverStep
    PROVE  TInv'
<1> USE DEF AppendLine, store, requests, device
<1>1. IInv' /\ file' = Appended(file, pending) /\ pending' = NoRecord
  BY AppendLineKeeps DEF TInv
<1>2. /\ UNCHANGED <<seq, up, deviceCollecting, clearPending, events, net, boot, k,
                     inHand, since, disturbed, flagLost, serial, origin, seen>>
  BY DEF ReceiverStep, TInv, Ranges, IInv, Typed
<1>3. Ranges'
  BY <1>2 DEF TInv, Ranges
<1>4. pending \in Records /\ Recs(file') \subseteq Recs(file) \union {Persisted(pending)}
  <2>1. pending \in Records /\ file \in Seq(Lines) /\ Ordered(file)
    BY DEF TInv, IInv, Typed, ArrivalOrder
  <2>2. \A l \in Recs(file) : l.n < pending.n
    BY DEF TInv, IInv, Numbered
  <2> QED
    BY <1>1, <2>1, <2>2, AppendedFile
<1>5. OnFile' = Recs(file') /\ Recs(file) \subseteq Held /\ pending \in Held
  BY <1>1, <1>4, Sentinels DEF OnFile, Held
<1>6. Persisted(pending).n = pending.n /\ Persisted(pending).up = pending.up
  BY <1>4 DEF Persisted, Records
<1>7. HeldBefore
  <2>1. \A r \in OnFile' : \E q \in Held : q.n = r.n /\ q.up = r.up
    BY <1>4, <1>5, <1>6
  <2>2. ToSet(records') \subseteq Held
    BY DEF Held
  <2> QED
    BY <2>1, <2>2 DEF HeldBefore, Held
<1>8. NoSample
  BY <1>2, <1>7 DEF NoSample, InHand
<1>9. Counters'
  <2>1. Onward
    BY <1>2, SamePlace DEF TInv
  <2> QED
    BY <1>2, <2>1, CountersKept DEF TInv
<1>10. Flagged'
  BY <1>2, <1>7 DEF TInv, Flagged, FlagOnItsWay, Clean, HeldBefore
<1> QED
  BY <1>1, <1>3, <1>8, <1>9, <1>10, NoSampleKeeps

----------------------------------------------------------------------------
(* The receiver counts a packet.                                           *)

\* The places after a that N misses before its last.
Holes(a, N) == {i \in 1..MaxSends : a < i /\ i \notin N /\ \E j \in N : i < j}

\* What one more place x does to the holes.
Filled(a, N, l, x, g) ==
    /\ Cardinality(Holes(a, N)) \in Nat
    /\ Cardinality(Holes(a, N \union {x})) \in Nat
    /\ Cardinality(Holes(a, N \union {x})) <= Cardinality(Holes(a, N)) + g
    /\ (\A j \in N : j <= l) /\ a <= l /\ l <= x =>
         Cardinality(Holes(a, N \union {x})) = Cardinality(Holes(a, N)) + g

(* One more place x in N adds no more holes than there are places between  *)
(* l, which is in N, and x; exactly those when l is the last of N and x is *)
(* no earlier.                                                             *)
LEMMA OneMore ==
    ASSUME NEW N \in SUBSET (1 .. MaxSends), NEW a \in N, NEW l \in N,
           NEW x \in 1 .. MaxSends, NEW g, g = IF l < x THEN (x - l) - 1 ELSE 0
    PROVE  Filled(a, N, l, x, g)
<1> DEFINE M == Holes(a, N)
           H == Holes(a, N \union {x})
           B == l + 1 .. x - 1
<1>1. MaxSends \in Nat /\ l \in Nat /\ x \in Nat /\ a \in Nat
  BY Widths
<1>2. IsFiniteSet(1 .. MaxSends)
  BY <1>1, FS_Interval
<1>3. M \in SUBSET (1 .. MaxSends) /\ H \in SUBSET (1 .. MaxSends)
  BY DEF Holes
<1>4. H \subseteq M \union B
  <2> SUFFICES ASSUME NEW i \in H, i \notin B PROVE i \in M
    OBVIOUS
  <2>1. i \in 1 .. MaxSends /\ a < i /\ i \notin N /\ i # x
    BY DEF Holes
  <2>2. PICK j \in N \union {x} : i < j
    BY DEF Holes
  <2>3. i < l \/ \E h \in N : i < h
    BY <1>1, <2>1, <2>2
  <2> QED
    BY <2>1, <2>3 DEF Holes
<1>5. (\A j \in N : j <= l) /\ a <= l /\ l <= x => H = M \union B /\ M \intersect B = {}
  <2> SUFFICES ASSUME \A j \in N : j <= l, a <= l, l <= x
               PROVE  H = M \union B /\ M \intersect B = {}
    OBVIOUS
  <2>1. \A i \in M : i \in 1 .. MaxSends /\ a < i /\ i \notin N /\ i < l
    BY <1>1 DEF Holes
  <2>2. M \intersect B = {}
    BY <1>1, <2>1
  <2>3. M \subseteq H
    BY <1>1, <2>1 DEF Holes
  <2>4. \A i \in B : i \in 1 .. MaxSends /\ a < i /\ i \notin N \union {x} /\ i < x
    BY <1>1
  <2>5. B \subseteq H
    BY <2>4 DEF Holes
  <2> QED
    BY <1>4, <2>2, <2>3, <2>5
<1>6. IsFiniteSet(B) /\ Cardinality(B) = g
  BY <1>1, FS_Interval
<1> HIDE DEF M, H, B
<1>7. IsFiniteSet(M) /\ IsFiniteSet(H)
  BY <1>2, <1>3, FS_Subset
<1>8. PICK m \in Nat, h \in Nat, u \in Nat, c \in Nat :
        /\ m = Cardinality(M) /\ h = Cardinality(H)
        /\ u = Cardinality(M \union B) /\ c = Cardinality(M \intersect B)
        /\ u = (m + g) - c /\ IsFiniteSet(M \union B) /\ g \in Nat
  <2>1. IsFiniteSet(M \union B) /\ IsFiniteSet(M \intersect B)
    BY <1>6, <1>7, FS_Union, FS_Intersection
  <2>2. Cardinality(M \union B)
          = Cardinality(M) + Cardinality(B) - Cardinality(M \intersect B)
    BY <1>6, <1>7, FS_Union
  <2>3. /\ Cardinality(M) \in Nat /\ Cardinality(H) \in Nat /\ Cardinality(B) \in Nat
        /\ Cardinality(M \union B) \in Nat /\ Cardinality(M \intersect B) \in Nat
    BY <1>6, <1>7, <2>1, FS_CardinalityType
  <2>4. g \in Nat
    BY <1>6, <2>3
  <2>5. Cardinality(M \union B) = (Cardinality(M) + g) - Cardinality(M \intersect B)
    BY <1>6, <2>2, <2>3
  <2> QED
    BY <2>1, <2>3, <2>4, <2>5
<1>9. h <= u
  BY <1>4, <1>8, FS_Subset
<1>10. (\A j \in N : j <= l) /\ a <= l /\ l <= x => h = m + g
  <2>1. M \intersect B = {} => c = 0
    BY <1>8, FS_EmptySet
  <2>2. H = M \union B => h = u
    BY <1>8
  <2> QED
    BY <1>5, <1>8, <2>1, <2>2
<1> QED
  BY <1>8, <1>9, <1>10 DEF M, H, Filled

(* The counters after a packet; lost ones are dropped, doubled ones and    *)
(* overtaken ones are nothing new.                                         *)
LEMMA InsertCounts ==
    ASSUME TInv, Insert, seen' = Append(seen, inHand),
           UNCHANGED <<boot, k, inHand, disturbed>>
    PROVE  Counters'
<1>1. Onward
  BY SamePlace DEF TInv
<1>2. \A p : Past(p) => Past(p)'
  BY <1>1, PastKept DEF TInv
<1>3. PICK x \in Places :
        /\ x = inHand /\ Past(x) /\ pkt.seq = SeqAt(x[1], x[2])
        /\ x[1] \in Nat /\ x[2] \in 1 .. MaxSends
  BY DEF TInv, Numbering, InHand, Insert, Past, Places
<1>4. /\ seen \in Seq(Places) /\ seen' = Append(seen, x) /\ Len(seen) \in Nat
      /\ Len(seen') = Len(seen) + 1 /\ seen'[Len(seen) + 1] = x
      /\ \A i \in 1 .. Len(seen) : seen'[i] = seen[i] /\ seen[i] \in Places
  BY <1>3 DEF TInv, Ranges
<1>5. seen' # <<>> /\ Last(seen') = x /\ seen' \in Seq(Places)
  BY <1>3, <1>4 DEF Last
<1>6. \A i \in 1 .. Len(seen') : Past(seen[i])'
  <2>1. \A i \in 1 .. Len(seen') : Past(seen'[i])
    BY <1>3, <1>4 DEF TInv, Counters
  <2> QED
    BY <1>2, <2>1 DEF Past
<1>7. /\ lastSeq' = SeqAt(x[1], x[2])
      /\ dropped' = IF lastSeq = -1 THEN dropped ELSE dropped + Gap(lastSeq, pkt.seq)
  BY <1>3 DEF Insert, Counted
<1>8. /\ ToSet(seen) = {seen[i] : i \in 1 .. Len(seen)}
      /\ ToSet(seen') = ToSet(seen) \union {x}
  BY <1>4, <1>5 DEF ToSet
<1>9. DropsCounted'
  <2> SUFFICES ASSUME OneBoot'
               PROVE  /\ dropped' >= Cardinality(Missing')
                      /\ ~disturbed => dropped' = Cardinality(Missing')
    BY DEF DropsCounted
  <2>1. /\ \A p \in ToSet(seen') : p[1] = seen'[1][1]
        /\ Missing' = Holes(seen'[1][2], Numbers')
    BY DEF OneBoot, Missing, Holes
  <2>2. CASE seen = <<>>
    <3>1. dropped' = 0
      BY <1>7, <2>2 DEF TInv, Counters
    <3>2. ToSet(seen') = {x} /\ seen'[1] = x
      BY <1>4, <1>8, <2>2
    <3>3. Numbers' = {x[2]}
      BY <3>2 DEF Numbers
    <3>4. Missing' = {}
      BY <1>3, <2>1, <3>2, <3>3, Widths DEF Holes
    <3> QED
      BY <3>1, <3>4, FS_EmptySet
  <2>3. CASE seen # <<>>
    <3>1. PICK l \in Places, f \in Places :
            /\ l = Last(seen) /\ f = seen[1] /\ f = seen'[1]
            /\ l \in ToSet(seen) /\ f \in ToSet(seen)
            /\ l = seen[Len(seen)]
      BY <1>4, <1>8, <2>3 DEF Last
    <3>2. \A p \in ToSet(seen) : p[1] = f[1] /\ p[2] \in 1 .. MaxSends
      <4>1. \A i \in 1 .. Len(seen) : seen[i][2] \in 1 .. MaxSends
        BY DEF TInv, Counters, Past
      <4> QED
        BY <1>8, <2>1, <3>1, <4>1
    <3>3. x[1] = f[1]
      BY <1>8, <2>1, <3>1
    <3>4. OneBoot /\ Missing = Holes(f[2], Numbers)
      BY <3>1, <3>2 DEF OneBoot, Missing, Holes
    <3>5. /\ Numbers \in SUBSET (1 .. MaxSends) /\ f[2] \in Numbers /\ l[2] \in Numbers
          /\ Numbers' = Numbers \union {x[2]}
      BY <1>8, <3>1, <3>2 DEF Numbers
    <3>6. PICK g : g = IF l[2] < x[2] THEN (x[2] - l[2]) - 1 ELSE 0
      OBVIOUS
    <3>7. dropped' = dropped + g
      <4>1. lastSeq = SeqAt(x[1], l[2])
        BY <2>3, <3>1, <3>2, <3>3 DEF TInv, Counters
      <4>2. Gap(SeqAt(x[1], l[2]), SeqAt(x[1], x[2])) = g
        BY <1>3, <3>1, <3>2, <3>6, GapBetween
      <4>3. lastSeq # -1
        <5>1. l[2] \in 1 .. MaxSends + 1
          BY <3>1, <3>2, Widths
        <5>2. SeqAt(x[1], l[2]) \in 0 .. (SeqSpace - 1)
          BY <1>3, <5>1, SeqAtRange
        <5> QED
          BY <4>1, <5>2, Widths
      <4> QED
        BY <1>3, <1>7, <4>1, <4>2, <4>3
    <3>8. /\ Cardinality(Missing) \in Nat /\ Cardinality(Missing') \in Nat
          /\ Cardinality(Missing') <= Cardinality(Missing) + g
          /\ (\A j \in Numbers : j <= l[2]) /\ f[2] <= l[2] /\ l[2] <= x[2] =>
                Cardinality(Missing') = Cardinality(Missing) + g
      <4>1. Missing' = Holes(f[2], Numbers \union {x[2]})
        BY <2>1, <3>1, <3>5
      <4>2. PICK N, a, b, y : N = Numbers /\ a = f[2] /\ b = l[2] /\ y = x[2]
        OBVIOUS
      <4>3. /\ N \in SUBSET (1 .. MaxSends) /\ a \in N /\ b \in N
            /\ y \in 1 .. MaxSends /\ g = IF b < y THEN (y - b) - 1 ELSE 0
        BY <1>3, <3>5, <3>6, <4>2
      <4>4. Filled(a, N, b, y, g)
        BY <4>3, OneMore
      <4> QED
        BY <3>4, <4>1, <4>2, <4>4 DEF Filled
    <3>9. /\ dropped >= Cardinality(Missing)
          /\ ~disturbed => dropped = Cardinality(Missing)
      BY <2>3, <3>4 DEF TInv, Counters, DropsCounted
    <3>10. dropped \in Nat /\ g \in Nat
      BY <1>3, <3>1, <3>2, <3>6 DEF TInv, IInv, Typed
    <3>11. ASSUME ~disturbed
           PROVE  (\A j \in Numbers : j <= l[2]) /\ f[2] <= l[2] /\ l[2] <= x[2]
      <4>1. \A p \in ToSet(seen) : p = l \/ ~Before(l, p)
        BY <1>4, <1>8, <3>1, <3>11 DEF TInv, Forward
      <4>2. ~Before(x, l)
        BY <1>3, <1>4, <3>1, <2>3, <3>11 DEF TInv, Forward
      <4>3. \A p \in ToSet(seen) : p[2] <= l[2]
        BY <3>1, <3>2, <4>1, Widths DEF Before
      <4>4. l[2] <= x[2]
        BY <1>3, <3>1, <3>2, <3>3, <4>2, Widths DEF Before
      <4> QED
        BY <3>1, <4>3, <4>4 DEF Numbers
    <3> QED
      BY <3>7, <3>8, <3>9, <3>10, <3>11
  <2> QED
    BY <2>2, <2>3
<1> QED
  BY <1>5, <1>6, <1>7, <1>9 DEF Counters

(* A rising sequence of places rises to one more.                          *)
LEMMA Risen ==
    ASSUME NEW s \in Seq(Places), NEW x \in Places,
           \A i, j \in 1 .. Len(s) : i < j => ~Before(s[j], s[i]),
           \A i \in 1 .. Len(s) : ~Before(x, s[i])
    PROVE  LET t == Append(s, x)
           IN  /\ \A i, j \in 1 .. Len(t) : i < j => ~Before(t[j], t[i])
               /\ \A i \in 1 .. Len(t) : ~Before(x, t[i])
<1> DEFINE t == Append(s, x)
<1>1. /\ Len(t) = Len(s) + 1 /\ Len(s) \in Nat /\ t[Len(s) + 1] = x
      /\ \A i \in 1 .. Len(s) : t[i] = s[i]
  OBVIOUS
<1>2. ~Before(x, x)
  BY PlaceOrder
<1> HIDE DEF t
<1>3. \A i, j \in 1 .. Len(t) : i < j => ~Before(t[j], t[i])
  BY <1>1
<1>4. \A i \in 1 .. Len(t) : ~Before(x, t[i])
  BY <1>1, <1>2
<1> QED
  BY <1>3, <1>4 DEF t

(* What an insertion does to the ghosts of the composition.                *)
LEMMA InsertGhosts ==
    ASSUME TInv, Insert, ReceiverStep
    PROVE  /\ UNCHANGED <<seq, up, deviceCollecting, clearPending, events, net, boot, k,
                          inHand, since, disturbed, flagLost>>
           /\ seen' = Append(seen, inHand) /\ seen' \in Seq(Places)
           /\ ~disturbed => /\ \A i, j \in 1 .. Len(seen') :
                                 i < j => ~Before(seen'[j], seen'[i])
                            /\ \A i \in 1 .. Len(seen') : ~Before(inHand, seen'[i])
           /\ origin' = IF serial' > serial THEN Append(origin, inHand) ELSE origin
<1>1. /\ UNCHANGED <<seq, up, deviceCollecting, clearPending, events, net, boot, k,
                     inHand, since, disturbed, flagLost>>
      /\ seen' = Append(seen, inHand)
      /\ origin' = IF serial' > serial THEN Append(origin, inHand) ELSE origin
  BY DEF ReceiverStep, Insert, device
<1>2. seen \in Seq(Places) /\ inHand \in Places
  BY DEF TInv, Ranges
<1>3. seen' \in Seq(Places)
  BY <1>1, <1>2
<1>4. ASSUME ~disturbed
      PROVE  /\ \A i, j \in 1 .. Len(seen) : i < j => ~Before(seen[j], seen[i])
             /\ \A i \in 1 .. Len(seen) : ~Before(inHand, seen[i])
  BY <1>4 DEF TInv, Forward
<1>5. ASSUME ~disturbed
      PROVE  /\ \A i, j \in 1 .. Len(seen') : i < j => ~Before(seen'[j], seen'[i])
             /\ \A i \in 1 .. Len(seen') : ~Before(inHand, seen'[i])
  BY <1>1, <1>2, <1>4, <1>5, Risen
<1> QED
  BY <1>1, <1>3, <1>5

(* A packet that is counted, but not stored.                               *)
LEMMA InsertWithoutSample ==
    ASSUME TInv, Insert, ReceiverStep, UNCHANGED <<records, pending, serial>>,
           udpPc' = "recv"
    PROVE  TInv'
<1>1. IInv' /\ file' = file /\ udpPc = "insert"
  BY InsertKeeps DEF TInv, Insert
<1>2. /\ UNCHANGED <<seq, up, deviceCollecting, clearPending, events, net, boot, k,
                     inHand, since, disturbed, flagLost, origin, serial>>
      /\ seen' = Append(seen, inHand) /\ seen' \in Seq(Places)
      /\ ~disturbed => /\ \A i, j \in 1 .. Len(seen') : i < j => ~Before(seen'[j], seen'[i])
                       /\ \A i \in 1 .. Len(seen') : ~Before(inHand, seen'[i])
  <2>1. ~(serial' > serial)
    BY BoundAssumption DEF TInv, IInv, Typed
  <2> QED
    BY <2>1, InsertGhosts
<1>3. Onward
  BY <1>2, SamePlace DEF TInv
<1>4. Ranges'
  BY <1>2 DEF TInv, Ranges
<1>5. Held' = Held /\ HeldBefore /\ InHandBefore
  BY <1>1 DEF Held, OnFile, Recs, HeldBefore, InHandBefore, InHand
<1>6. Numbering' /\ Uptimes'
  <2>1. seq' = SeqAt(boot', k' + 1)
    BY <1>2 DEF TInv, Numbering
  <2> QED
    BY <1>2, <1>3, <1>5, <2>1, NumberingKept, NothingNew DEF TInv
<1>7. Forward'
  BY <1>2 DEF TInv, Forward
<1>8. Later'
  BY <1>2 DEF TInv, Later, Live
<1>9. Counters'
  BY <1>2, InsertCounts
<1>10. Flagged'
  BY <1>1, <1>2, <1>5 DEF TInv, Flagged, FlagOnItsWay, Clean
<1> QED
  BY <1>1, <1>4, <1>6, <1>7, <1>8, <1>9, <1>10 DEF TInv

(* A packet whose sample is stored.                                        *)
LEMMA InsertSample ==
    ASSUME TInv, Insert, ReceiverStep, ShouldStore(pkt),
           records' = Pruned(Append(records, Recorded(pkt))),
           pending' = Recorded(pkt), serial' = serial + 1, udpPc' = "append"
    PROVE  TInv'
<1>1. /\ IInv' /\ file' = file /\ udpPc = "insert" /\ InHand
      /\ pkt \in Packets /\ inHand \in Places /\ serial \in Nat /\ pending = NoRecord
  <2>1. IInv' /\ file' = file /\ udpPc = "insert"
    BY InsertKeeps DEF TInv, Insert
  <2>2. inHand \in Places /\ serial \in Nat
    BY BoundAssumption DEF TInv, Ranges, IInv, Typed
  <2> QED
    BY <2>1, <2>2 DEF TInv, IInv, Typed, Carried, InHand
<1>2. PICK q \in Records : q = Recorded(pkt) /\ q.n = serial + 1 /\ q.up = pkt.up
  <2>1. Recorded(pkt) \in Records
    BY <1>1, RecordOfPacket DEF TInv
  <2> QED
    BY <2>1 DEF Recorded
<1>3. /\ UNCHANGED <<seq, up, deviceCollecting, clearPending, events, net, boot, k,
                     inHand, since, disturbed, flagLost>>
      /\ seen' = Append(seen, inHand) /\ seen' \in Seq(Places)
      /\ ~disturbed => /\ \A i, j \in 1 .. Len(seen') : i < j => ~Before(seen'[j], seen'[i])
                       /\ \A i \in 1 .. Len(seen') : ~Before(inHand, seen'[i])
      /\ origin' = Append(origin, inHand)
  <2>1. serial' > serial
    BY <1>1
  <2> QED
    BY <2>1, InsertGhosts
<1>4. /\ origin \in Seq(Places) /\ Len(origin) = serial
      /\ origin' \in Seq(Places) /\ Len(origin') = serial'
      /\ origin'[q.n] = inHand
      /\ \A i \in 1 .. serial : origin'[i] = origin[i] /\ origin[i] \in Places
  <2>1. origin \in Seq(Places) /\ Len(origin) = serial
    BY DEF TInv, Ranges
  <2> QED
    BY <1>1, <1>2, <1>3, <2>1
<1>5. Onward
  BY <1>3, SamePlace DEF TInv
<1>6. Ranges'
  BY <1>3, <1>4 DEF TInv, Ranges
<1>7. \A r \in Held : r.n \in 1 .. serial /\ origin'[r.n] = origin[r.n]
  BY <1>4 DEF TInv, IInv, Numbered, Held
<1>8. /\ ToSet(records') \subseteq ToSet(records) \union {q}
      /\ Held' \subseteq Held \union {q}
  <2>1. ToSet(records') \subseteq ToSet(records) \union {q}
    BY <1>2, InsertedRecords DEF TInv
  <2>2. OnFile' \subseteq OnFile \union {q}
    BY <1>1, <1>2 DEF OnFile, Recs
  <2> QED
    BY <2>1, <2>2 DEF Held
<1>9. Numbering' /\ ~InHand'
  <2>1. seq' = SeqAt(boot', k' + 1)
    BY <1>3 DEF TInv, Numbering
  <2>2. ~InHand' /\ InHandBefore
    BY DEF InHand, InHandBefore
  <2> QED
    BY <1>3, <1>5, <2>1, <2>2, NumberingKept DEF TInv
<1>10. Uptimes'
  <2>1. Sightings' \subseteq Sightings
    <3>1. <<inHand, pkt.up>> \in Sightings
      BY <1>1 DEF Sightings
    <3>2. \A r \in Held : <<origin'[r.n], r.up>> \in Sightings
      BY <1>7 DEF Sightings
    <3>3. \A r \in Held' : <<origin'[r.n], r.up>> \in Sightings
      BY <1>2, <1>4, <1>8, <3>1, <3>2
    <3>4. \A d \in net' : <<d.place, d.packet.up>> \in Sightings
      BY <1>3 DEF Sightings
    <3> QED
      BY <1>9, <3>3, <3>4 DEF Sightings
  <2>2. \A p : Past(p) => Past(p)'
    BY <1>5, PastKept DEF TInv
  <2> QED
    BY <2>1, <2>2 DEF TInv, Uptimes
<1>11. Forward'
  <2>1. ASSUME ~disturbed
        PROVE  /\ \A i, j \in 1 .. serial' : i < j => ~Before(origin'[j], origin'[i])
               /\ \A i \in 1 .. serial' : ~Before(inHand, origin'[i])
    <3>1. /\ \A i, j \in 1 .. Len(origin) : i < j => ~Before(origin[j], origin[i])
          /\ \A i \in 1 .. Len(origin) : ~Before(inHand, origin[i])
      BY <1>4, <2>1 DEF TInv, Forward
    <3> QED
      BY <1>1, <1>3, <1>4, <3>1, Risen
  <2> QED
    BY <1>3, <2>1 DEF Forward
<1>12. Later'
  <2>1. ASSUME ~disturbed, NEW r \in ToSet(records)
        PROVE  Before(origin[r.n], inHand)
    <3>1. records \in Seq(Records) /\ records # <<>> /\ Ordered(records)
      BY <2>1, NoLines DEF TInv, IInv, Typed, ArrivalOrder
    <3>2. PICK l \in Records : l = Last(records) /\ l = records[Len(records)]
      BY <3>1 DEF Last
    <3>3. l \in ToSet(records) /\ r \in Records /\ (r = l \/ r.n < l.n)
      <4>1. PICK i \in 1 .. Len(records) : r = records[i]
        BY <2>1, <3>1, Elements
      <4>2. Len(records) \in 1 .. Len(records)
        BY <3>1
      <4>3. l \in ToSet(records)
        BY <3>1, <3>2, <4>2, Elements
      <4>4. r \in Records /\ records \in Seq(Lines)
        BY <3>1, <4>1 DEF Lines
      <4>5. i < Len(records) => r.n < l.n
        BY <3>1, <3>2, <4>1, <4>2, <4>4, OrderedLines
      <4> QED
        BY <3>1, <3>2, <4>1, <4>3, <4>4, <4>5
    <3>4. /\ l \in Held /\ r \in Held
          /\ l.n \in 1 .. serial /\ r.n \in 1 .. serial
          /\ origin[l.n] \in Places /\ origin[r.n] \in Places
      BY <1>4, <1>7, <2>1, <3>3 DEF Held
    <3>5. l.up # pkt.up
      <4>1. l.up \in Nat /\ pkt.up \in Nat
        BY <1>1, <3>2, PacketAssumption DEF Records
      <4> QED
        BY <3>1, <3>2, <4>1 DEF ShouldStore
    <3>6. origin[l.n] # inHand
      <4>1. <<origin[l.n], l.up>> \in Sightings /\ <<inHand, pkt.up>> \in Sightings
        BY <1>1, <3>4 DEF Sightings
      <4> QED
        BY <3>5, <4>1 DEF TInv, Uptimes
    <3>7. ~Before(inHand, origin[l.n])
      BY <2>1, <3>4 DEF TInv, Forward
    <3>8. Before(origin[l.n], inHand)
      BY <1>1, <3>4, <3>6, <3>7, PlaceOrder
    <3>9. r = l \/ ~Before(origin[l.n], origin[r.n])
      BY <2>1, <3>3, <3>4 DEF TInv, Forward
    <3> QED
      BY <1>1, <3>4, <3>8, <3>9, PlaceOrder
  <2>2. \A r \in ToSet(records) : r.n <= serial /\ r.n \in Nat /\ origin'[r.n] = origin[r.n]
    BY <1>1, <1>7 DEF Held
  <2>3. ASSUME ~disturbed, NEW r \in ToSet(records'), NEW s \in ToSet(records'),
               r.n < s.n, Live(s)
        PROVE  Before(origin'[r.n], origin'[s.n])
    <3>1. CASE s \in ToSet(records)
      <4>1. r \in ToSet(records)
        BY <1>1, <1>2, <1>8, <2>2, <2>3, <3>1
      <4> QED
        BY <2>2, <2>3, <3>1, <4>1 DEF TInv, Later
    <3>2. CASE s = q
      <4>1. r \in ToSet(records)
        BY <1>1, <1>2, <1>8, <2>3, <3>2
      <4> QED
        BY <1>4, <2>1, <2>2, <2>3, <3>2, <4>1
    <3> QED
      BY <1>8, <3>1, <3>2
  <2> QED
    BY <1>3, <2>3 DEF Later, Live
<1>13. Counters'
  BY <1>3, InsertCounts
<1>14. Flagged'
  <2>1. FlagOnItsWay => FlagOnItsWay'
    BY <1>1, <1>3 DEF FlagOnItsWay
  <2>2. Clean => Clean'
    BY <1>3, <1>4, <1>7, <1>8 DEF Clean
  <2> QED
    BY <1>3, <2>1, <2>2 DEF TInv, Flagged
<1> QED
  BY <1>1, <1>6, <1>9, <1>10, <1>11, <1>12, <1>13, <1>14 DEF TInv

(* Any step of the receiver.                                               *)
LEMMA ReceiverStepKeeps == TInv /\ ReceiverStep => TInv'
<1> SUFFICES ASSUME TInv, ReceiverStep PROVE TInv'
  OBVIOUS
<1>1. CASE Insert
  <2>1. CASE pkt.coll /\ ShouldStore(pkt)
    BY <1>1, <2>1, InsertSample DEF Insert
  <2>2. CASE ~(pkt.coll /\ ShouldStore(pkt))
    BY <1>1, <2>2, InsertWithoutSample DEF Insert
  <2> QED
    BY <2>1, <2>2
<1> QED
  BY <1>1, ReceiverClearsStore, ReceiverClearsFile, ReceiverAppends DEF ReceiverStep

----------------------------------------------------------------------------
(* The HTTP requests of the server, and its restart.                       *)

(* A request that reaches neither the store nor the file.                  *)
LEMMA QuietRequest ==
    ASSUME TInv, IInv', FlagKept \/ Flagged', Ranges',
           UNCHANGED <<seq, up, boot, k, net, origin, serial, inHand, disturbed, seen>>,
           UNCHANGED <<records, file, pending, udpPc, pkt, lastSeq, dropped>>
    PROVE  TInv'
<1>1. HeldBefore
  BY DEF HeldBefore, Held, OnFile, Recs
<1>2. NoSample
  BY <1>1 DEF NoSample, InHand
<1>3. Counters'
  <2>1. Onward
    BY SamePlace DEF TInv
  <2> QED
    BY <2>1, CountersKept DEF TInv
<1>4. Flagged'
  BY FlagKeptKeeps
<1> QED
  BY <1>2, <1>3, <1>4, NoSampleKeeps

(* A clear is forwarded: the device clears, or does not hear of it.        *)
LEMMA ForwardedClearKeeps ==
    ASSUME TInv, NEW c \in Clients, ForwardedClear(c)
    PROVE  TInv'
<1> USE DEF ForwardedClear, ForwardClear, store, receiver
<1>1. IInv'
  BY ForwardClearKeeps DEF TInv
<1>2. Held' = Held
  BY DEF Held, OnFile, Recs
<1>3. CASE Cleared
  <2>1. Ranges'
    <3>1. <<boot, k + 1>> \in Places
      BY Widths DEF TInv, Ranges, Places
    <3> QED
      BY <1>3, <3>1 DEF TInv, Ranges, Cleared
  <2>2. Flagged'
    BY <1>3 DEF Cleared, Flagged, FlagOnItsWay
  <2> QED
    BY <1>1, <2>1, <2>2, QuietRequest
<1>4. CASE UNCHANGED <<clearPending, since, flagLost>>
  <2>1. Ranges'
    BY <1>4 DEF TInv, Ranges
  <2>2. FlagKept
    BY <1>2, <1>4 DEF FlagKept
  <2> QED
    BY <1>1, <2>1, <2>2, QuietRequest
<1> QED
  BY <1>3, <1>4

(* So is a collection command.                                             *)
LEMMA ForwardedCollectionKeeps ==
    ASSUME TInv, NEW c \in Clients, NEW enabled \in BOOLEAN,
           ForwardedCollection(c, enabled)
    PROVE  TInv'
<1> USE DEF ForwardedCollection, ForwardCollection, store, receiver, places, ghosts
<1>1. IInv'
  BY QuietRequestKeeps DEF TInv
<1>2. Ranges'
  BY DEF TInv, Ranges
<1>3. FlagKept
  BY DEF FlagKept, Held, OnFile, Recs
<1> QED
  BY <1>1, <1>2, <1>3, QuietRequest

(* The steps of a request at the server.                                   *)
LEMMA RequestStepKeeps ==
    ASSUME TInv, NEW c \in Clients, RequestStep(c)
    PROVE  TInv'
<1> USE DEF RequestStep, device
<1>1. /\ UNCHANGED <<seq, up, deviceCollecting, clearPending, net, boot, k, origin,
                     inHand, since, disturbed, flagLost>>
      /\ events' \in 0 .. MaxEvents /\ boot \in 1 .. (events' + 1)
  BY Widths DEF TInv, Ranges, Event
<1>2. CASE RequestClear(c) \/ \E on \in BOOLEAN : RequestCollection(c, on)
  <2>1. IInv'
    BY <1>2, QuietRequestKeeps DEF TInv
  <2>2. UNCHANGED <<serial, records, file, pending, udpPc, pkt, lastSeq, dropped>>
    BY <1>2 DEF RequestClear, RequestCollection, store, receiver, ghosts
  <2>3. seen' = seen
    BY <1>2 DEF RequestClear, RequestCollection, ClearStep, At
  <2>4. Ranges'
    BY <1>1, <2>2, <2>3 DEF TInv, Ranges
  <2>5. FlagKept
    BY <1>1, <2>2 DEF FlagKept, Held, OnFile, Recs
  <2> QED
    BY <1>1, <2>1, <2>2, <2>3, <2>4, <2>5, QuietRequest
<1>3. CASE ClearStore(c)
  <2> USE DEF ClearStore, ClearedStore, receiver, ghosts
  <2>1. IInv'
    BY <1>3, ClearStoreKeeps DEF TInv
  <2>2. seen' = <<>>
    BY <1>3 DEF ClearStep, At
  <2>3. /\ Held' \subseteq Held /\ HeldBefore
        /\ ToSet(records') \subseteq ToSet(records)
    BY <1>3, LessHeld DEF TInv
  <2>4. Ranges'
    <3>1. <<>> \in Seq(Places)
      OBVIOUS
    <3>2. serial' = serial
      BY <1>3
    <3> QED
      BY <1>1, <2>2, <3>1, <3>2 DEF TInv, Ranges
  <2>5. NoSample
    BY <1>1, <1>3, <2>2, <2>3 DEF NoSample, InHand
  <2>6. Counters'
    BY <1>3, <2>2, CountersBegin
  <2>7. FlagKept
    BY <1>1, <1>3, <2>3 DEF FlagKept
  <2> QED
    BY <2>1, <2>4, <2>5, <2>6, <2>7, FlagKeptKeeps, NoSampleKeeps
<1>4. CASE ClearFile(c)
  <2> USE DEF ClearFile, store, receiver, ghosts
  <2>1. IInv' /\ file' = <<>>
    BY <1>4, ClearFileKeeps, TruncationWorks DEF TInv
  <2>2. seen' = seen
    BY <1>4 DEF ClearStep, At
  <2>3. /\ Held' \subseteq Held /\ HeldBefore
        /\ ToSet(records') \subseteq ToSet(records)
    BY <1>4, <2>1, LessHeld DEF TInv
  <2>4. Ranges'
    BY <1>1, <1>4, <2>2 DEF TInv, Ranges
  <2>5. NoSample
    BY <1>1, <1>4, <2>2, <2>3 DEF NoSample, InHand
  <2>6. Counters'
    <3>1. Onward
      BY <1>1, SamePlace DEF TInv
    <3> QED
      BY <1>1, <1>4, <2>2, <3>1, CountersKept DEF TInv
  <2>7. FlagKept
    BY <1>1, <1>4, <2>3 DEF FlagKept
  <2> QED
    BY <2>1, <2>4, <2>5, <2>6, <2>7, FlagKeptKeeps, NoSampleKeeps
<1> QED
  BY <1>2, <1>3, <1>4

(* The server dies, with the packet in its hand, and reads its file.       *)
LEMMA RestartServerKeeps ==
    ASSUME TInv, RestartServer
    PROVE  TInv'
<1> USE DEF RestartServer, Restart, ghosts, device
<1>1. IInv'
  BY RestartKeeps DEF TInv
<1>2. /\ UNCHANGED <<seq, up, deviceCollecting, clearPending, events, net, boot, k,
                     inHand, since, disturbed, serial, origin>>
      /\ seen' = <<>> /\ udpPc' = "recv" /\ ~InHand'
  BY DEF InHand
<1>3. Ranges'
  BY <1>2 DEF TInv, Ranges
<1>4. ToSet(records') \subseteq Recs(file) /\ Recs(file') \subseteq Recs(file)
  <2>1. file \in Seq(Lines) /\ Ordered(file)
    BY DEF TInv, IInv, Typed, ArrivalOrder
  <2>2. CASE Load
    <3>1. PICK kept : kept = Restored(file)
      OBVIOUS
    <3>2. records' = kept /\ file' \in {kept, file}
      BY <2>2, <3>1 DEF Load, Rewritten
    <3>3. ToSet(kept) \subseteq Recs(file)
      BY <2>1, <3>1, RestoredRecords
    <3> QED
      BY <3>2, <3>3 DEF Recs
  <2>3. CASE LoadFails
    BY <2>3, NoLines DEF LoadFails
  <2> QED
    BY <2>2, <2>3
<1>5. Held' \subseteq Recs(file) /\ Recs(file) \subseteq Held
  BY <1>4, Sentinels DEF Held, OnFile
<1>6. HeldBefore /\ \A r \in ToSet(records') : ~Live(r)
  <2>1. \A l \in Recs(file) : l.host = NoDevice
    BY DEF TInv, IInv, Numbered
  <2> QED
    BY <1>4, <1>5, <2>1 DEF HeldBefore, Live
<1>7. NoSample
  BY <1>2, <1>6 DEF NoSample
<1>8. Counters'
  BY <1>2, CountersBegin
<1>9. FlagKept
  <2>1. udpPc \in {"clearStore", "clearFile"} /\ pkt.clear => flagLost'
    <3>1. InHand => pkt # NoPacket
      BY SentinelAssumption DEF TInv, IInv, Carried
    <3> QED
      BY <3>1 DEF InHand
  <2> QED
    BY <1>2, <1>5, <2>1 DEF FlagKept
<1> QED
  BY <1>1, <1>3, <1>7, <1>8, <1>9, FlagKeptKeeps, NoSampleKeeps

----------------------------------------------------------------------------
(* The theorems.                                                           *)

(* The invariant holds at the start.                                       *)
LEMMA BeginHolds == TelemetryInit => TInv
<1> SUFFICES ASSUME TelemetryInit PROVE TInv
  OBVIOUS
<1> USE DEF TelemetryInit, Init
<1>1. IInv
  BY InitHolds
<1>2. /\ Held = {} /\ ~InHand /\ net = {} /\ records = <<>> /\ ToSet(records) = {}
      /\ 1 .. serial = {} /\ 1 .. Len(seen) = {} /\ Sightings = {}
  <2>1. Held = {} /\ ToSet(records) = {}
    BY NoLines, Sentinels DEF Held, OnFile
  <2>2. ~InHand
    BY DEF InHand
  <2> QED
    BY <2>1, <2>2 DEF Sightings
<1>3. Nowhere \in Places
  BY DEF Nowhere, Places
<1>4. Ranges
  <2>1. origin \in Seq(Places) /\ Len(origin) = serial /\ seen \in Seq(Places)
    OBVIOUS
  <2>2. /\ seq \in 0 .. (SeqSpace - 1) /\ up \in 0 .. MaxUp /\ events \in 0 .. MaxEvents
        /\ boot \in 1 .. (events + 1) /\ k \in 0 .. MaxSends
    BY Widths
  <2>3. /\ deviceCollecting \in BOOLEAN /\ clearPending \in BOOLEAN
        /\ disturbed \in BOOLEAN
    OBVIOUS
  <2> QED
    BY <1>3, <2>1, <2>2, <2>3 DEF Ranges
<1>5. seq = SeqAt(boot, k + 1)
  <2>1. 1 \in 1 .. MaxSends + 1 /\ 1 \in Nat
    BY Widths
  <2>2. SeqAt(1, 1) = FirstSeq
    BY <2>1, Widths, SeqAtValue
  <2> QED
    BY <2>2
<1>6. Numbering /\ Uptimes /\ Forward /\ Later
  BY <1>2, <1>5 DEF Numbering, Uptimes, Forward, Later
<1>7. Counters
  BY <1>2 DEF Counters, DropsCounted
<1>8. Flagged
  BY <1>2, <1>3, PlaceOrder DEF Flagged, Clean
<1> QED
  BY <1>1, <1>4, <1>6, <1>7, <1>8 DEF TInv

(* Every step keeps the invariant.                                         *)
LEMMA TelemetryStepKeeps == TInv /\ [TelemetryNext]_tvars => TInv'
<1> SUFFICES ASSUME TInv, [TelemetryNext]_tvars PROVE TInv'
  OBVIOUS
<1>1. CASE UNCHANGED tvars
  <2> USE <1>1 DEF tvars, vars, store, receiver, requests, ghosts, device, places
  <2>1. IInv'
    BY StutterKeeps DEF TInv
  <2>2. Ranges' /\ FlagAlone
    BY DEF TInv, Ranges, FlagAlone
  <2>3. FlagKept
    BY <2>2 DEF FlagKept, Held, OnFile, Recs
  <2> QED
    BY <2>1, <2>2, <2>3, QuietRequest
<1>2. CASE \E c \in Clients : \/ ForwardedClear(c) \/ RequestStep(c)
                              \/ \E enabled \in BOOLEAN : ForwardedCollection(c, enabled)
  BY <1>2, ForwardedClearKeeps, RequestStepKeeps, ForwardedCollectionKeeps
<1>3. CASE \/ \E ok \in BOOLEAN : Send(ok)
           \/ Unsent \/ ClearOnDevice \/ RebootDevice
           \/ \E enabled \in BOOLEAN : CollectionOnDevice(enabled)
  BY <1>3, SendKeeps, QuietDeviceKeeps, ClearOnDeviceKeeps, RebootDeviceKeeps
<1>4. CASE \E d \in net : Lose(d) \/ Deliver(d)
  BY <1>4, LoseKeeps, DeliverKeeps
<1> QED
  BY <1>1, <1>2, <1>3, <1>4, ReceiverStepKeeps, RestartServerKeeps DEF TelemetryNext

(* Packets, records and counters know their places in the order of sending *)
(* (network/udp.rs, udp.rs, store.rs).                                     *)
THEOREM TelemetryInvariant == TelemetrySpec => []TInv
  BY BeginHolds, TelemetryStepKeeps, PTL DEF TelemetrySpec

(* What the server does in the composition is what it does by itself, so   *)
(* all that is proved of Server holds of it (udp.rs, http.rs, main.rs).    *)
THEOREM TelemetryImplementsServer == TelemetrySpec => Spec
<1>1. TelemetryInit => Init
  BY DEF TelemetryInit
<1>2. TInv /\ [TelemetryNext]_tvars => [Next]_vars
  <2> SUFFICES ASSUME TInv, [TelemetryNext]_tvars PROVE Next \/ UNCHANGED vars
    OBVIOUS
  <2>1. CASE UNCHANGED tvars
    BY <2>1 DEF tvars
  <2>2. CASE \/ \E ok \in BOOLEAN : Send(ok)
             \/ Unsent \/ ClearOnDevice \/ RebootDevice
             \/ \E enabled \in BOOLEAN : CollectionOnDevice(enabled)
    BY <2>2 DEF Send, Unsent, ClearOnDevice, RebootDevice, CollectionOnDevice
  <2>3. CASE \E d \in net : Lose(d) \/ Deliver(d)
    <3>1. \A d \in net : d.packet \in Packets
      BY DEF TInv, Numbering
    <3> QED
      BY <2>3, <3>1 DEF Lose, Deliver, Next, Receiver
  <2>4. CASE ReceiverStep
    BY <2>4 DEF ReceiverStep, Next, Receiver
  <2>5. CASE \E c \in Clients : \/ ForwardedClear(c) \/ RequestStep(c)
                                \/ \E enabled \in BOOLEAN : ForwardedCollection(c, enabled)
    BY <2>5 DEF ForwardedClear, RequestStep, ForwardedCollection, Next, Request
  <2>6. CASE RestartServer
    BY <2>6 DEF RestartServer, Next
  <2> QED
    BY <2>1, <2>2, <2>3, <2>4, <2>5, <2>6 DEF TelemetryNext
<1> QED
  BY <1>1, <1>2, TelemetryInvariant, PTL DEF TelemetrySpec, Spec

(* The drops that the server infers from the packets' numbers are no fewer *)
(* than the packets that are missing, and as many while nothing overtakes, *)
(* though the numbers wrap (store.rs 70-79).                               *)
THEOREM TelemetryCounts == TelemetrySpec => []CountsInv
<1>1. TInv => CountsInv
  <2> SUFFICES ASSUME TInv PROVE CountsInv
    OBVIOUS
  <2>1. \A d \in net : d.place[1] \in 1 .. boot /\ d.packet \in Packets
    <3>1. ASSUME NEW p, Past(p) PROVE p[1] \in 1 .. boot
      BY <3>1, Widths DEF TInv, Ranges, Past, Places, Before
    <3> QED
      BY <3>1 DEF TInv, Numbering
  <2>2. boot \in 1 .. (MaxEvents + 1)
    BY Widths DEF TInv, Ranges
  <2> QED
    BY <2>1, <2>2 DEF TInv, Ranges, Counters, CountsInv, TelemetryTypeOK
<1> QED
  BY <1>1, TelemetryInvariant, PTL

(* While nothing overtakes, each sample in the history is later than those *)
(* before it, whatever is lost, doubled, cleared or restarted (store.rs    *)
(* 80-110, udp.rs).                                                        *)
THEOREM TelemetryOrder == TelemetrySpec => []HistoryInSendingOrder
<1>1. TInv => HistoryInSendingOrder
  <2> SUFFICES ASSUME TInv, ~disturbed, NEW i \in DOMAIN records,
                      NEW j \in DOMAIN records, i < j, Live(records[j])
               PROVE  Before(origin[records[i].n], origin[records[j].n])
    BY DEF HistoryInSendingOrder
  <2>1. records \in Seq(Records) /\ records \in Seq(Lines) /\ Ordered(records)
    BY DEF TInv, IInv, Typed, ArrivalOrder, Lines
  <2>2. i \in 1 .. Len(records) /\ j \in 1 .. Len(records)
    BY <2>1
  <2>3. records[i] \in ToSet(records) /\ records[j] \in ToSet(records)
    BY <2>1, <2>2, Elements
  <2>4. records[i].n < records[j].n
    BY <2>1, <2>2, OrderedLines
  <2> QED
    BY <2>3, <2>4 DEF TInv, Later
<1> QED
  BY <1>1, TelemetryInvariant, PTL

(* Once everything has arrived, the server has nothing from before the     *)
(* device's last clear, if the packet with the flag came and nothing was   *)
(* overtaken (network/udp.rs build_packet, udp.rs).                        *)
THEOREM TelemetryClear == TelemetrySpec => []ClearReachesServer
<1>1. TInv => ClearReachesServer
  BY DEF TInv, Flagged, FlagOnItsWay, Clean, Held, ClearReachesServer
<1> QED
  BY <1>1, TelemetryInvariant, PTL
=============================================================================
