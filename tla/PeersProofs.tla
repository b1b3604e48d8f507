---------------------------- MODULE PeersProofs ----------------------------
(* The NTP client for any configured servers, gateways, samples, number of *)
(* rounds and of late answers.                                             *)
(*                                                                         *)
(* The argument is about the table as a value: what an update does to one  *)
(* (Sound) is shown once for each kind of update, and followed through the *)
(* failures, the answer and the mirrored reply that make up a step.  What  *)
(* bounds the counts is the set of entries that may still be counted in    *)
(* the round under way (Owed).                                             *)
EXTENDS Peers, DataLemmas, FiniteSetTheorems

Addresses == Config \union Gateways
Queries == [server: Addresses, source: Sources, done: BOOLEAN]
Ranks == Nat \X Nat \X Nat

\* A server of the configuration, or a gateway.
Proper(source, server) ==
    \/ source = "config" /\ server \in Config
    \/ source = "dhcp" /\ server \in Gateways

\* At most one entry of a source for each server.
Table(P) ==
    /\ P \in [Slots -> Peer \union {None}]
    /\ \A i \in Slots : P[i] # None => Proper(P[i].source, P[i].address)
    /\ \A i, j \in Slots :
         (P[i] # None /\ IsPeer(P[j], P[i].source, P[i].address)) => i = j

\* The sample of an entry is what its server answered last.
Own(P, h) ==
    \A i \in Slots :
        (/\ P[i] # None /\ P[i].sample # None
         /\ ~(P[i].source = "dhcp" /\ P[i].address \in Config))
            => P[i].sample = h[P[i].address]

\* In r rounds every entry was counted at most r times, and those of O less.
Counted(P, r, O) ==
    \A i \in Slots : P[i] # None =>
        /\ P[i].ok + P[i].fail <= r
        /\ <<P[i].source, P[i].address>> \in O => P[i].ok + P[i].fail < r

\* The gateways in the table are those of E.
Gated(P, E) ==
    \A i \in Slots : (P[i] # None /\ P[i].source = "dhcp") => P[i].address \in E

Sound(P, h, r, O, E) == Table(P) /\ Own(P, h) /\ Counted(P, r, O) /\ Gated(P, E)

\* The entries that the queries of Q without an answer, or the mirrored reply
\* of a configured gateway, may still count.
Pairs(Q, I) == {<<Q[i].source, Q[i].server>> : i \in I}
Open(Q) == {i \in DOMAIN Q : ~Q[i].done}
Mirror(g) == IF g \in Config THEN {<<"dhcp", g>>} ELSE {}
Owed ==
    CASE pc = "sleep" -> {}
      [] pc = "wake"  -> Sources \X Addresses
      [] pc = "recv"  -> Pairs(pending, Open(pending)) \union Mirror(gw)

\* A query to each configured server at most, and one to a gateway that is none.
AskedOnce(Q, g) ==
    /\ \A i \in DOMAIN Q :
         \/ Q[i].source = "config" /\ Q[i].server \in Config
         \/ /\ Q[i].source = "dhcp" /\ Q[i].server = g
            /\ g \in Gateways /\ g \notin Config
    /\ \A i, j \in DOMAIN Q : Q[i].server = Q[j].server => i = j
    /\ Len(Q) <= MaxConfig + 1

\* The answers of a round are of different servers, and none beats the best.
AnswersOf(A, r) ==
    /\ A \subseteq [server: Addresses, round: Nat, rank: Ranks]
    /\ \A a \in A : a.round = r
    /\ \A a, b \in A : a.server = b.server => a = b

BestOf(A, b) ==
    /\ A # {} => b # None
    /\ b # None =>
         /\ b \in Candidate
         /\ \E a \in A : a.server = b.server /\ a.rank = b.rank
         /\ \A a \in A : ~Better(a.rank, b.rank)

DoneOf(A, Q) == \A a \in A : \E i \in DOMAIN Q : Q[i].done /\ Q[i].server = a.server

Typed ==
    /\ lease \in Leases \union {None}
    /\ statusPc \in {"up?", "down?"}
    /\ pc \in {"sleep", "wake", "recv"}
    /\ round \in Nat
    /\ gw \in Leases \union {NoGateway}
    /\ clock.round \in Nat /\ clock.round <= round
    /\ heard \in [Addresses -> Reply \union {None}]

\* What a round under way has asked and heard.
UnderWay ==
    /\ pending \in Seq(Queries) /\ AskedOnce(pending, gw)
    /\ AnswersOf(answers, round)
    /\ pc # "recv" => pending = <<>> /\ best = None
    /\ pc # "sleep" =>
         /\ clock.round < round /\ gw \in Leases
         /\ gw # NoGateway => gw \in entitled
         /\ BestOf(answers, best) /\ DoneOf(answers, pending)

IInv ==
    /\ Typed
    /\ Sound(peers, heard, round, Owed, entitled)
    /\ UnderWay
    /\ MasterAnswersThisRound
    /\ BestAnswer
----------------------------------------------------------------------------
(* One update of the table.                                                *)

(* What an update works on, and the table with an entry put in its slot.   *)
Entry(P, source, server) ==
    LET i == SlotFor(P, source, server)
    IN  IF i # 0 /\ IsPeer(P[i], source, server) THEN P[i]
        ELSE NewPeer(source, server)
Put(P, source, server, q) ==
    LET i == SlotFor(P, source, server)
    IN  IF i = 0 THEN P ELSE [P EXCEPT ![i] = q]

(* The three updates of the program, in these terms.                       *)
LEMMA FailurePut ==
    ASSUME NEW P, NEW source, NEW server
    PROVE  Failing(P, source, server)
             = Put(P, source, server, WithFailure(Entry(P, source, server)))
  BY DEF Failing, Update, Put, Entry

(* An answer, as an entry put in its slot.                               *)
LEMMA AnswerPut ==
    ASSUME NEW P, NEW source, NEW server, NEW s
    PROVE  Answering(P, source, server, s)
             = Put(P, source, server, WithStats(Entry(P, source, server), s))
  BY DEF Answering, Update, Put, Entry

(* The registration of a gateway, as an entry put in its slot.           *)
LEMMA RegisterPut ==
    ASSUME NEW P, NEW g
    PROVE  Registering(P, g) = Put(P, "dhcp", g, Entry(P, "dhcp", g))
  BY DEF Registering, Update, Put, Entry

(* The slot of a server: none in a full table without it, or its own, or   *)
(* a free one when it has none.                                            *)
LEMMA SlotFound ==
    ASSUME NEW P, NEW source, NEW server, NEW i, i = SlotFor(P, source, server)
    PROVE  \/ i = 0 /\ \A j \in Slots : P[j] # None /\ ~IsPeer(P[j], source, server)
           \/ i # 0 /\ i \in Slots /\ IsPeer(P[i], source, server)
           \/ /\ i # 0 /\ i \in Slots /\ P[i] = None
              /\ \A j \in Slots : ~IsPeer(P[j], source, server)
<1> DEFINE own  == {j \in Slots : IsPeer(P[j], source, server)}
           free == {j \in Slots : P[j] = None}
<1>1. own \in SUBSET Nat /\ free \in SUBSET Nat /\ 0 \notin own /\ 0 \notin free
  BY ConfigAssumption DEF Slots
<1>2. i = CASE own # {} -> Min(own) [] own = {} /\ free # {} -> Min(free) [] OTHER -> 0
  BY DEF SlotFor
<1> HIDE DEF own, free
<1>3. own # {} => Min(own) \in own
  BY <1>1, Least DEF Min
<1>4. free # {} => Min(free) \in free
  BY <1>1, Least DEF Min
<1>5. CASE own # {}
  BY <1>1, <1>2, <1>3, <1>5 DEF own
<1>6. CASE own = {} /\ free # {}
  BY <1>1, <1>2, <1>4, <1>6 DEF own, free
<1>7. CASE own = {} /\ free = {}
  BY <1>2, <1>7 DEF own, free
<1> QED
  BY <1>5, <1>6, <1>7

(* The entry an update works on is the server's.                           *)
LEMMA EntryOfServer ==
    ASSUME NEW P, Table(P), NEW source, NEW server, Proper(source, server),
           NEW e, e = Entry(P, source, server)
    PROVE  /\ e \in Peer /\ e.source = source /\ e.address = server
           /\ e = NewPeer(source, server) \/ \E j \in Slots : P[j] # None /\ e = P[j]
<1> DEFINE i == SlotFor(P, source, server)
<1>1. CASE i # 0 /\ IsPeer(P[i], source, server)
  <2>1. e = P[i]
    BY <1>1 DEF Entry
  <2>2. i \in Slots
    BY <1>1, SlotFound
  <2> HIDE DEF i
  <2> QED
    BY <1>1, <2>1, <2>2 DEF IsPeer, Table
<1>2. CASE ~(i # 0 /\ IsPeer(P[i], source, server))
  <2>1. e = NewPeer(source, server)
    BY <1>2 DEF Entry
  <2>2. source \in Sources /\ server \in Config \union Gateways
    BY DEF Proper, Sources
  <2> QED
    BY <2>1, <2>2 DEF NewPeer, Peer
<1> QED
  BY <1>1, <1>2

(* What a table is after an entry was put.                                 *)
LEMMA PutTable ==
    ASSUME NEW P, Table(P), NEW source, NEW server, Proper(source, server),
           NEW q \in Peer, q.source = source, q.address = server,
           NEW T, T = Put(P, source, server, q)
    PROVE  /\ Table(T)
           /\ \A j \in Slots :
                T[j] = q \/ (T[j] = P[j] /\ ~IsPeer(P[j], source, server))
           /\ \A j \in Slots :
                P[j] # None /\ ~IsPeer(P[j], source, server) => T[j] = P[j]
           /\ (\E j \in Slots : P[j] = None \/ IsPeer(P[j], source, server))
                => \E j \in Slots : T[j] = q
<1>1. PICK i : i = SlotFor(P, source, server)
  OBVIOUS
<1>2. T = IF i = 0 THEN P ELSE [P EXCEPT ![i] = q]
  BY <1>1 DEF Put
<1>3. P \in [Slots -> Peer \union {None}]
  BY DEF Table
<1>4. q # None
  BY AbsenceAssumption
<1>5. CASE i = 0
  <2>1. \A j \in Slots : P[j] # None /\ ~IsPeer(P[j], source, server)
    BY <1>1, <1>5, SlotFound
  <2> QED
    BY <1>2, <1>5, <2>1
<1>6. CASE i # 0
  <2>1. /\ i \in Slots /\ (P[i] = None \/ IsPeer(P[i], source, server))
        /\ \A j \in Slots : IsPeer(P[j], source, server) => j = i
    <3>1. /\ i \in Slots
          /\ \/ IsPeer(P[i], source, server)
             \/ P[i] = None /\ \A j \in Slots : ~IsPeer(P[j], source, server)
      BY <1>1, <1>6, SlotFound
    <3> QED
      BY <3>1 DEF Table, IsPeer
  <2>2. /\ T \in [Slots -> Peer \union {None}] /\ T[i] = q
        /\ \A j \in Slots : j # i => T[j] = P[j]
    BY <1>2, <1>3, <1>6, <2>1
  <2>3. \A j \in Slots : T[j] # None => Proper(T[j].source, T[j].address)
    BY <2>2 DEF Table
  <2>4. ASSUME NEW j \in Slots, NEW k \in Slots, T[j] # None,
               IsPeer(T[k], T[j].source, T[j].address)
        PROVE  j = k
    <3>1. CASE j = i
      BY <2>1, <2>2, <2>4, <3>1
    <3>2. CASE k = i /\ j # i
      BY <2>1, <2>2, <2>4, <3>2 DEF IsPeer
    <3>3. CASE j # i /\ k # i
      BY <2>2, <2>4, <3>3 DEF Table
    <3> QED
      BY <3>1, <3>2, <3>3
  <2>5. Table(T)
    BY <2>2, <2>3, <2>4 DEF Table
  <2> QED
    BY <2>1, <2>2, <2>5 DEF IsPeer
<1> QED
  BY <1>5, <1>6

(* A sound table stays sound if the entry put is.                          *)
LEMMA PutSound ==
    ASSUME NEW P, NEW h, NEW r \in Nat, NEW O, NEW E, Sound(P, h, r, O, E),
           NEW source, NEW server, Proper(source, server),
           NEW q \in Peer, q.source = source, q.address = server,
           NEW h2, NEW O2 \in SUBSET O,
           \A j \in Slots :
             (/\ P[j] # None /\ ~IsPeer(P[j], source, server)
              /\ ~(P[j].source = "dhcp" /\ P[j].address \in Config))
               => h2[P[j].address] = h[P[j].address],
           (q.sample # None /\ ~(source = "dhcp" /\ server \in Config))
               => q.sample = h2[server],
           q.ok + q.fail <= r,
           <<source, server>> \in O2 => q.ok + q.fail < r,
           source = "dhcp" => server \in E
    PROVE  Sound(Put(P, source, server, q), h2, r, O2, E)
<1>1. PICK T : T = Put(P, source, server, q)
  OBVIOUS
<1>2. /\ Table(T)
      /\ \A j \in Slots : T[j] = q \/ (T[j] = P[j] /\ ~IsPeer(P[j], source, server))
  BY <1>1, PutTable DEF Sound
<1>3. Own(T, h2)
  BY <1>2 DEF Own, Sound
<1>4. Counted(T, r, O2)
  BY <1>2 DEF Counted, Sound
<1>5. Gated(T, E)
  BY <1>2 DEF Gated, Sound
<1> QED
  BY <1>1, <1>2, <1>3, <1>4, <1>5 DEF Sound

(* The statistics are numbers.                                             *)
LEMMA EwmaIsNat ==
    ASSUME NEW j \in Nat, NEW a \in Int, NEW b \in Int
    PROVE  Ewma(j, a, b) \in Nat
<1>1. Apart(a, b) \in Nat
  BY DEF Apart
<1>2. 7 * j + Apart(a, b) \in Nat
  BY <1>1
<1> QED
  BY <1>2 DEF Ewma

(* A reply gives an entry one success more and is what it shows.         *)
LEMMA StatsTypes ==
    ASSUME NEW p \in Peer, NEW s \in Measured
    PROVE  /\ WithStats(p, s) \in Peer
           /\ WithStats(p, s).source = p.source
           /\ WithStats(p, s).address = p.address
           /\ WithStats(p, s).ok = p.ok + 1 /\ WithStats(p, s).fail = p.fail
           /\ WithStats(p, s).sample = [stratum |-> s.stratum, latency |-> s.latency]
<1> DEFINE sample == [stratum |-> s.stratum, latency |-> s.latency]
           jitter == IF p.sample = None THEN 0
                     ELSE Ewma(p.jitter, s.latency, p.sample.latency)
           offset == IF s.offset = None THEN p.offset ELSE s.offset
           offsetJitter == IF s.offset = None THEN p.offsetJitter
                           ELSE IF p.offset = None THEN 0
                           ELSE Ewma(p.offsetJitter, s.offset, p.offset)
<1>1. sample \in Reply
  BY DEF Measured, Reply
<1>2. jitter \in Nat
  <2>1. p.jitter \in Nat /\ (p.sample # None => p.sample.latency \in Int)
    BY DEF Peer, Reply
  <2>2. s.latency \in Int
    BY DEF Measured
  <2>3. p.sample # None => Ewma(p.jitter, s.latency, p.sample.latency) \in Nat
    BY <2>1, <2>2, EwmaIsNat
  <2> QED
    BY <2>3
<1>3. offset \in Int \union {None}
  BY DEF Peer, Measured
<1>4. offsetJitter \in Nat
  <2>1. p.offsetJitter \in Nat /\ (p.offset # None => p.offset \in Int)
    BY DEF Peer
  <2>2. s.offset # None => s.offset \in Int
    BY DEF Measured
  <2> QED
    BY <2>1, <2>2, EwmaIsNat
<1>5. WithStats(p, s) = [p EXCEPT !.sample = sample, !.jitter = jitter,
                                  !.offset = offset, !.offsetJitter = offsetJitter,
                                  !.ok = p.ok + 1]
  BY DEF WithStats
<1> HIDE DEF sample, jitter, offset, offsetJitter
<1>6. PICK q : q = WithStats(p, s)
  OBVIOUS
<1>7. /\ q.source = p.source /\ q.address = p.address
      /\ q.ok = p.ok + 1 /\ q.fail = p.fail /\ q.sample = sample
  BY <1>5, <1>6 DEF Peer
<1>8. q \in Peer
  <2>1. p.ok + 1 \in Nat /\ sample \in Reply \union {None}
    BY <1>1 DEF Peer
  <2> QED
    BY <1>2, <1>3, <1>4, <1>5, <1>6, <2>1 DEF Peer
<1> QED
  BY <1>6, <1>7, <1>8 DEF sample

(* What the entry an update works on counts and shows.                     *)
LEMMA EntrySound ==
    ASSUME NEW P, NEW h, NEW r \in Nat, NEW O, NEW E, Sound(P, h, r, O, E),
           NEW source, NEW server, Proper(source, server),
           NEW e, e = Entry(P, source, server)
    PROVE  /\ e \in Peer /\ e.source = source /\ e.address = server
           /\ e.ok + e.fail <= r
           /\ <<source, server>> \in O /\ r > 0 => e.ok + e.fail < r
           /\ (e.sample # None /\ ~(source = "dhcp" /\ server \in Config))
                => e.sample = h[server]
<1>1. /\ e \in Peer /\ e.source = source /\ e.address = server
      /\ e = NewPeer(source, server) \/ \E j \in Slots : P[j] # None /\ e = P[j]
  BY EntryOfServer DEF Sound
<1>2. CASE e = NewPeer(source, server)
  <2>1. e.ok = 0 /\ e.fail = 0 /\ e.sample = None
    BY <1>2 DEF NewPeer
  <2> QED
    BY <1>1, <2>1
<1>3. CASE \E j \in Slots : P[j] # None /\ e = P[j]
  <2>1. PICK j \in Slots : P[j] # None /\ e = P[j]
    BY <1>3
  <2>2. e.ok + e.fail <= r /\ (<<source, server>> \in O => e.ok + e.fail < r)
    BY <1>1, <2>1 DEF Sound, Counted
  <2>3. (e.sample # None /\ ~(source = "dhcp" /\ server \in Config))
          => e.sample = h[server]
    BY <1>1, <2>1 DEF Sound, Own
  <2> QED
    BY <1>1, <2>2, <2>3
<1> QED
  BY <1>1, <1>2, <1>3

\* Entries stay where they are and show what they showed.
Stays(P, T) ==
    \A j \in Slots : P[j] # None =>
        T[j] # None /\ T[j].source = P[j].source /\ T[j].address = P[j].address
          /\ T[j].sample = P[j].sample

(* A failure is counted once.                                              *)
LEMMA FailureSound ==
    ASSUME NEW P, NEW h, NEW r \in Nat, r > 0, NEW O, NEW E, Sound(P, h, r, O, E),
           NEW source, NEW server, Proper(source, server), <<source, server>> \in O,
           source = "dhcp" => server \in E,
           NEW T, T = Failing(P, source, server)
    PROVE  Sound(T, h, r, O \ {<<source, server>>}, E) /\ Stays(P, T)
<1>1. PICK e : e = Entry(P, source, server)
  OBVIOUS
<1>2. /\ e \in Peer /\ e.source = source /\ e.address = server
      /\ e.ok + e.fail < r
      /\ (e.sample # None /\ ~(source = "dhcp" /\ server \in Config))
           => e.sample = h[server]
  BY <1>1, EntrySound
<1>3. PICK q : q = WithFailure(e)
  OBVIOUS
<1>4. /\ q \in Peer /\ q.source = source /\ q.address = server
      /\ q.ok + q.fail <= r /\ q.sample = e.sample
  BY <1>2, <1>3 DEF WithFailure, Peer
<1>5. T = Put(P, source, server, q)
  BY <1>1, <1>3, FailurePut
<1>6. O \ {<<source, server>>} \in SUBSET O
  OBVIOUS
<1>7. Sound(Put(P, source, server, q), h, r, O \ {<<source, server>>}, E)
  BY <1>2, <1>4, <1>6, PutSound
<1>8. Stays(P, T)
  <2>1. /\ \A j \in Slots : T[j] = q \/ T[j] = P[j]
        /\ \A j \in Slots :
             P[j] # None /\ ~IsPeer(P[j], source, server) => T[j] = P[j]
    BY <1>4, <1>5, PutTable DEF Sound
  <2>2. ASSUME NEW j \in Slots, IsPeer(P[j], source, server)
        PROVE  P[j] = e
    <3>1. PICK i : i = SlotFor(P, source, server)
      OBVIOUS
    <3>2. i # 0 /\ i \in Slots /\ IsPeer(P[i], source, server)
      BY <2>2, <3>1, SlotFound DEF IsPeer
    <3>3. j = i
      BY <2>2, <3>2 DEF Sound, Table, IsPeer
    <3> QED
      BY <1>1, <3>1, <3>2, <3>3 DEF Entry
  <2>3. q # None
    BY <1>4, AbsenceAssumption
  <2> QED
    BY <1>2, <1>4, <2>1, <2>2, <2>3 DEF Stays, IsPeer
<1> QED
  BY <1>5, <1>7, <1>8

\* The entry of the server, if there is one, shows the reply.
Shows(T, source, server, reply) ==
    \A j \in Slots : IsPeer(T[j], source, server) =>
        T[j] \in Peer /\ T[j].sample = reply

(* An answer is counted once, and its server's entry shows it.             *)
LEMMA AnswerSound ==
    ASSUME NEW P, NEW h, NEW r \in Nat, r > 0, NEW O, NEW E, Sound(P, h, r, O, E),
           NEW source, NEW server, Proper(source, server), <<source, server>> \in O,
           source = "dhcp" => server \in E /\ server \notin Config,
           NEW s \in Measured,
           NEW h2, h2[server] = [stratum |-> s.stratum, latency |-> s.latency],
           \A a \in Addresses \ {server} : h2[a] = h[a],
           NEW T, T = Answering(P, source, server, s)
    PROVE  /\ Sound(T, h2, r, O \ {<<source, server>>}, E)
           /\ Shows(T, source, server, h2[server])
           /\ (\E j \in Slots : P[j] = None \/ IsPeer(P[j], source, server))
                => \E j \in Slots : IsPeer(T[j], source, server)
<1>1. PICK e : e = Entry(P, source, server)
  OBVIOUS
<1>2. /\ e \in Peer /\ e.source = source /\ e.address = server
      /\ e.ok + e.fail < r
  BY <1>1, EntrySound
<1>3. PICK q : q = WithStats(e, s)
  OBVIOUS
<1>4. server \in Addresses
  BY DEF Proper, Addresses
<1>5. /\ q \in Peer /\ q.source = source /\ q.address = server
      /\ q.ok + q.fail <= r /\ q.sample = h2[server]
  <2>1. /\ q \in Peer /\ q.source = e.source /\ q.address = e.address
        /\ q.ok = e.ok + 1 /\ q.fail = e.fail
        /\ q.sample = [stratum |-> s.stratum, latency |-> s.latency]
    BY <1>2, <1>3, StatsTypes
  <2>2. e.ok \in Nat /\ e.fail \in Nat
    BY <1>2 DEF Peer
  <2> QED
    BY <1>2, <1>4, <2>1, <2>2
<1>6. T = Put(P, source, server, q)
  BY <1>1, <1>3, AnswerPut
<1>7. O \ {<<source, server>>} \in SUBSET O
  OBVIOUS
<1>8. \A j \in Slots :
        (/\ P[j] # None /\ ~IsPeer(P[j], source, server)
         /\ ~(P[j].source = "dhcp" /\ P[j].address \in Config))
          => h2[P[j].address] = h[P[j].address]
  <2> SUFFICES ASSUME NEW j \in Slots, P[j] # None,
                      ~IsPeer(P[j], source, server), P[j].address = server
               PROVE  P[j].source = "dhcp" /\ P[j].address \in Config
    <3>1. \A j \in Slots : P[j] # None => P[j].address \in Addresses
      BY DEF Sound, Table, Proper, Addresses
    <3> QED
      BY <3>1
  <2>1. P[j].source # source
    BY DEF IsPeer
  <2>2. Proper(P[j].source, server)
    BY DEF Sound, Table
  <2> QED
    BY <2>1, <2>2 DEF Proper
<1>9. Sound(Put(P, source, server, q), h2, r, O \ {<<source, server>>}, E)
  <2>1. PICK O2 : O2 = O \ {<<source, server>>}
    OBVIOUS
  <2>2. O2 \in SUBSET O /\ <<source, server>> \notin O2
    BY <2>1
  <2>3. (q.sample # None /\ ~(source = "dhcp" /\ server \in Config))
          => q.sample = h2[server]
    BY <1>5
  <2>4. <<source, server>> \in O2 => q.ok + q.fail < r
    BY <2>2
  <2>5. Sound(Put(P, source, server, q), h2, r, O2, E)
    BY <1>5, <1>8, <2>2, <2>3, <2>4, PutSound
  <2> QED
    BY <2>1, <2>5
<1>10. /\ Table(T)
       /\ \A j \in Slots : T[j] = q \/ (T[j] = P[j] /\ ~IsPeer(P[j], source, server))
       /\ \A j \in Slots :
            P[j] # None /\ ~IsPeer(P[j], source, server) => T[j] = P[j]
       /\ (\E j \in Slots : P[j] = None \/ IsPeer(P[j], source, server))
            => \E j \in Slots : T[j] = q
  <2>1. Table(P)
    BY DEF Sound
  <2> QED
    BY <1>5, <1>6, <2>1, PutTable
<1>11. IsPeer(q, source, server)
  BY <1>5, AbsenceAssumption DEF IsPeer
<1>12. Shows(T, source, server, h2[server])
  BY <1>5, <1>10 DEF Shows
<1> QED
  BY <1>6, <1>9, <1>10, <1>11, <1>12

(* The mirrored reply counts for a configured gateway, whose entry shows   *)
(* what another server may have answered.                                  *)
LEMMA MirrorSound ==
    ASSUME NEW P, NEW h, NEW r \in Nat, r > 0, NEW O, NEW E, Sound(P, h, r, O, E),
           NEW g \in Gateways \intersect Config, <<"dhcp", g>> \in O, g \in E,
           NEW s \in Measured,
           NEW T, T = Answering(P, "dhcp", g, s)
    PROVE  /\ Sound(T, h, r, O \ {<<"dhcp", g>>}, E)
           /\ \A j \in Slots : IsPeer(P[j], "config", P[j].address) => T[j] = P[j]
<1>1. PICK e : e = Entry(P, "dhcp", g)
  OBVIOUS
<1>2. Proper("dhcp", g)
  BY DEF Proper
<1>3. e \in Peer /\ e.source = "dhcp" /\ e.address = g /\ e.ok + e.fail < r
  BY <1>1, <1>2, EntrySound
<1>4. PICK q : q = WithStats(e, s)
  OBVIOUS
<1>5. q \in Peer /\ q.source = "dhcp" /\ q.address = g /\ q.ok + q.fail <= r
  <2>1. /\ q \in Peer /\ q.source = e.source /\ q.address = e.address
        /\ q.ok = e.ok + 1 /\ q.fail = e.fail
    BY <1>3, <1>4, StatsTypes
  <2>2. e.ok \in Nat /\ e.fail \in Nat
    BY <1>3 DEF Peer
  <2> QED
    BY <1>3, <2>1, <2>2
<1>6. T = Put(P, "dhcp", g, q)
  BY <1>1, <1>4, AnswerPut
<1>7. PICK O2 : O2 = O \ {<<"dhcp", g>>}
  OBVIOUS
<1>8. O2 \in SUBSET O /\ <<"dhcp", g>> \notin O2
  BY <1>7
<1>9. Sound(Put(P, "dhcp", g, q), h, r, O2, E)
  BY <1>2, <1>5, <1>8, PutSound
<1>10. \A j \in Slots : IsPeer(P[j], "config", P[j].address) => T[j] = P[j]
  <2>1. Table(P)
    BY DEF Sound
  <2>2. \A j \in Slots : P[j] # None /\ ~IsPeer(P[j], "dhcp", g) => T[j] = P[j]
    BY <1>2, <1>5, <1>6, <2>1, PutTable
  <2> QED
    BY <2>2 DEF IsPeer
<1> QED
  BY <1>6, <1>7, <1>9, <1>10

(* Registering a gateway counts nothing.                                   *)
LEMMA RegisterSound ==
    ASSUME NEW P, NEW h, NEW r \in Nat, NEW O, O # {} => r > 0,
           NEW E, Sound(P, h, r, O, E), NEW g \in Gateways, g \in E
    PROVE  Sound(Registering(P, g), h, r, O, E)
<1>1. PICK e : e = Entry(P, "dhcp", g)
  OBVIOUS
<1>2. Proper("dhcp", g)
  BY DEF Proper
<1>3. /\ e \in Peer /\ e.source = "dhcp" /\ e.address = g
      /\ e.ok + e.fail <= r
      /\ <<"dhcp", g>> \in O => e.ok + e.fail < r
      /\ e.sample # None /\ g \notin Config => e.sample = h[g]
  <2>1. PICK source : source = "dhcp"
    OBVIOUS
  <2>2. Proper(source, g) /\ e = Entry(P, source, g)
    BY <1>1, <1>2, <2>1
  <2>3. /\ e \in Peer /\ e.source = source /\ e.address = g
        /\ e.ok + e.fail <= r
        /\ <<source, g>> \in O /\ r > 0 => e.ok + e.fail < r
        /\ (e.sample # None /\ ~(source = "dhcp" /\ g \in Config))
             => e.sample = h[g]
    BY <2>2, EntrySound
  <2>4. <<source, g>> \in O => r > 0
    OBVIOUS
  <2> QED
    BY <2>1, <2>3, <2>4
<1>4. Registering(P, g) = Put(P, "dhcp", g, e)
  BY <1>1, RegisterPut
<1>5. O \in SUBSET O
  OBVIOUS
<1> QED
  BY <1>2, <1>3, <1>4, <1>5, PutSound

(* Taking gateways out leaves the others as they were.                     *)
LEMMA WithoutSound ==
    ASSUME NEW P, NEW h, NEW r, NEW O, NEW E, Sound(P, h, r, O, E),
           NEW K, NEW E2, K \subseteq E2
    PROVE  Sound(WithoutGateways(P, K), h, r, O, E2)
<1>1. PICK T : T = WithoutGateways(P, K)
  OBVIOUS
<1>2. /\ T \in [Slots -> Peer \union {None}]
      /\ \A j \in Slots : T[j] = None \/ T[j] = P[j]
      /\ \A j \in Slots : T[j] # None /\ T[j].source = "dhcp" => T[j].address \in K
  BY <1>1 DEF WithoutGateways, Sound, Table
<1>3. Table(T)
  BY <1>2 DEF Sound, Table, IsPeer
<1>4. Own(T, h) /\ Counted(T, r, O) /\ Gated(T, E2)
  BY <1>2 DEF Sound, Own, Counted, Gated
<1> QED
  BY <1>1, <1>3, <1>4 DEF Sound

(* Less may be owed, and more be entitled; a new round allows one count    *)
(* more.                                                                   *)
LEMMA SoundWeaker ==
    ASSUME NEW P, NEW h, NEW r, NEW O, NEW E, Sound(P, h, r, O, E),
           NEW O2 \in SUBSET O, NEW E2, E \subseteq E2
    PROVE  Sound(P, h, r, O2, E2)
  BY DEF Sound, Counted, Gated

(* A new round allows one count more, whatever is owed in it.            *)
LEMMA SoundNextRound ==
    ASSUME NEW P, NEW h, NEW r \in Nat, NEW O, NEW E, Sound(P, h, r, O, E),
           NEW O2, NEW E2, E \subseteq E2
    PROVE  Sound(P, h, r + 1, O2, E2)
<1>1. \A j \in Slots : P[j] # None => P[j].ok \in Nat /\ P[j].fail \in Nat
  BY DEF Sound, Table, Peer
<1>2. Counted(P, r + 1, O2)
  BY <1>1 DEF Sound, Counted
<1> QED
  BY <1>2 DEF Sound, Gated

----------------------------------------------------------------------------
(* Failures, one after the other.                                          *)

\* f counts the failures of Q at the places I, up to the n-th.
FailureFunction(f, P, Q, I, n) ==
    f = [i \in 0 .. n |->
           IF i = 0 THEN P
           ELSE IF i \in I THEN Failing(f[i - 1], Q[i].source, Q[i].server)
           ELSE f[i - 1]]

(* The failures of a round can be counted one after the other.           *)
LEMMA FailuresExist ==
    ASSUME NEW P, NEW Q, NEW I, NEW n \in Nat
    PROVE  \E f : FailureFunction(f, P, Q, I, n)
<1> DEFINE Done == {m \in Nat : \E f : FailureFunction(f, P, Q, I, m)}
<1>1. 0 \in Done
  <2>1. FailureFunction([i \in 0 .. 0 |-> P], P, Q, I, 0)
    BY DEF FailureFunction
  <2> QED
    BY <2>1
<1>2. ASSUME NEW m \in Nat, m \in Done PROVE m + 1 \in Done
  <2>1. PICK f : FailureFunction(f, P, Q, I, m)
    BY <1>2
  <2> DEFINE Step(v, i) == IF i \in I THEN Failing(v, Q[i].source, Q[i].server) ELSE v
             g == [i \in 0 .. m + 1 |-> IF i = m + 1 THEN Step(f[m], m + 1) ELSE f[i]]
  <2>2. \A i \in 0 .. m : f[i] = IF i = 0 THEN P ELSE Step(f[i - 1], i)
    BY <2>1 DEF FailureFunction
  <2>3. g = [i \in 0 .. m + 1 |-> g[i]]
    OBVIOUS
  <2>4. g[m + 1] = Step(f[m], m + 1) /\ \A i \in 0 .. m : g[i] = f[i]
    OBVIOUS
  <2> HIDE DEF g, Step
  <2>5. \A i \in 0 .. m + 1 : g[i] = IF i = 0 THEN P ELSE Step(g[i - 1], i)
    <3> SUFFICES ASSUME NEW i \in 0 .. m + 1
                 PROVE  g[i] = IF i = 0 THEN P ELSE Step(g[i - 1], i)
      OBVIOUS
    <3>1. CASE i \in 0 .. m
      BY <2>2, <2>4, <3>1
    <3>2. CASE i = m + 1
      BY <2>4, <3>2
    <3> QED
      BY <3>1, <3>2
  <2>6. FailureFunction(g, P, Q, I, m + 1)
    BY <2>3, <2>5 DEF FailureFunction, Step
  <2> QED
    BY <2>6
<1> HIDE DEF Done
<1>3. Nat \subseteq Done
  BY <1>1, <1>2, Induction
<1> QED
  BY <1>3 DEF Done

(* Failures of different queries, each of which was owed, leave the table  *)
(* sound and its entries in place.                                         *)
LEMMA FailuresSound ==
    ASSUME NEW P, NEW h, NEW r \in Nat, r > 0, NEW O, NEW E, Sound(P, h, r, O, E),
           NEW Q, Len(Q) \in Nat, NEW I \in SUBSET (1 .. Len(Q)),
           \A i \in I : /\ Proper(Q[i].source, Q[i].server)
                        /\ Q[i].source = "dhcp" => Q[i].server \in E
                        /\ <<Q[i].source, Q[i].server>> \in O,
           \A i, j \in I : Q[i].server = Q[j].server => i = j,
           NEW W, W = WithFailures(P, Q, I)
    PROVE  Sound(W, h, r, O \ Pairs(Q, I), E) /\ Stays(P, W)
<1> DEFINE f == CHOOSE g : FailureFunction(g, P, Q, I, Len(Q))
           To(n) == {i \in I : i <= n}
           Done == {n \in Nat : n <= Len(Q) =>
                      /\ Sound(f[n], h, r, O \ Pairs(Q, To(n)), E)
                      /\ Stays(P, f[n])}
<1>1. W = f[Len(Q)]
  BY DEF WithFailures, FailureFunction
<1>2. FailureFunction(f, P, Q, I, Len(Q))
  BY FailuresExist
<1> HIDE DEF f
<1>3. \A i \in I : i \in Nat /\ i <= Len(Q)
  OBVIOUS
<1>4. /\ f[0] = P
      /\ \A i \in 1 .. Len(Q) :
           f[i] = IF i \in I THEN Failing(f[i - 1], Q[i].source, Q[i].server)
                  ELSE f[i - 1]
  <2>1. PICK g : g = f /\ FailureFunction(g, P, Q, I, Len(Q))
    BY <1>2
  <2>2. \A i \in 0 .. Len(Q) :
          g[i] = IF i = 0 THEN P
                 ELSE IF i \in I THEN Failing(g[i - 1], Q[i].source, Q[i].server)
                 ELSE g[i - 1]
    BY <2>1 DEF FailureFunction
  <2> QED
    BY <2>1, <2>2
<1>5. 0 \in Done
  <2>1. Pairs(Q, To(0)) = {}
    BY DEF Pairs
  <2>2. O \ {} = O
    OBVIOUS
  <2>3. Stays(P, P)
    BY DEF Stays
  <2> QED
    BY <1>4, <2>1, <2>2, <2>3
<1>6. ASSUME NEW n \in Nat, n \in Done PROVE n + 1 \in Done
  <2> SUFFICES ASSUME n + 1 <= Len(Q)
               PROVE  /\ Sound(f[n + 1], h, r, O \ Pairs(Q, To(n + 1)), E)
                      /\ Stays(P, f[n + 1])
    OBVIOUS
  <2>1. PICK R, O2 : R = f[n] /\ O2 = O \ Pairs(Q, To(n))
    OBVIOUS
  <2>2. Sound(R, h, r, O2, E) /\ Stays(P, R)
    BY <1>6, <2>1
  <2>3. CASE n + 1 \notin I
    <3>1. To(n + 1) = To(n)
      BY <2>3
    <3>2. f[n + 1] = R
      BY <1>4, <2>1, <2>3
    <3> HIDE DEF To
    <3> QED
      BY <2>1, <2>2, <3>1, <3>2
  <2>4. CASE n + 1 \in I
    <3>1. PICK source, server : source = Q[n + 1].source /\ server = Q[n + 1].server
      OBVIOUS
    <3>2. f[n + 1] = Failing(R, source, server)
      BY <1>4, <2>1, <2>4, <3>1
    <3>3. <<source, server>> \in O2
      <4>1. <<source, server>> \notin Pairs(Q, To(n))
        BY <1>3, <2>4, <3>1 DEF Pairs
      <4> QED
        BY <2>1, <2>4, <3>1, <4>1
    <3>4. Proper(source, server) /\ (source = "dhcp" => server \in E)
      BY <2>4, <3>1
    <3>5. PICK T : T = Failing(R, source, server)
      OBVIOUS
    <3>6. Sound(T, h, r, O2 \ {<<source, server>>}, E) /\ Stays(R, T)
      BY <2>2, <3>3, <3>4, <3>5, FailureSound
    <3>7. O2 \ {<<source, server>>} = O \ Pairs(Q, To(n + 1))
      <4>1. To(n + 1) = To(n) \union {n + 1}
        <5>1. \A i \in I : i <= n + 1 <=> i <= n \/ i = n + 1
          BY <1>3
        <5> QED
          BY <2>4, <5>1
      <4> HIDE DEF To
      <4>2. Pairs(Q, To(n + 1)) = Pairs(Q, To(n)) \union {<<source, server>>}
        BY <3>1, <4>1 DEF Pairs
      <4> QED
        BY <2>1, <4>2
    <3>8. Stays(P, T)
      BY <2>2, <3>6 DEF Stays
    <3> QED
      BY <3>2, <3>5, <3>6, <3>7, <3>8
  <2> QED
    BY <2>3, <2>4
<1>7. Nat \subseteq Done
  <2> HIDE DEF Done
  <2> QED
    BY <1>5, <1>6, Induction
<1>8. To(Len(Q)) = I
  BY <1>3
<1> HIDE DEF To
<1>9. Sound(f[Len(Q)], h, r, O \ Pairs(Q, To(Len(Q))), E) /\ Stays(P, f[Len(Q)])
  <2>1. PICK n \in Nat : n = Len(Q)
    OBVIOUS
  <2>2. n \in Done
    <3> HIDE DEF Done
    <3> QED
      BY <1>7, <2>1
  <2> QED
    BY <2>1, <2>2
<1> QED
  BY <1>1, <1>8, <1>9

----------------------------------------------------------------------------
(* The order of the answers.                                               *)

(* Not to be better is a preorder, and total.                              *)
LEMMA BetterOrder ==
    ASSUME NEW a \in Ranks, NEW b \in Ranks, NEW c \in Ranks
    PROVE  /\ ~Better(a, a)
           /\ Better(a, b) => ~Better(b, a)
           /\ ~Better(a, b) /\ ~Better(b, c) => ~Better(a, c)
<1>1. /\ a[1] \in Nat /\ a[2] \in Nat /\ a[3] \in Nat
      /\ b[1] \in Nat /\ b[2] \in Nat /\ b[3] \in Nat
      /\ c[1] \in Nat /\ c[2] \in Nat /\ c[3] \in Nat
  BY DEF Ranks
<1> QED
  BY <1>1 DEF Better

(* The choice between the best answer so far and a new one from a server   *)
(* that had not answered.                                                  *)
LEMMA ChoiceIsBest ==
    ASSUME NEW A, NEW r, AnswersOf(A, r), BestOf(A, best),
           NEW new \in Candidate,
           NEW a, a = [server |-> new.server, round |-> r, rank |-> new.rank],
           r \in Nat, \A x \in A : x.server # new.server
    PROVE  /\ AnswersOf(A \union {a}, r)
           /\ BestOf(A \union {a}, Choice(new))
           /\ Choice(new) = new \/ Choice(new) = best
<1>1. new.rank \in Ranks /\ new.server \in Addresses /\ new # None
  BY AbsenceAssumption DEF Candidate, Ranks, Addresses
<1>2. AnswersOf(A \union {a}, r)
  BY <1>1 DEF AnswersOf
<1>3. \A x \in A : x.rank \in Ranks
  BY DEF AnswersOf
<1>4. a.server = new.server /\ a.rank = new.rank
  OBVIOUS
<1>5. CASE best = None
  <2>1. Choice(new) = new /\ A = {}
    BY <1>5 DEF Choice, BestOf
  <2> QED
    BY <1>1, <1>2, <1>4, <2>1, BetterOrder DEF BestOf
<1>6. CASE best # None /\ Better(new.rank, best.rank)
  <2>1. Choice(new) = new /\ best.rank \in Ranks
    BY <1>6 DEF Choice, BestOf, Candidate, Ranks
  <2>2. \A x \in A : ~Better(x.rank, best.rank)
    BY <1>6 DEF BestOf
  <2>3. \A x \in A : ~Better(x.rank, new.rank)
    BY <1>1, <1>3, <1>6, <2>1, <2>2, BetterOrder
  <2> QED
    BY <1>1, <1>2, <1>4, <2>1, <2>3, BetterOrder DEF BestOf
<1>7. CASE best # None /\ ~Better(new.rank, best.rank)
  <2>1. Choice(new) = best
    BY <1>7 DEF Choice
  <2> QED
    BY <1>2, <1>4, <1>7, <2>1 DEF BestOf
<1> QED
  BY <1>5, <1>6, <1>7

----------------------------------------------------------------------------
(* A round goes on, or ends.                                               *)

\* What holds of a round r with the gateway g while it is under way: the table
\* P, the queries Q, the best answer b of the answers A, what was heard (h)
\* and what is entitled (E).
Consistent(P, h, r, E, Q, g, A, b) ==
    /\ r \in Nat /\ clock.round \in Nat /\ clock.round < r
    /\ g \in Leases /\ (g # NoGateway => g \in E)
    /\ lease \in Leases \union {None} /\ statusPc \in {"up?", "down?"}
    /\ h \in [Addresses -> Reply \union {None}]
    /\ Sound(P, h, r, Pairs(Q, Open(Q)) \union Mirror(g), E)
    /\ Q \in Seq(Queries) /\ AskedOnce(Q, g)
    /\ AnswersOf(A, r) /\ BestOf(A, b) /\ DoneOf(A, Q)

\* Where the rest of the next state is that of this round.
Onward(h, r, E, g, A) ==
    /\ heard' = h /\ round' = r /\ entitled' = E /\ gw' = g /\ answers' = A
    /\ UNCHANGED <<stack, statusPc>>

(* The queries without an answer are places of the sequence, and different.*)
LEMMA OpenPlaces ==
    ASSUME NEW Q \in Seq(Queries), NEW g, AskedOnce(Q, g)
    PROVE  /\ Len(Q) \in Nat /\ DOMAIN Q = 1 .. Len(Q)
           /\ Open(Q) \in SUBSET (1 .. Len(Q))
           /\ \A i \in DOMAIN Q : Proper(Q[i].source, Q[i].server)
           /\ \A i, j \in DOMAIN Q : Q[i].server = Q[j].server => i = j
           /\ g \in Config => <<"dhcp", g>> \notin Pairs(Q, Open(Q))
<1>1. Len(Q) \in Nat /\ DOMAIN Q = 1 .. Len(Q)
  OBVIOUS
<1>2. \A i \in DOMAIN Q : Proper(Q[i].source, Q[i].server)
  BY DEF AskedOnce, Proper
<1>3. g \in Config => <<"dhcp", g>> \notin Pairs(Q, Open(Q))
  BY DEF AskedOnce, Pairs, Open
<1> QED
  BY <1>1, <1>2, <1>3 DEF AskedOnce, Open

(* The end of a round leaves a sound table with nothing owed; the entries  *)
(* of the configured servers stay as they are.                             *)
LEMMA EndSound ==
    ASSUME NEW P, NEW h, NEW r, NEW E, NEW Q, NEW g, NEW A, NEW b,
           Consistent(P, h, r, E, Q, g, A, b), b # None => g = gw,
           EndRound(P, Q, b)
    PROVE  /\ Sound(peers', h, r, {}, E)
           /\ \A j \in Slots, a \in Config : IsPeer(P[j], "config", a) =>
                IsPeer(peers'[j], "config", a) /\ peers'[j].sample = P[j].sample
<1>1. PICK I : I = Open(Q)
  OBVIOUS
<1>2. PICK W : W = WithFailures(P, Q, I)
  OBVIOUS
<1>3. PICK O : O = Pairs(Q, I) \union Mirror(g)
  OBVIOUS
<1>4. r \in Nat /\ r > 0 /\ Sound(P, h, r, O, E) /\ (g # NoGateway => g \in E)
  BY <1>1, <1>3 DEF Consistent
<1>5. /\ Len(Q) \in Nat /\ I \in SUBSET (1 .. Len(Q)) /\ DOMAIN Q = 1 .. Len(Q)
      /\ \A i \in I : /\ Proper(Q[i].source, Q[i].server)
                      /\ Q[i].source = "dhcp" => Q[i].server \in E
                      /\ <<Q[i].source, Q[i].server>> \in O
      /\ \A i, j \in I : Q[i].server = Q[j].server => i = j
      /\ g \in Config => <<"dhcp", g>> \notin Pairs(Q, I)
  <2>1. Q \in Seq(Queries) /\ AskedOnce(Q, g)
    BY DEF Consistent
  <2>2. \A i \in DOMAIN Q : Q[i].source = "dhcp" => Q[i].server \in E
    BY <1>4, <2>1 DEF AskedOnce, Gateways
  <2>3. \A i \in I : <<Q[i].source, Q[i].server>> \in O
    BY <1>3 DEF Pairs
  <2> QED
    BY <1>1, <2>1, <2>2, <2>3, OpenPlaces
<1>6. Sound(W, h, r, O \ Pairs(Q, I), E) /\ Stays(P, W)
  BY <1>2, <1>4, <1>5, FailuresSound
<1>7. PICK O2 : O2 = O \ Pairs(Q, I)
  OBVIOUS
<1>8. peers' = Mirrored(W, b)
  BY <1>1, <1>2 DEF EndRound, Open
<1>9. \A j \in Slots, a \in Config : IsPeer(P[j], "config", a) =>
        IsPeer(W[j], "config", a) /\ W[j].sample = P[j].sample
  BY <1>6 DEF Stays, IsPeer
<1>10. CASE gw \in Config /\ b # None /\ b.source = "config"
  <2>1. peers' = Answering(W, "dhcp", g, b.sample) /\ g = gw
    BY <1>8, <1>10 DEF Mirrored
  <2>2. g \in Gateways \intersect Config /\ g \in E /\ <<"dhcp", g>> \in O2
    BY <1>3, <1>4, <1>5, <1>7, <1>10, <2>1, AbsenceAssumption
       DEF Consistent, Gateways, Mirror
  <2>3. b.sample \in Measured
    BY <1>10 DEF Consistent, BestOf, Candidate
  <2>4. /\ Sound(peers', h, r, O2 \ {<<"dhcp", g>>}, E)
        /\ \A j \in Slots : IsPeer(W[j], "config", W[j].address) => peers'[j] = W[j]
    <3>1. PICK T, s : T = peers' /\ s = b.sample
      OBVIOUS
    <3>2. Sound(W, h, r, O2, E)
      BY <1>6, <1>7
    <3>3. T = Answering(W, "dhcp", g, s) /\ s \in Measured
      BY <2>1, <2>3, <3>1
    <3>4. /\ Sound(T, h, r, O2 \ {<<"dhcp", g>>}, E)
          /\ \A j \in Slots : IsPeer(W[j], "config", W[j].address) => T[j] = W[j]
      BY <1>4, <2>2, <3>2, <3>3, MirrorSound
    <3> QED
      BY <3>1, <3>4
  <2>5. Sound(peers', h, r, {}, E)
    BY <2>4, SoundWeaker
  <2> QED
    BY <1>9, <2>4, <2>5 DEF IsPeer
<1>11. CASE ~(gw \in Config /\ b # None /\ b.source = "config")
  <2>1. peers' = W
    BY <1>8, <1>11 DEF Mirrored
  <2>2. Sound(W, h, r, {}, E)
    BY <1>6, SoundWeaker
  <2> QED
    BY <1>9, <2>1, <2>2
<1> QED
  BY <1>10, <1>11

(* The end of a round keeps the invariant.                                 *)
LEMMA EndKeeps ==
    ASSUME NEW P, NEW h, NEW r, NEW E, NEW Q, NEW g, NEW A, NEW b,
           Consistent(P, h, r, E, Q, g, A, b), b # None => g = gw /\ r = round,
           EndRound(P, Q, b), Onward(h, r, E, g, A)
    PROVE  IInv'
<1>1. Sound(peers', h, r, {}, E)
  BY EndSound
<1>2. /\ pc' = "sleep" /\ pending' = <<>> /\ best' = None
      /\ b = None => clock' = clock
      /\ b # None => clock'.round = r /\ clock'.master = b.server
  BY DEF EndRound
<1>3. /\ r \in Nat /\ clock.round \in Nat /\ clock.round < r /\ g \in Leases
      /\ AnswersOf(A, r) /\ BestOf(A, b)
  BY DEF Consistent
<1>4. clock'.round \in Nat /\ clock'.round <= r
  BY <1>2, <1>3
<1>5. Typed'
  BY <1>2, <1>3, <1>4 DEF Typed, Onward, Consistent, stack
<1>6. Sound(peers', heard', round', Owed', entitled')
  BY <1>1, <1>2 DEF Owed, Onward
<1>7. UnderWay'
  <2>1. <<>> \in Seq(Queries) /\ AskedOnce(<<>>, g)
    BY ConfigAssumption DEF AskedOnce
  <2> QED
    BY <1>2, <1>3, <2>1 DEF UnderWay, Onward
<1>8. \A a \in A : a.round = r
  BY <1>3 DEF AnswersOf
<1>9. MasterAnswersThisRound'
  <2>1. CASE b = None
    BY <1>2, <1>3, <2>1 DEF MasterAnswersThisRound, Onward
  <2>2. CASE b # None
    <3>1. PICK a \in A : a.server = b.server
      BY <1>3, <2>2 DEF BestOf
    <3> QED
      BY <1>2, <1>8, <2>2, <3>1 DEF MasterAnswersThisRound, Onward
  <2> QED
    BY <2>1, <2>2
<1>10. BestAnswer'
  <2> SUFFICES ASSUME A # {}
               PROVE  /\ clock'.round = r
                      /\ \A m, a \in A :
                            m.server = clock'.master => ~Better(a.rank, m.rank)
    BY DEF BestAnswer, Onward
  <2>1. /\ b # None
        /\ \E a \in A : a.server = b.server /\ a.rank = b.rank
        /\ \A a \in A : ~Better(a.rank, b.rank)
    BY <1>3 DEF BestOf
  <2>2. \A m \in A : m.server = b.server => m.rank = b.rank
    BY <1>3, <2>1 DEF AnswersOf
  <2> QED
    BY <1>2, <2>1, <2>2
<1> QED
  BY <1>5, <1>6, <1>7, <1>9, <1>10 DEF IInv, Onward

(* Going on with a round, or ending it, keeps the invariant.               *)
LEMMA ProceedKeeps ==
    ASSUME NEW P, NEW h, NEW r, NEW E, NEW Q, NEW g, NEW A, NEW b,
           Consistent(P, h, r, E, Q, g, A, b), b # None => g = gw /\ r = round,
           Proceed(P, Q, b), Onward(h, r, E, g, A)
    PROVE  IInv'
<1>1. CASE \A i \in DOMAIN Q : Q[i].done
  BY <1>1, EndKeeps DEF Proceed
<1>2. CASE ~(\A i \in DOMAIN Q : Q[i].done)
  <2>1. pc' = "recv" /\ peers' = P /\ pending' = Q /\ best' = b /\ clock' = clock
    BY <1>2 DEF Proceed
  <2>2. /\ r \in Nat /\ clock.round \in Nat /\ clock.round < r /\ g \in Leases
        /\ Sound(P, h, r, Pairs(Q, Open(Q)) \union Mirror(g), E)
    BY DEF Consistent
  <2>3. Typed'
    BY <2>1, <2>2 DEF Typed, Onward, Consistent, stack
  <2>4. Sound(peers', heard', round', Owed', entitled')
    <3>1. Owed' = Pairs(Q, Open(Q)) \union Mirror(g)
      BY <2>1 DEF Owed, Pairs, Open, Mirror, Onward
    <3> QED
      BY <2>1, <2>2, <3>1 DEF Onward
  <2>5. UnderWay'
    BY <2>1 DEF UnderWay, Onward, Consistent
  <2>6. MasterAnswersThisRound' /\ BestAnswer'
    BY <2>1, <2>2 DEF MasterAnswersThisRound, BestAnswer, Onward
  <2> QED
    BY <2>3, <2>4, <2>5, <2>6 DEF IInv
<1> QED
  BY <1>1, <1>2

----------------------------------------------------------------------------
(* The queries of a round.                                                 *)

Plain == [server: Addresses, source: Sources]

(* The servers of a round: the configured ones, and a gateway that is none *)
(* of them.                                                                *)
LEMMA ServersOf ==
    ASSUME NEW g \in Leases
    PROVE  Servers(g) \in Seq(Plain) /\ AskedOnce(Servers(g), g)
<1> DEFINE c == [i \in DOMAIN ConfigServers |->
                  [server |-> ConfigServers[i], source |-> "config"]]
<1>1. PICK n \in Nat : n = Len(ConfigServers)
  BY ConfigAssumption
<1>2. DOMAIN ConfigServers = 1 .. n /\ n <= MaxConfig /\ MaxConfig \in Nat
  BY <1>1, ConfigAssumption
<1>3. /\ \A i \in 1 .. n : ConfigServers[i] \in Config
      /\ \A i, j \in 1 .. n : ConfigServers[i] = ConfigServers[j] => i = j
  BY <1>2, ConfigAssumption DEF Config, Range, IsInjective
<1>4. \A i \in 1 .. n : [server |-> ConfigServers[i], source |-> "config"] \in Plain
  BY <1>3 DEF Plain, Addresses, Sources
<1>5. c \in Seq(Plain) /\ Len(c) = n
  BY <1>1, <1>2, <1>4
<1>6. \A i \in 1 .. n : c[i].server = ConfigServers[i] /\ c[i].source = "config"
  BY <1>2
<1> HIDE DEF c
<1>7. CASE g = NoGateway \/ g \in Config
  <2>1. Servers(g) = c \o <<>>
    BY <1>7 DEF Servers, c
  <2>2. Servers(g) = c
    BY <1>5, <2>1
  <2> QED
    BY <1>2, <1>3, <1>5, <1>6, <2>2 DEF AskedOnce
<1>8. CASE ~(g = NoGateway \/ g \in Config)
  <2>1. PICK d : d = [server |-> g, source |-> "dhcp"]
    OBVIOUS
  <2>2. g \in Gateways
    BY <1>8 DEF Gateways
  <2>3. d \in Plain
    BY <2>1, <2>2 DEF Plain, Addresses, Sources
  <2>4. PICK s : s = Servers(g)
    OBVIOUS
  <2>5. s = c \o <<d>>
    BY <1>8, <2>1, <2>4 DEF Servers, c
  <2>6. /\ s \in Seq(Plain) /\ Len(s) = n + 1 /\ s[n + 1] = d
        /\ \A i \in 1 .. n : s[i] = c[i]
    BY <1>5, <2>3, <2>5
  <2>7. DOMAIN s = 1 .. n + 1
    BY <2>6
  <2>8. \A i \in DOMAIN s :
          \/ i \in 1 .. n /\ s[i].server = ConfigServers[i] /\ s[i].source = "config"
          \/ i = n + 1 /\ s[i].server = g /\ s[i].source = "dhcp"
    BY <1>6, <2>1, <2>6, <2>7
  <2>9. \A i \in DOMAIN s :
          \/ s[i].source = "config" /\ s[i].server \in Config
          \/ s[i].source = "dhcp" /\ s[i].server = g /\ g \in Gateways /\ g \notin Config
    BY <1>3, <1>8, <2>2, <2>8
  <2>10. \A i, j \in DOMAIN s : s[i].server = s[j].server => i = j
    BY <1>3, <1>8, <2>8
  <2> QED
    BY <1>2, <2>4, <2>6, <2>9, <2>10 DEF AskedOnce
<1> QED
  BY <1>7, <1>8

(* A sieve lets no more through than there was.                            *)
LEMMA SievedLength ==
    ASSUME NEW S, NEW s \in Seq(S), NEW I
    PROVE  Len(Sieved(s, I)) <= Len(s)
<1>1. PICK t : t = Sieved(s, I)
  OBVIOUS
<1>2. t \in Seq(S) /\ \E at : Positions(at, t, s, I, Len(s))
  BY <1>1, SievedElements
<1>3. PICK at : Positions(at, t, s, I, Len(s))
  BY <1>2
<1>4. PICK m \in Nat, n \in Nat : m = Len(t) /\ n = Len(s)
  BY <1>2
<1>5. at \in Injection(1 .. m, 1 .. n)
  <2>1. at \in [1 .. m -> 1 .. n]
    BY <1>3, <1>4 DEF Positions
  <2>2. \A j, k \in 1 .. m : at[j] = at[k] => j = k
    BY <1>3, <1>4, <2>1 DEF Positions
  <2> QED
    BY <2>1, <2>2 DEF Injection, IsInjective
<1>6. IsFiniteSet(1 .. n) /\ Cardinality(1 .. n) = n /\ Cardinality(1 .. m) = m
  BY FS_Interval
<1>7. Cardinality(1 .. m) <= Cardinality(1 .. n)
  BY <1>5, <1>6, FS_Injection
<1> QED
  BY <1>1, <1>4, <1>6, <1>7

(* Queries that the stack refuses are failures of entries that owe them.   *)
LEMMA RefusedSound ==
    ASSUME NEW R, NEW h, NEW r \in Nat, r > 0, NEW E,
           Sound(R, h, r, Sources \X Addresses, E),
           NEW g \in Leases, g # NoGateway => g \in E,
           NEW all \in Seq(Plain), AskedOnce(all, g), NEW I \in SUBSET (DOMAIN all),
           NEW P, P = WithFailures(R, all, I)
    PROVE  Sound(P, h, r, (Sources \X Addresses) \ Pairs(all, I), E)
<1>1. PICK O : O = Sources \X Addresses
  OBVIOUS
<1>2. Len(all) \in Nat /\ DOMAIN all = 1 .. Len(all) /\ I \in SUBSET (1 .. Len(all))
  OBVIOUS
<1>3. \A i, j \in I : all[i].server = all[j].server => i = j
  BY DEF AskedOnce
<1>4. \A i \in I : Proper(all[i].source, all[i].server)
  BY DEF AskedOnce, Proper
<1>5. \A i \in I : all[i].source = "dhcp" => all[i].server \in E
  BY DEF AskedOnce, Gateways
<1>6. \A i \in I : <<all[i].source, all[i].server>> \in O
  <2>1. \A i \in DOMAIN all : all[i] \in Plain
    OBVIOUS
  <2>2. \A i \in I : all[i].source \in Sources /\ all[i].server \in Addresses
    BY <2>1 DEF Plain
  <2> QED
    BY <1>1, <2>2
<1>7. Sound(R, h, r, O, E)
  BY <1>1
<1>8. Sound(P, h, r, O \ Pairs(all, I), E)
  BY <1>2, <1>3, <1>4, <1>5, <1>6, <1>7, FailuresSound
<1> QED
  BY <1>1, <1>8

(* Sending the queries keeps the invariant.                                *)
LEMMA SendKeeps ==
    ASSUME NEW r, NEW E, NEW g \in Leases, NEW F,
           r \in Nat, clock.round \in Nat, clock.round < r, g # NoGateway => g \in E,
           lease \in Leases \union {None}, statusPc \in {"up?", "down?"},
           heard \in [Addresses -> Reply \union {None}],
           Sound(peers, heard, r, Sources \X Addresses, E),
           SendAll(r, g, F), Onward(heard, r, E, g, {})
    PROVE  IInv'
<1>1. PICK all : all = Servers(g)
  OBVIOUS
<1>2. PICK I : I = {i \in DOMAIN all : all[i].server \in F}
  OBVIOUS
<1>3. PICK sent : sent = Sieved(all, DOMAIN all \ I)
  OBVIOUS
<1>4. PICK P : P = WithFailures(peers, all, I)
  OBVIOUS
<1>5. PICK Q : Q = [i \in DOMAIN sent |-> [server |-> sent[i].server,
                                          source |-> sent[i].source,
                                          done |-> FALSE]]
  OBVIOUS
<1>6. Proceed(P, Q, None)
  BY <1>1, <1>2, <1>3, <1>4, <1>5 DEF SendAll
<1>7. /\ all \in Seq(Plain) /\ AskedOnce(all, g)
      /\ Len(all) \in Nat /\ DOMAIN all = 1 .. Len(all)
  BY <1>1, ServersOf
<1>8. /\ sent \in Seq(Plain) /\ \E at : Positions(at, sent, all, DOMAIN all \ I, Len(all))
      /\ Len(sent) <= Len(all)
  BY <1>3, <1>7, SievedElements, SievedLength
<1>9. PICK at : Positions(at, sent, all, DOMAIN all \ I, Len(all))
  BY <1>8
<1>10. /\ Len(sent) \in Nat /\ DOMAIN sent = 1 .. Len(sent)
       /\ \A j \in 1 .. Len(sent) :
            at[j] \in DOMAIN all \ I /\ sent[j] = all[at[j]] /\ sent[j] \in Plain
       /\ \A j, k \in 1 .. Len(sent) : j < k => at[j] < at[k]
  <2>1. Len(sent) \in Nat /\ DOMAIN sent = 1 .. Len(sent)
    BY <1>8
  <2>2. \A j \in 1 .. Len(sent) : sent[j] \in Plain
    BY <1>8
  <2>3. /\ \A j \in 1 .. Len(sent) : at[j] \in DOMAIN all \ I /\ sent[j] = all[at[j]]
        /\ \A j, k \in 1 .. Len(sent) : j < k => at[j] < at[k]
    BY <1>9 DEF Positions
  <2> QED
    BY <2>1, <2>2, <2>3
<1>11. /\ DOMAIN Q = 1 .. Len(sent)
       /\ \A j \in 1 .. Len(sent) :
            /\ Q[j].server = all[at[j]].server /\ Q[j].source = all[at[j]].source
            /\ Q[j].done = FALSE /\ Q[j] \in Queries
  BY <1>5, <1>10 DEF Plain, Queries
<1>12. Q \in Seq(Queries) /\ Len(Q) = Len(sent)
  <2>1. Q = [j \in 1 .. Len(sent) |-> Q[j]]
    BY <1>5, <1>10
  <2> QED
    BY <1>10, <1>11, <2>1
<1>13. \A j, k \in DOMAIN Q : all[at[j]].server = all[at[k]].server => j = k
  <2> SUFFICES ASSUME NEW j \in DOMAIN Q, NEW k \in DOMAIN Q,
                      all[at[j]].server = all[at[k]].server
               PROVE  j = k
    OBVIOUS
  <2>1. at[j] = at[k] /\ at[j] \in Nat /\ j \in Nat /\ k \in Nat
    BY <1>7, <1>10, <1>11 DEF AskedOnce
  <2> QED
    BY <1>10, <1>11, <2>1
<1>14. AskedOnce(Q, g)
  <2>1. Len(Q) <= MaxConfig + 1
    BY <1>7, <1>8, <1>10, <1>12, ConfigAssumption DEF AskedOnce
  <2> QED
    BY <1>7, <1>10, <1>11, <1>13, <2>1 DEF AskedOnce
<1>15. Sound(P, heard, r, (Sources \X Addresses) \ Pairs(all, I), E)
  <2>1. PICK R, h : R = peers /\ h = heard
    OBVIOUS
  <2>2. /\ Sound(R, h, r, Sources \X Addresses, E)
        /\ I \in SUBSET (DOMAIN all) /\ r > 0 /\ P = WithFailures(R, all, I)
    BY <1>2, <1>4, <2>1
  <2>3. Sound(P, h, r, (Sources \X Addresses) \ Pairs(all, I), E)
    BY <1>7, <2>2, RefusedSound
  <2> QED
    BY <2>1, <2>3
<1>16. Pairs(Q, Open(Q)) \union Mirror(g)
         \in SUBSET ((Sources \X Addresses) \ Pairs(all, I))
  <2>1. ASSUME NEW j \in DOMAIN Q
        PROVE  <<Q[j].source, Q[j].server>> \in (Sources \X Addresses) \ Pairs(all, I)
    <3>1. <<Q[j].source, Q[j].server>> \in Sources \X Addresses
      BY <1>11 DEF Queries
    <3>2. ASSUME NEW i \in I, all[i].server = Q[j].server
          PROVE  FALSE
      <4>1. at[j] = i
        <5>1. at[j] \in DOMAIN all /\ i \in DOMAIN all
                /\ all[i].server = all[at[j]].server
          BY <1>2, <1>10, <1>11, <3>2
        <5> QED
          BY <1>7, <5>1 DEF AskedOnce
      <4> QED
        BY <1>10, <1>11, <4>1
    <3> QED
      BY <3>1, <3>2 DEF Pairs
  <2>2. ASSUME g \in Config
        PROVE  <<"dhcp", g>> \in (Sources \X Addresses) \ Pairs(all, I)
    BY <1>2, <1>7, <2>2 DEF AskedOnce, Pairs, Sources, Addresses
  <2> QED
    BY <2>1, <2>2 DEF Pairs, Open, Mirror
<1>17. Sound(P, heard, r, Pairs(Q, Open(Q)) \union Mirror(g), E)
  BY <1>15, <1>16, SoundWeaker
<1>18. AnswersOf({}, r) /\ BestOf({}, None) /\ DoneOf({}, Q)
  BY DEF AnswersOf, BestOf, DoneOf
<1>19. Consistent(P, heard, r, E, Q, g, {}, None)
  BY <1>12, <1>14, <1>17, <1>18 DEF Consistent
<1> QED
  BY <1>6, <1>19, ProceedKeeps

----------------------------------------------------------------------------
(* The steps.                                                              *)

(* In the initial states nothing is asked and nothing is owed.             *)
LEMMA InitHolds == Init => IInv
<1> SUFFICES ASSUME Init PROVE IInv
  OBVIOUS
<1>1. /\ lease = None /\ statusPc = "up?" /\ pc = "sleep" /\ round = 0
      /\ gw = NoGateway /\ pending = <<>> /\ best = None /\ answers = {}
      /\ entitled = {}
  BY DEF Init
<1>2. PICK first, empty, never :
        /\ first = ConfigServers[1]
        /\ empty = [i \in Slots |-> None]
        /\ never = [a \in Addresses |-> None]
  OBVIOUS
<1>3. first \in Config /\ 1 \in Slots
  BY <1>2, ConfigAssumption DEF Config, Range, Slots
<1>4. \/ clock.round = 0 /\ peers = empty /\ heard = never
      \/ \E s \in Samples :
           /\ clock.round = 0
           /\ peers = [empty EXCEPT ![1] =
                 [WithStats(NewPeer("config", first), s) EXCEPT !.ok = 0]]
           /\ heard = [never EXCEPT ![first] =
                 [stratum |-> s.stratum, latency |-> s.latency]]
  <2> DEFINE f == ConfigServers[1]
             n == [a \in Config \union Gateways |-> None]
             e == [i \in Slots |-> None]
  <2>1. f = first /\ n = never /\ e = empty
    BY <1>2 DEF Addresses
  <2>2. \/ /\ clock = [synced |-> FALSE, master |-> None, source |-> None, round |-> 0]
           /\ peers = e /\ heard = n
        \/ \E s \in Samples :
             /\ clock = [synced |-> TRUE, master |-> f, source |-> "config",
                         round |-> 0]
             /\ peers = [e EXCEPT ![1] =
                   [WithStats(NewPeer("config", f), s) EXCEPT !.ok = 0]]
             /\ heard = [n EXCEPT ![f] =
                   [stratum |-> s.stratum, latency |-> s.latency]]
    BY Zenon DEF Init
  <2> HIDE DEF f, n, e
  <2>3. CASE /\ clock = [synced |-> FALSE, master |-> None, source |-> None,
                         round |-> 0]
             /\ peers = e /\ heard = n
    BY <2>1, <2>3
  <2>4. ASSUME NEW s \in Samples,
               clock = [synced |-> TRUE, master |-> f, source |-> "config",
                        round |-> 0],
               peers = [e EXCEPT ![1] =
                   [WithStats(NewPeer("config", f), s) EXCEPT !.ok = 0]],
               heard = [n EXCEPT ![f] =
                   [stratum |-> s.stratum, latency |-> s.latency]]
        PROVE  /\ clock.round = 0
               /\ peers = [empty EXCEPT ![1] =
                     [WithStats(NewPeer("config", first), s) EXCEPT !.ok = 0]]
               /\ heard = [never EXCEPT ![first] =
                     [stratum |-> s.stratum, latency |-> s.latency]]
    BY <2>1, <2>4
  <2> QED
    BY <2>2, <2>3, <2>4
<1>5. clock.round = 0 /\ heard \in [Addresses -> Reply \union {None}]
      /\ Sound(peers, heard, 0, {}, {})
  <2>1. CASE clock.round = 0 /\ peers = empty /\ heard = never
    <3>1. heard \in [Addresses -> Reply \union {None}]
      BY <1>2, <2>1
    <3>2. peers \in [Slots -> Peer \union {None}] /\ \A i \in Slots : peers[i] = None
      BY <1>2, <2>1
    <3> QED
      BY <2>1, <3>1, <3>2 DEF Sound, Table, Own, Counted, Gated
  <2>2. ASSUME NEW s \in Samples, clock.round = 0,
               peers = [empty EXCEPT ![1] =
                     [WithStats(NewPeer("config", first), s) EXCEPT !.ok = 0]],
               heard = [never EXCEPT ![first] =
                     [stratum |-> s.stratum, latency |-> s.latency]]
        PROVE  /\ heard \in [Addresses -> Reply \union {None}]
               /\ Sound(peers, heard, 0, {}, {})
    <3>1. s \in Measured
      BY SampleAssumption
    <3>2. PICK e : e = NewPeer("config", first)
      OBVIOUS
    <3>3. /\ e \in Peer /\ e.source = "config" /\ e.address = first
          /\ e.ok = 0 /\ e.fail = 0
      BY <1>3, <3>2 DEF NewPeer, Peer, Sources
    <3>4. PICK w : w = WithStats(e, s)
      OBVIOUS
    <3>5. PICK reply : reply = [stratum |-> s.stratum, latency |-> s.latency]
      OBVIOUS
    <3>6. /\ w \in Peer /\ w.source = "config" /\ w.address = first
          /\ w.fail = 0 /\ w.sample = reply
      BY <3>1, <3>3, <3>4, <3>5, StatsTypes
    <3>7. PICK q : q = [w EXCEPT !.ok = 0]
      OBVIOUS
    <3>8. /\ q \in Peer /\ q.source = "config" /\ q.address = first
          /\ q.ok = 0 /\ q.fail = 0 /\ q.sample = reply
      BY <3>6, <3>7 DEF Peer
    <3>9. /\ peers \in [Slots -> Peer \union {None}] /\ peers[1] = q
          /\ \A i \in Slots : i # 1 => peers[i] = None
      BY <1>2, <1>3, <2>2, <3>2, <3>4, <3>7, <3>8
    <3>10. reply \in Reply
      BY <3>1, <3>5 DEF Reply, Measured
    <3>11. heard \in [Addresses -> Reply \union {None}] /\ heard[first] = reply
      BY <1>2, <1>3, <2>2, <3>5, <3>10 DEF Addresses
    <3>12. Table(peers)
      BY <1>3, <3>8, <3>9 DEF Table, Proper, IsPeer
    <3>13. Own(peers, heard) /\ Counted(peers, 0, {}) /\ Gated(peers, {})
      BY <3>8, <3>9, <3>11 DEF Own, Counted, Gated
    <3> QED
      BY <3>11, <3>12, <3>13 DEF Sound
  <2> QED
    BY <1>4, <2>1, <2>2
<1>6. Typed
  BY <1>1, <1>5 DEF Typed
<1>7. UnderWay
  <2>1. <<>> \in Seq(Queries) /\ AskedOnce(<<>>, gw)
    BY ConfigAssumption DEF AskedOnce
  <2> QED
    BY <1>1, <2>1 DEF UnderWay, AnswersOf
<1> QED
  BY <1>1, <1>5, <1>6, <1>7 DEF IInv, Owed, MasterAnswersThisRound, BestAnswer

(* A step that only changes the table, and what is entitled, keeps the     *)
(* invariant if the table stays sound.                                     *)
LEMMA Unmoved ==
    ASSUME IInv, UNCHANGED <<query, ghosts>>,
           lease' \in Leases \union {None}, statusPc' \in {"up?", "down?"},
           Sound(peers', heard, round, Owed, entitled'),
           pc # "sleep" /\ gw # NoGateway => gw \in entitled'
    PROVE  IInv'
<1>1. /\ pc' = pc /\ round' = round /\ gw' = gw /\ pending' = pending
      /\ best' = best /\ clock' = clock /\ answers' = answers /\ heard' = heard
  BY DEF query, ghosts
<1>2. Typed'
  BY <1>1 DEF IInv, Typed
<1>3. Sound(peers', heard', round', Owed', entitled')
  <2>1. Owed' = Owed
    BY <1>1 DEF Owed, Pairs, Open, Mirror
  <2> QED
    BY <1>1, <2>1
<1>4. UnderWay'
  BY <1>1 DEF IInv, UnderWay
<1>5. MasterAnswersThisRound' /\ BestAnswer'
  BY <1>1 DEF IInv, MasterAnswersThisRound, BestAnswer
<1> QED
  BY <1>2, <1>3, <1>4, <1>5 DEF IInv

(* The table after the steps of wifi_status_task.                          *)
LEMMA StatusKeeps == IInv /\ (ConfigUp \/ ConfigDown \/ WaitExpires) => IInv'
<1> SUFFICES ASSUME IInv, ConfigUp \/ ConfigDown \/ WaitExpires PROVE IInv'
  OBVIOUS
<1>1. PICK R, h, r, O, E :
        R = peers /\ h = heard /\ r = round /\ O = Owed /\ E = entitled
  OBVIOUS
<1>2. Sound(R, h, r, O, E) /\ r \in Nat
  BY <1>1 DEF IInv, Typed
<1>3. O # {} => r > 0
  BY <1>1 DEF IInv, Typed, UnderWay, Owed
<1>4. /\ UNCHANGED <<query, ghosts>>
      /\ lease' \in Leases \union {None} /\ statusPc' \in {"up?", "down?"}
  BY DEF ConfigUp, ConfigDown, WaitExpires, stack, IInv, Typed
<1>5. pc # "sleep" /\ gw # NoGateway => gw \in Straddling
  BY DEF Straddling
<1>6. CASE DropGateways
  <2>1. Sound(WithoutGateways(R, {}), h, r, O, entitled')
    BY <1>2, WithoutSound
  <2>2. peers' = WithoutGateways(R, {}) /\ entitled' = Straddling
    BY <1>1, <1>6 DEF DropGateways
  <2> QED
    BY <1>1, <1>4, <1>5, <2>1, <2>2, Unmoved
<1>7. CASE ConfigUp /\ lease = NoGateway
  <2>1. peers' = R /\ entitled' = E
    BY <1>1, <1>7 DEF ConfigUp
  <2>2. pc # "sleep" /\ gw # NoGateway => gw \in entitled'
    BY <1>1, <2>1 DEF IInv, UnderWay
  <2> QED
    BY <1>1, <1>2, <1>4, <2>1, <2>2, Unmoved
<1>8. CASE ConfigUp /\ lease # NoGateway
  <2>1. PICK g : g = lease
    OBVIOUS
  <2>2. PICK E2 : E2 = Straddling \union {g}
    OBVIOUS
  <2>3. PICK W : W = WithoutGateways(R, {g})
    OBVIOUS
  <2>4. peers' = Registering(W, g) /\ entitled' = E2
    BY <1>1, <1>8, <2>1, <2>2, <2>3 DEF ConfigUp, RegisterGateway
  <2>5. g \in Gateways
    BY <1>8, <2>1 DEF ConfigUp, IInv, Typed, Gateways
  <2>6. Sound(W, h, r, O, E2)
    BY <1>2, <2>2, <2>3, WithoutSound
  <2>7. Sound(Registering(W, g), h, r, O, E2)
    BY <1>2, <1>3, <2>2, <2>5, <2>6, RegisterSound
  <2> QED
    BY <1>1, <1>4, <1>5, <2>2, <2>4, <2>7, Unmoved
<1> QED
  BY <1>6, <1>7, <1>8 DEF ConfigDown, WaitExpires

(* Changes of the lease, datagrams thrown away, sleep.                     *)
LEMMA QuietKeeps ==
    IInv /\ (LeaseChanges \/ (\E t \in net : Discard(t)) \/ UNCHANGED vars) => IInv'
<1> SUFFICES ASSUME IInv,
                    LeaseChanges \/ (\E t \in net : Discard(t)) \/ UNCHANGED vars
             PROVE  IInv'
  OBVIOUS
<1>1. /\ UNCHANGED <<query, ghosts>> /\ peers' = peers /\ entitled' = entitled
      /\ lease' \in Leases \union {None} /\ statusPc' \in {"up?", "down?"}
  BY DEF LeaseChanges, Discard, vars, stack, IInv, Typed
<1>2. Sound(peers', heard, round, Owed, entitled')
  BY <1>1 DEF IInv
<1>3. pc # "sleep" /\ gw # NoGateway => gw \in entitled'
  BY <1>1 DEF IInv, UnderWay
<1> QED
  BY <1>1, <1>2, <1>3, Unmoved

(* A round begins: one count more, and every entry owes it.                *)
LEMMA BeginKeeps ==
    ASSUME IInv, NEW wake \in BOOLEAN, NEW F, BeginRound(wake, F)
    PROVE  IInv'
<1>1. PICK g, r, E : g = lease /\ r = round + 1 /\ E = entitled \union ({g} \ {NoGateway})
  OBVIOUS
<1>2. /\ pc = "sleep" /\ lease # None /\ (wake => lease # NoGateway)
      /\ round' = r /\ gw' = g /\ answers' = {} /\ entitled' = E
      /\ UNCHANGED <<stack, statusPc, heard>>
  BY <1>1 DEF BeginRound
<1>3. /\ lease \in Leases \union {None} /\ statusPc \in {"up?", "down?"}
      /\ round \in Nat /\ clock.round \in Nat /\ clock.round <= round
      /\ heard \in [Addresses -> Reply \union {None}]
      /\ pending = <<>> /\ best = None
      /\ Sound(peers, heard, round, Owed, entitled)
  BY <1>2 DEF IInv, Typed, UnderWay
<1>4. g \in Leases /\ r \in Nat /\ clock.round < r /\ (g # NoGateway => g \in E)
  BY <1>1, <1>2, <1>3
<1>5. Sound(peers, heard, r, Sources \X Addresses, E)
  <2>1. PICK R, h, n, O, E0 :
          R = peers /\ h = heard /\ n = round /\ O = Owed /\ E0 = entitled
    OBVIOUS
  <2>2. Sound(R, h, n, O, E0) /\ n \in Nat /\ E0 \subseteq E
    BY <1>1, <1>3, <2>1
  <2>3. PICK O2 : O2 = Sources \X Addresses
    OBVIOUS
  <2>4. Sound(R, h, n + 1, O2, E)
    BY <2>2, SoundNextRound
  <2> QED
    BY <1>1, <2>1, <2>3, <2>4
<1>6. CASE wake
  <2>1. /\ pc' = "wake" /\ pending' = <<>> /\ best' = None /\ clock' = clock
        /\ peers' = peers /\ heard' = heard /\ lease' = lease /\ statusPc' = statusPc
    BY <1>2, <1>3, <1>6 DEF BeginRound, stack
  <2>2. Typed'
    BY <1>2, <1>3, <1>4, <2>1 DEF Typed
  <2>3. Sound(peers', heard', round', Owed', entitled')
    <3>1. Owed' = Sources \X Addresses
      BY <2>1 DEF Owed
    <3> QED
      BY <1>2, <1>5, <2>1, <3>1
  <2>4. UnderWay'
    <3>1. <<>> \in Seq(Queries) /\ AskedOnce(<<>>, g)
      BY ConfigAssumption DEF AskedOnce
    <3> QED
      BY <1>2, <1>4, <2>1, <3>1 DEF UnderWay, AnswersOf, BestOf, DoneOf
  <2>5. MasterAnswersThisRound' /\ BestAnswer'
    BY <1>2, <1>3, <1>4, <2>1 DEF MasterAnswersThisRound, BestAnswer
  <2> QED
    BY <2>2, <2>3, <2>4, <2>5 DEF IInv
<1>7. CASE ~wake
  <2>1. SendAll(r, g, F)
    BY <1>2, <1>7 DEF BeginRound
  <2>2. Onward(heard, r, E, g, {})
    BY <1>2 DEF Onward
  <2> QED
    BY <1>3, <1>4, <1>5, <2>1, <2>2, SendKeeps
<1> QED
  BY <1>6, <1>7

(* The radio has been woken; the queries leave.                            *)
LEMMA WakeOverKeeps ==
    ASSUME IInv, NEW F, WakeOver(F)
    PROVE  IInv'
<1>1. PICK g, r, E : g = gw /\ r = round /\ E = entitled
  OBVIOUS
<1>2. pc = "wake" /\ SendAll(r, g, F)
      /\ UNCHANGED <<stack, statusPc, round, gw, ghosts, entitled>>
  BY <1>1 DEF WakeOver
<1>3. answers = {}
  BY <1>2 DEF IInv, UnderWay, BestOf
<1>4. /\ lease \in Leases \union {None} /\ statusPc \in {"up?", "down?"}
      /\ heard \in [Addresses -> Reply \union {None}]
      /\ r \in Nat /\ clock.round \in Nat /\ clock.round < r
      /\ g \in Leases /\ (g # NoGateway => g \in E)
  BY <1>1, <1>2 DEF IInv, Typed, UnderWay
<1>5. Sound(peers, heard, r, Sources \X Addresses, E)
  BY <1>1, <1>2 DEF IInv, Owed
<1>6. Onward(heard, r, E, g, {})
  BY <1>1, <1>2, <1>3 DEF Onward, ghosts
<1> QED
  BY <1>2, <1>4, <1>5, <1>6, SendKeeps

(* A query that has its answer is open no more; the others are as before.  *)
LEMMA AnsweredQueries ==
    ASSUME NEW g, pending \in Seq(Queries), AskedOnce(pending, g),
           NEW i \in Open(pending), NEW Q, Q = Answered(i)
    PROVE  /\ Q \in Seq(Queries) /\ AskedOnce(Q, g)
           /\ Pairs(Q, Open(Q)) \union Mirror(g)
                \in SUBSET ((Pairs(pending, Open(pending)) \union Mirror(g))
                              \ {<<pending[i].source, pending[i].server>>})
           /\ \A A : DoneOf(A, pending) => DoneOf(A, Q)
           /\ Q[i].done /\ Q[i].server = pending[i].server /\ i \in DOMAIN Q
<1>1. PICK n \in Nat : n = Len(pending) /\ DOMAIN pending = 1 .. n
  OBVIOUS
<1>2. i \in 1 .. n /\ ~pending[i].done
  BY <1>1 DEF Open
<1>3. \A k \in 1 .. n : pending[k] \in Queries
  BY <1>1
<1>4. PICK q : q = [pending[i] EXCEPT !.done = TRUE]
  OBVIOUS
<1>5. /\ q \in Queries /\ q.server = pending[i].server
      /\ q.source = pending[i].source /\ q.done = TRUE
  BY <1>2, <1>3, <1>4 DEF Queries
<1>6. Q = [pending EXCEPT ![i] = q]
  BY <1>4 DEF Answered
<1>7. /\ Q \in Seq(Queries) /\ Len(Q) = n /\ DOMAIN Q = 1 .. n
      /\ Q[i] = q /\ \A k \in 1 .. n : k # i => Q[k] = pending[k]
  BY <1>1, <1>2, <1>5, <1>6
<1>8. \A k \in 1 .. n : Q[k].server = pending[k].server /\ Q[k].source = pending[k].source
  BY <1>5, <1>7
<1>9. AskedOnce(Q, g)
  BY <1>1, <1>7, <1>8 DEF AskedOnce
<1>10. Open(Q) = Open(pending) \ {i}
  BY <1>1, <1>5, <1>7 DEF Open
<1>11. Pairs(Q, Open(Q)) \union Mirror(g)
         \in SUBSET ((Pairs(pending, Open(pending)) \union Mirror(g))
                       \ {<<pending[i].source, pending[i].server>>})
  <2>1. \A k \in Open(Q) :
          /\ k \in Open(pending) /\ Q[k].source = pending[k].source
          /\ Q[k].server = pending[k].server
          /\ pending[k].server # pending[i].server
    BY <1>1, <1>2, <1>8, <1>10 DEF Open, AskedOnce
  <2>2. <<pending[i].source, pending[i].server>> \notin Mirror(g)
    BY <1>1, <1>2 DEF AskedOnce, Mirror
  <2>3. \A k \in Open(Q) :
          <<Q[k].source, Q[k].server>> \in Pairs(pending, Open(pending))
             \ {<<pending[i].source, pending[i].server>>}
    BY <2>1 DEF Pairs
  <2>4. \A x \in Pairs(Q, Open(Q)) :
          x \in Pairs(pending, Open(pending))
             \ {<<pending[i].source, pending[i].server>>}
    BY <2>3 DEF Pairs
  <2> QED
    BY <2>2, <2>4
<1>12. \A A : DoneOf(A, pending) => DoneOf(A, Q)
  BY <1>1, <1>5, <1>7, <1>8 DEF DoneOf
<1> QED
  BY <1>2, <1>5, <1>7, <1>9, <1>11, <1>12

(* The rank of an answer, from its server's entry or from the bare reply.  *)
LEMMA RankIsRank ==
    ASSUME NEW P, NEW source, NEW server, NEW s \in Measured,
           \A j \in Slots : IsPeer(P[j], source, server) =>
               P[j] \in Peer /\ P[j].sample \in Reply
    PROVE  Rank(P, source, server, s) \in Ranks
<1>1. \A us \in Nat : Rounded(us) \in Nat /\ Ceiling(us) \in Nat
  BY DEF Rounded, Ceiling
<1> DEFINE own == {j \in Slots : IsPeer(P[j], source, server)}
<1>2. CASE own = {}
  <2>1. Rank(P, source, server, s) = <<s.stratum, Rounded(s.latency), 0>>
    BY <1>2 DEF Rank
  <2>2. s.stratum \in Nat /\ s.latency \in Nat
    BY DEF Measured
  <2> QED
    BY <1>1, <2>1, <2>2 DEF Ranks
<1>3. CASE own # {}
  <2>1. PICK p : p = P[Min(own)]
    OBVIOUS
  <2>2. PICK j : j = IF p.offset # None THEN p.offsetJitter ELSE p.jitter
    OBVIOUS
  <2>3. Rank(P, source, server, s)
          = <<p.sample.stratum, Rounded(p.sample.latency), Ceiling(j)>>
    BY <1>3, <2>1, <2>2 DEF Rank
  <2>4. own \in SUBSET Nat
    BY ConfigAssumption DEF Slots
  <2>5. Min(own) \in own
    <3> HIDE DEF own
    <3> QED
      BY <1>3, <2>4, Least DEF Min
  <2>6. p \in Peer /\ p.sample \in Reply
    BY <2>1, <2>5
  <2>7. p.sample.stratum \in Nat /\ p.sample.latency \in Nat /\ j \in Nat
    BY <2>2, <2>6 DEF Peer, Reply
  <2> QED
    BY <1>1, <2>3, <2>7 DEF Ranks
<1> QED
  BY <1>2, <1>3

\* What an answer of the server of the i-th query makes of the table, of what
\* was heard and of the answers of the round.
Taken(P, h, A, i) ==
    LET source == pending[i].source
        server == pending[i].server
    IN  /\ Shows(P, source, server, h[server])
        /\ (\E j \in Slots : peers[j] = None \/ IsPeer(peers[j], source, server))
             => \E j \in Slots : IsPeer(P[j], source, server)
        /\ \A a \in A \ answers : a.server = server

(* A reply with a valid time is counted, shown, ranked and chosen.         *)
LEMMA TakeConsistent ==
    ASSUME IInv, pc = "recv", NEW t, NEW i \in Matches(t), NEW s \in Samples,
           Take(t, i, s), UNCHANGED <<stack, statusPc, round, gw, entitled>>
    PROVE  \E P, h, A, b, Q :
             /\ Q = Answered(i)
             /\ Consistent(P, h, round, entitled, Q, gw, A, b)
             /\ Proceed(P, Q, b)
             /\ Onward(h, round, entitled, gw, A)
             /\ Taken(P, h, A, i)
<1>1. PICK source, server, g, r, E, R, O, Q :
        /\ source = pending[i].source /\ server = pending[i].server
        /\ g = gw /\ r = round /\ E = entitled /\ R = peers /\ Q = Answered(i)
        /\ O = Pairs(pending, Open(pending)) \union Mirror(g)
  OBVIOUS
<1>2. PICK m : m = IF clock.synced THEN s ELSE [s EXCEPT !.offset = None]
  OBVIOUS
<1>3. PICK P : P = Answering(R, source, server, m)
  OBVIOUS
<1>4. PICK rank : rank = Rank(P, source, server, m)
  OBVIOUS
<1>5. PICK new : new = [server |-> server, source |-> source, sample |-> m, rank |-> rank]
  OBVIOUS
<1>6. PICK a : a = [server |-> server, round |-> r, rank |-> rank]
  OBVIOUS
<1>7. PICK reply : reply = [stratum |-> s.stratum, latency |-> s.latency]
  OBVIOUS
<1>8. PICK h : h = [heard EXCEPT ![server] = reply]
  OBVIOUS
<1>9. PICK A, b : A = answers \union {a} /\ b = Choice(new)
  OBVIOUS
<1>10. /\ i \in DOMAIN pending /\ ~pending[i].done /\ i \in Open(pending)
       /\ t.server = server /\ t.round = r
  BY <1>1 DEF Matches, Token, Open
<1>11. Proceed(P, Q, b) /\ answers' = A /\ heard' = h
  BY <1>1, <1>2, <1>3, <1>4, <1>5, <1>6, <1>7, <1>8, <1>9, <1>10 DEF Take
<1>12. /\ m \in Measured
       /\ reply = [stratum |-> m.stratum, latency |-> m.latency] /\ reply \in Reply
  BY <1>2, <1>7, SampleAssumption DEF Measured, Reply
<1>13. /\ pending \in Seq(Queries) /\ AskedOnce(pending, g)
       /\ AnswersOf(answers, r) /\ BestOf(answers, best) /\ DoneOf(answers, pending)
       /\ r \in Nat /\ clock.round \in Nat /\ clock.round < r
       /\ g \in Leases /\ (g # NoGateway => g \in E)
       /\ lease \in Leases \union {None} /\ statusPc \in {"up?", "down?"}
       /\ heard \in [Addresses -> Reply \union {None}]
  BY <1>1 DEF IInv, Typed, UnderWay
<1>14. /\ Proper(source, server) /\ (source = "dhcp" => server \in E /\ server \notin Config)
       /\ <<source, server>> \in O /\ server \in Addresses
  <2>1. Proper(source, server) /\ (source = "dhcp" => server \in E /\ server \notin Config)
    BY <1>1, <1>10, <1>13 DEF AskedOnce, Proper, Gateways
  <2>2. <<source, server>> \in O
    BY <1>1, <1>10 DEF Pairs
  <2>3. server \in Addresses
    BY <2>1 DEF Proper, Addresses
  <2> QED
    BY <2>1, <2>2, <2>3
<1>15. /\ h \in [Addresses -> Reply \union {None}] /\ h[server] = reply
       /\ \A x \in Addresses \ {server} : h[x] = heard[x]
  BY <1>8, <1>12, <1>13, <1>14
<1>16. /\ Sound(P, h, r, O \ {<<source, server>>}, E)
       /\ Shows(P, source, server, h[server])
       /\ (\E j \in Slots : R[j] = None \/ IsPeer(R[j], source, server))
            => \E j \in Slots : IsPeer(P[j], source, server)
  <2>1. PICK k : k = heard
    OBVIOUS
  <2>2. Sound(R, k, r, O, E)
    BY <1>1, <2>1 DEF IInv, Owed
  <2>3. \A x \in Addresses \ {server} : h[x] = k[x]
    BY <1>15, <2>1
  <2>4. h[server] = [stratum |-> m.stratum, latency |-> m.latency]
    BY <1>12, <1>15
  <2>5. r > 0
    BY <1>13
  <2>6. /\ r \in Nat /\ m \in Measured /\ Proper(source, server)
        /\ <<source, server>> \in O
        /\ source = "dhcp" => server \in E /\ server \notin Config
    BY <1>12, <1>13, <1>14
  <2>7. Sound(P, h, r, O \ {<<source, server>>}, E)
    BY <1>3, <2>2, <2>3, <2>4, <2>5, <2>6, AnswerSound
  <2>8. Shows(P, source, server, h[server])
    BY <1>3, <2>2, <2>3, <2>4, <2>5, <2>6, <2>7, AnswerSound
  <2>9. (\E j \in Slots : R[j] = None \/ IsPeer(R[j], source, server))
            => \E j \in Slots : IsPeer(P[j], source, server)
    BY <1>3, <2>2, <2>3, <2>4, <2>5, <2>6, <2>7, AnswerSound
  <2> QED
    BY <2>7, <2>8, <2>9
<1>17. /\ Q \in Seq(Queries) /\ AskedOnce(Q, g) /\ i \in DOMAIN Q /\ Q[i].done
       /\ Pairs(Q, Open(Q)) \union Mirror(g) \in SUBSET (O \ {<<source, server>>})
       /\ DoneOf(answers, Q) /\ Q[i].server = server
  BY <1>1, <1>10, <1>13, AnsweredQueries
<1>18. Sound(P, h, r, Pairs(Q, Open(Q)) \union Mirror(g), E)
  BY <1>16, <1>17, SoundWeaker
<1>19. rank \in Ranks
  <2>1. \A j \in Slots : IsPeer(P[j], source, server) =>
            P[j] \in Peer /\ P[j].sample \in Reply
    BY <1>12, <1>15, <1>16 DEF Shows
  <2> QED
    BY <1>4, <1>12, <2>1, RankIsRank
<1>20. new \in Candidate
  BY <1>5, <1>12, <1>14, <1>19 DEF Candidate, Proper, Ranks, Addresses, Sources
<1>21. \A x \in answers : x.server # server
  BY <1>1, <1>10, <1>13 DEF DoneOf, AskedOnce
<1>22. AnswersOf(A, r) /\ BestOf(A, b)
  <2>1. PICK B : B = answers
    OBVIOUS
  <2>2. /\ AnswersOf(B, r) /\ BestOf(B, best)
        /\ a = [server |-> new.server, round |-> r, rank |-> new.rank]
        /\ \A x \in B : x.server # new.server
    BY <1>5, <1>6, <1>13, <1>21, <2>1
  <2>3. AnswersOf(B \union {a}, r) /\ BestOf(B \union {a}, Choice(new))
    BY <1>13, <1>20, <2>2, ChoiceIsBest
  <2> QED
    BY <1>9, <2>1, <2>3
<1>23. DoneOf(A, Q)
  BY <1>6, <1>9, <1>17 DEF DoneOf
<1>24. Consistent(P, h, r, E, Q, g, A, b)
  BY <1>13, <1>15, <1>17, <1>18, <1>22, <1>23 DEF Consistent
<1>25. Onward(h, r, E, g, A)
  BY <1>1, <1>11 DEF Onward
<1>26. Taken(P, h, A, i)
  BY <1>1, <1>6, <1>9, <1>16 DEF Taken
<1> QED
  BY <1>1, <1>11, <1>24, <1>25, <1>26

(* A datagram arrives.                                                     *)
LEMMA ReceiveKeeps ==
    ASSUME IInv, NEW t, NEW again, Receive(t, again)
    PROVE  IInv'
<1>1. pc = "recv" /\ UNCHANGED <<stack, statusPc, round, gw, entitled>>
  BY DEF Receive
<1>2. CASE UNCHANGED <<pc, pending, best, clock, peers, ghosts>>
  <2>1. UNCHANGED <<query, ghosts>> /\ peers' = peers /\ entitled' = entitled
    BY <1>1, <1>2 DEF query
  <2>2. lease' \in Leases \union {None} /\ statusPc' \in {"up?", "down?"}
    BY <1>1 DEF stack, IInv, Typed
  <2>3. Sound(peers', heard, round, Owed, entitled')
    BY <2>1 DEF IInv
  <2>4. gw # NoGateway => gw \in entitled'
    BY <1>1, <2>1 DEF IInv, UnderWay
  <2> QED
    BY <2>1, <2>2, <2>3, <2>4, Unmoved
<1>3. PICK i : i = Min(Matches(t))
  OBVIOUS
<1>4. Matches(t) # {} => i \in Matches(t)
  <2>1. Matches(t) \in SUBSET Nat
    <3>1. pending \in Seq(Queries)
      BY DEF IInv, UnderWay
    <3>2. DOMAIN pending \in SUBSET Nat
      BY <3>1
    <3> QED
      BY <3>2 DEF Matches
  <2> QED
    BY <1>3, <2>1, Least DEF Min
<1>5. CASE Matches(t) # {} /\ Proceed(peers, Answered(i), best) /\ UNCHANGED ghosts
  <2>1. PICK R, h, r, E, g, A, b, Q, O :
          /\ R = peers /\ h = heard /\ r = round /\ E = entitled /\ g = gw
          /\ A = answers /\ b = best /\ Q = Answered(i)
          /\ O = Pairs(pending, Open(pending)) \union Mirror(g)
    OBVIOUS
  <2>2. i \in Open(pending) /\ pending \in Seq(Queries) /\ AskedOnce(pending, g)
    BY <1>4, <1>5, <2>1 DEF Matches, Open, IInv, UnderWay
  <2>3. /\ Q \in Seq(Queries) /\ AskedOnce(Q, g)
        /\ Pairs(Q, Open(Q)) \union Mirror(g) \in SUBSET O
        /\ DoneOf(A, pending) => DoneOf(A, Q)
    <3>1. /\ Pairs(Q, Open(Q)) \union Mirror(g)
               \in SUBSET (O \ {<<pending[i].source, pending[i].server>>})
          /\ Q \in Seq(Queries) /\ AskedOnce(Q, g)
          /\ DoneOf(A, pending) => DoneOf(A, Q)
      BY <2>1, <2>2, AnsweredQueries
    <3> QED
      BY <3>1
  <2>4. Sound(R, h, r, O, E)
    BY <1>1, <2>1 DEF IInv, Owed
  <2>5. E \subseteq E
    OBVIOUS
  <2>6. Sound(R, h, r, Pairs(Q, Open(Q)) \union Mirror(g), E)
    BY <2>3, <2>4, <2>5, SoundWeaker
  <2>7. Consistent(R, h, r, E, Q, g, A, b)
    BY <1>1, <2>1, <2>3, <2>6 DEF Consistent, IInv, Typed, UnderWay
  <2>8. Proceed(R, Q, b) /\ Onward(h, r, E, g, A)
    BY <1>1, <1>5, <2>1 DEF Onward, ghosts
  <2> QED
    BY <2>1, <2>7, <2>8, ProceedKeeps
<1>6. ASSUME Matches(t) # {}, NEW s \in Samples, Take(t, i, s)
      PROVE  IInv'
  <2>1. PICK P, h, A, b, Q :
          /\ Consistent(P, h, round, entitled, Q, gw, A, b)
          /\ Proceed(P, Q, b)
          /\ Onward(h, round, entitled, gw, A)
    BY <1>1, <1>4, <1>6, TakeConsistent
  <2>2. PICK r, E, g : r = round /\ E = entitled /\ g = gw
    OBVIOUS
  <2>3. Consistent(P, h, r, E, Q, g, A, b) /\ Proceed(P, Q, b) /\ Onward(h, r, E, g, A)
    BY <2>1, <2>2
  <2> QED
    BY <2>2, <2>3, ProceedKeeps
<1> QED
  BY <1>2, <1>3, <1>5, <1>6 DEF Receive

(* The round is given up.                                                  *)
LEMMA GiveUpKeeps == IInv /\ GiveUp => IInv'
<1> SUFFICES ASSUME IInv, GiveUp PROVE IInv'
  OBVIOUS
<1>1. PICK R, h, r, E, g, A, b, Q :
        /\ R = peers /\ h = heard /\ r = round /\ E = entitled /\ g = gw
        /\ A = answers /\ b = best /\ Q = pending
  OBVIOUS
<1>2. pc = "recv" /\ EndRound(R, Q, b)
      /\ UNCHANGED <<stack, statusPc, round, gw, ghosts, entitled>>
  BY <1>1 DEF GiveUp
<1>3. Sound(R, h, r, Pairs(Q, Open(Q)) \union Mirror(g), E)
  BY <1>1, <1>2 DEF IInv, Owed
<1>4. Consistent(R, h, r, E, Q, g, A, b)
  BY <1>1, <1>2, <1>3 DEF Consistent, IInv, Typed, UnderWay
<1>5. Onward(h, r, E, g, A)
  BY <1>1, <1>2 DEF Onward, ghosts
<1> QED
  BY <1>1, <1>2, <1>4, <1>5, EndKeeps

(* Every step keeps the invariant.                                       *)
LEMMA StepKeeps == IInv /\ [Next]_vars => IInv'
<1> SUFFICES ASSUME IInv, [Next]_vars PROVE IInv'
  OBVIOUS
<1>1. CASE LeaseChanges \/ (\E t \in net : Discard(t)) \/ Sleeping \/ UNCHANGED vars
  BY <1>1, QuietKeeps DEF Sleeping
<1>2. CASE ConfigUp \/ ConfigDown \/ WaitExpires
  BY <1>2, StatusKeeps
<1>3. CASE \E wake \in BOOLEAN, F \in SUBSET Config : BeginRound(wake, F)
  BY <1>3, BeginKeeps
<1>4. CASE \E F \in SUBSET Asked(gw) : WakeOver(F)
  BY <1>4, WakeOverKeeps
<1>5. CASE \E t \in net, again \in BOOLEAN : Receive(t, again)
  BY <1>5, ReceiveKeeps
<1>6. CASE GiveUp
  BY <1>6, GiveUpKeeps
<1> QED
  BY <1>1, <1>2, <1>3, <1>4, <1>5, <1>6 DEF Next

(* A full table without an entry of a configured server: the entries of    *)
(* the others are fewer than the servers, and gateways hold the rest.      *)
LEMMA FullTable ==
    ASSUME Table(peers), NEW server \in Config,
           \A j \in Slots : peers[j] # None /\ ~IsPeer(peers[j], "config", server)
    PROVE  Cardinality(Entries("dhcp")) >= 2
<1> DEFINE C == Entries("config")
           D == Entries("dhcp")
<1>1. /\ C \union D = Slots /\ C \intersect D = {}
      /\ \A i \in C : peers[i].address \in Config \ {server}
      /\ \A i, j \in C : peers[i].address = peers[j].address => i = j
  BY DEF Entries, Table, Proper, IsPeer
<1> HIDE DEF C, D
<1>2. MaxConfig \in Nat /\ IsFiniteSet(Slots) /\ Cardinality(Slots) = MaxConfig + 1
  BY ConfigAssumption, FS_Interval DEF Slots
<1>3. IsFiniteSet(C) /\ IsFiniteSet(D)
  BY <1>1, <1>2, FS_Subset
<1>4. Cardinality(Slots) = Cardinality(C) + Cardinality(D)
  <2>1. Cardinality(C \union D)
          = Cardinality(C) + Cardinality(D) - Cardinality(C \intersect D)
    BY <1>3, FS_Union
  <2>2. Cardinality(C \intersect D) = 0
    BY <1>1, FS_EmptySet
  <2>3. PICK c \in Nat, d \in Nat : c = Cardinality(C) /\ d = Cardinality(D)
    BY <1>3, FS_CardinalityType
  <2>4. Cardinality(Slots) = c + d - 0
    BY <1>1, <2>1, <2>2, <2>3
  <2> QED
    BY <2>3, <2>4
<1>5. IsFiniteSet(Config) /\ Cardinality(Config) <= MaxConfig
  <2>1. PICK n \in Nat : n = Len(ConfigServers) /\ n <= MaxConfig
    BY ConfigAssumption
  <2>2. ConfigServers \in Surjection(1 .. n, Config)
    BY <2>1, ConfigAssumption DEF Surjection, Config, Range
  <2>3. IsFiniteSet(1 .. n) /\ Cardinality(1 .. n) = n
    BY FS_Interval
  <2>4. IsFiniteSet(Config) /\ Cardinality(Config) <= n
    BY <2>2, <2>3, FS_Surjection
  <2> QED
    BY <1>2, <2>1, <2>4, FS_CardinalityType
<1>6. /\ IsFiniteSet(Config \ {server})
      /\ Cardinality(Config \ {server}) = Cardinality(Config) - 1
  BY <1>5, FS_RemoveElement
<1>7. Cardinality(C) <= Cardinality(Config \ {server})
  <2>1. [i \in C |-> peers[i].address] \in Injection(C, Config \ {server})
    BY <1>1 DEF Injection, IsInjective
  <2> QED
    BY <1>6, <2>1, FS_Injection
<1>8. Cardinality(C) \in Nat /\ Cardinality(D) \in Nat /\ Cardinality(Config) \in Nat
  BY <1>3, <1>5, FS_CardinalityType
<1>9. Cardinality(D) >= 2
  BY <1>2, <1>4, <1>5, <1>6, <1>7, <1>8
<1> QED
  BY <1>9 DEF D

(* After an answer of a configured server its entry shows that answer,     *)
(* unless two gateways have left no slot for it.                           *)
LEMMA AnswerShown ==
    ASSUME IInv, Next, NEW a \in answers' \ answers, a.server \in Config
    PROVE  \/ Cardinality(Entries("dhcp")) >= 2
           \/ \E i \in Slots : /\ IsPeer(peers'[i], "config", a.server)
                               /\ peers'[i].sample = heard'[a.server]
<1>1. PICK t, again : Receive(t, again)
  BY DEF Next, LeaseChanges, ConfigUp, ConfigDown, WaitExpires, BeginRound, Discard,
         WakeOver, GiveUp, Sleeping, vars, ghosts
<1>2. PICK i : i = Min(Matches(t))
  OBVIOUS
<1>3. pc = "recv" /\ UNCHANGED <<stack, statusPc, round, gw, entitled>>
  BY <1>1 DEF Receive
<1>4. PICK s \in Samples : Matches(t) # {} /\ Take(t, i, s)
  BY <1>1, <1>2 DEF Receive, ghosts
<1>5. i \in Matches(t) /\ i \in DOMAIN pending
  <2>1. pending \in Seq(Queries)
    BY DEF IInv, UnderWay
  <2>2. Matches(t) \in SUBSET Nat
    <3>1. DOMAIN pending \in SUBSET Nat
      BY <2>1
    <3> QED
      BY <3>1 DEF Matches
  <2>3. i \in Matches(t)
    BY <1>2, <1>4, <2>2, Least DEF Min
  <2> QED
    BY <2>3 DEF Matches
<1>6. PICK P, h, A, b, Q :
        /\ Consistent(P, h, round, entitled, Q, gw, A, b)
        /\ Proceed(P, Q, b)
        /\ Onward(h, round, entitled, gw, A)
        /\ Taken(P, h, A, i)
  BY <1>3, <1>4, <1>5, TakeConsistent
<1>7. answers' = A /\ heard' = h
  BY <1>6 DEF Onward
<1>8. PICK source, server : source = pending[i].source /\ server = pending[i].server
  OBVIOUS
<1>9. a.server = server /\ server \in Config /\ source = "config"
  <2>1. a.server = server
    BY <1>6, <1>7, <1>8 DEF Taken
  <2>2. AskedOnce(pending, gw)
    BY DEF IInv, UnderWay
  <2> QED
    BY <1>5, <1>8, <2>1, <2>2 DEF AskedOnce
<1>10. \A j \in Slots : IsPeer(P[j], "config", server) =>
         IsPeer(peers'[j], "config", server) /\ peers'[j].sample = P[j].sample
  <2>1. CASE \A k \in DOMAIN Q : Q[k].done
    <3>1. PICK r, E, g : r = round /\ E = entitled /\ g = gw
      OBVIOUS
    <3>2. Consistent(P, h, r, E, Q, g, A, b) /\ EndRound(P, Q, b)
      BY <1>6, <2>1, <3>1 DEF Proceed
    <3>3. \A j \in Slots, x \in Config : IsPeer(P[j], "config", x) =>
            IsPeer(peers'[j], "config", x) /\ peers'[j].sample = P[j].sample
      BY <3>1, <3>2, EndSound
    <3> QED
      BY <1>9, <3>3
  <2>2. CASE ~(\A k \in DOMAIN Q : Q[k].done)
    BY <1>6, <2>2 DEF Proceed
  <2> QED
    BY <2>1, <2>2
<1>11. CASE \E j \in Slots : peers[j] = None \/ IsPeer(peers[j], "config", server)
  <2>1. PICK j \in Slots : IsPeer(P[j], "config", server)
    BY <1>6, <1>8, <1>9, <1>11 DEF Taken
  <2>2. P[j].sample = h[server]
    BY <1>6, <1>8, <1>9, <2>1 DEF Taken, Shows
  <2> QED
    BY <1>7, <1>9, <1>10, <2>1, <2>2
<1>12. CASE ~(\E j \in Slots : peers[j] = None \/ IsPeer(peers[j], "config", server))
  BY <1>9, <1>12, FullTable DEF IInv, Sound
<1> QED
  BY <1>11, <1>12

----------------------------------------------------------------------------
(* The theorems.                                                           *)

(* The table is sound in every reachable state, and a round under way has  *)
(* asked every server once and keeps its best answer (ntp.rs, status.rs).  *)
THEOREM PeersInvariant == Spec => []IInv
<1>1. Init => IInv
  BY InitHolds
<1>2. IInv /\ [Next]_vars => IInv'
  BY StepKeeps
<1> QED
  BY <1>1, <1>2, PTL DEF Spec

(* A server has one entry of a source in the table, and the entry shows    *)
(* what that very server answered last, whatever the order of the answers  *)
(* (status.rs 323-354, 661-698).                                           *)
THEOREM PeersTable == Spec => []TableInv
<1>1. IInv => TypeOK
  <2> SUFFICES ASSUME IInv PROVE TypeOK
    OBVIOUS
  <2>1. /\ lease \in Leases \union {None} /\ statusPc \in {"up?", "down?"}
        /\ pc \in {"sleep", "wake", "recv"}
    BY DEF IInv, Typed
  <2>2. /\ Len(pending) <= MaxConfig + 1
        /\ IsInjective([i \in DOMAIN pending |-> pending[i].server])
    BY DEF IInv, UnderWay, AskedOnce, IsInjective
  <2>3. \A i \in Slots : peers[i] # None =>
          /\ peers[i].source \in Sources
          /\ peers[i].address \in Config \union Gateways
    BY DEF IInv, Sound, Table, Proper, Sources
  <2> QED
    BY <2>1, <2>2, <2>3 DEF TypeOK
<1>2. IInv => EntriesDistinct
  BY DEF IInv, Sound, Table, EntriesDistinct
<1>3. IInv => StatsAreOwn
  BY DEF IInv, Sound, Own, StatsAreOwn
<1> QED
  BY <1>1, <1>2, <1>3, PeersInvariant, PTL DEF TableInv

(* A query counts once, the clock is set by an answer to a query of its    *)
(* round, and no answer of the round was better (ntp.rs 282-365).          *)
THEOREM PeersAnswers == Spec => []AnswersInv
<1>1. IInv => AnswersInv
  BY DEF IInv, Sound, Counted, CountedOnce, AnswersInv
<1> QED
  BY <1>1, PeersInvariant, PTL

(* No gateway is in the table that was neither registered last nor is of a *)
(* round that was under way then or has begun since (status.rs 482-484,    *)
(* 647-659).                                                               *)
THEOREM PeersGateways == Spec => []GatewaysEntitled
<1>1. IInv => GatewaysEntitled
  BY DEF IInv, Sound, Gated, GatewaysEntitled, Entries
<1> QED
  BY <1>1, PeersInvariant, PTL

(* A configured server that answers is in the table afterwards, however    *)
(* many servers the build names: only two gateways at a time can shut it   *)
(* out (status.rs 323-354 with NTP_MAX_PEERS).                             *)
THEOREM PeersNoneShutOut == Spec => NoServerShutOut
<1>1. IInv /\ [Next]_vars =>
        [\A a \in answers' \ answers :
           a.server \in Config =>
              \/ Cardinality(Entries("dhcp")) >= 2
              \/ \E i \in Slots : /\ IsPeer(peers'[i], "config", a.server)
                                  /\ peers'[i].sample = heard'[a.server]]_vars
  BY AnswerShown
<1> QED
  BY <1>1, PeersInvariant, PTL DEF Spec, NoServerShutOut

=============================================================================
