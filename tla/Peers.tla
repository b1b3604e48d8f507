------------------------------- MODULE Peers -------------------------------
(***************************************************************************)
(* The NTP client of the firmware (src/firmware/network/ntp.rs), its table *)
(* of peers (src/firmware/status.rs) and the task that follows the network *)
(* configuration (wifi_status_task in src/firmware/network/wifi.rs).       *)
(*                                                                         *)
(* The two tasks share one cooperative executor, so an action is what one  *)
(* of them does between two awaits; the queries of a round leave in one    *)
(* action, as send_to waits only when the socket's queue is full.  The     *)
(* network stack is external: leases come, change and go, and answers are  *)
(* lost (never received), doubled, late and out of order.  A query is      *)
(* known by its token, [round, server, wake]: the nonce of the code is     *)
(* never used twice.  Latencies and offsets are in microseconds; a reply   *)
(* carries one of Samples or no valid time.  How long the task sleeps is   *)
(* in module Algorithms.                                                   *)
(***************************************************************************)
EXTENDS Integers, Sequences, SequencesExt, FiniteSets, Sieve

CONSTANTS
    ConfigServers,   \* the NTP servers of the build, a sequence
    MaxConfig,       \* NTP_MAX_CONFIG_SERVERS
    Leases,          \* what DHCP may hand out: the gateway, or NoGateway
    NoGateway,       \* the gateway of a lease without a router
    Samples,         \* [stratum, latency, offset] of a valid reply
    None,            \* no peer, no lease, no reply
    MaxRounds, MaxChanges,   \* bounds: rounds of queries, lease changes,
    MaxLate                  \* answers that outlive their round

Config   == Range(ConfigServers)
Gateways == Leases \ {NoGateway}
SlotsNoGateway == 1..MaxConfig  \* mutant
Slots    == 1..(MaxConfig + 1)
Sources  == {"config", "dhcp"}

(* What a peer last answered, and its entry in the table.                  *)
Reply == [stratum: Nat, latency: Nat]
Peer  == [source: Sources, address: Config \union Gateways, ok: Nat, fail: Nat,
          sample: Reply \union {None}, jitter: Nat,
          offset: Int \union {None}, offsetJitter: Nat]

(* A valid reply as it is measured, and as a candidate for the clock.      *)
Measured  == [stratum: Nat, latency: Nat, offset: Int \union {None}]
Candidate == [server: Config \union Gateways, source: Sources, sample: Measured,
              rank: Nat \X Nat \X Nat]

ASSUME ConfigAssumption ==
    /\ MaxConfig \in Nat
    /\ ConfigServers \in Seq(Config)
    /\ IsInjective(ConfigServers)
    /\ Len(ConfigServers) \in 1..MaxConfig
ASSUME SampleAssumption == Samples \subseteq Measured
ASSUME AbsenceAssumption ==
    /\ None \notin Leases /\ None \notin Reply /\ None \notin Peer /\ None \notin Candidate
    /\ NoGateway \notin Config \union {None}
ASSUME BoundAssumption == {MaxRounds, MaxChanges, MaxLate} \subseteq Nat

VARIABLES
    lease, changes,          \* the stack's configuration; its changes so far
    statusPc,                \* what wifi_status_task waits for
    pc, round,               \* where ntp_sync_task awaits; rounds begun
    gw,                      \* dhcp_peer of this round
    pending,                 \* the queries sent in this round
    best,                    \* the best reply so far
    peers,                   \* NTP_PEERS
    clock,                   \* NTP_SYNCED, NTP_SERVER_IP, NTP_SERVER_SOURCE
    net,                     \* answers under way
    answers,                 \* ghost: valid replies taken in this round
    heard,                   \* ghost: the last valid reply of each server
    entitled                 \* ghost: gateways that may be in the table

stack   == <<lease, changes>>
query   == <<pc, round, gw, pending, best, clock>>
ghosts  == <<answers, heard>>
vars == <<stack, statusPc, query, peers, net, ghosts, entitled>>

----------------------------------------------------------------------------
(* The table of peers.                                                     *)

NewPeer(source, server) ==
    [source |-> source, address |-> server, ok |-> 0, fail |-> 0,
     sample |-> None, jitter |-> 0, offset |-> None, offsetJitter |-> 0]

IsPeer(p, source, server) ==
    p # None /\ p.source = source /\ p.address = server

(* The entry of the server, or else the first free one, or none (0).       *)
SlotFor(P, source, server) ==
    LET own  == {i \in Slots : IsPeer(P[i], source, server)}
        free == {i \in Slots : P[i] = None}
    IN  CASE own # {} -> Min(own) [] own = {} /\ free # {} -> Min(free)
          [] OTHER -> 0

(* A full table drops the update without a word.                           *)
Update(P, source, server, Apply(_)) ==
    LET i == SlotFor(P, source, server)
    IN  IF i = 0 THEN P
        ELSE [P EXCEPT ![i] = Apply(IF IsPeer(@, source, server) THEN @
                                    ELSE NewPeer(source, server))]

Apart(a, b)    == IF a < b THEN b - a ELSE a - b
Ewma(j, a, b)  == (7 * j + Apart(a, b)) \div 8

(* update_ntp_peer_stats; the offset is absent before the first sync.      *)
WithStats(p, s) ==
    [p EXCEPT
        !.sample = [stratum |-> s.stratum, latency |-> s.latency],
        !.jitter = IF p.sample = None THEN 0
                   ELSE Ewma(@, s.latency, p.sample.latency),
        !.offset = IF s.offset = None THEN @ ELSE s.offset,
        !.offsetJitter = IF s.offset = None THEN @
                         ELSE IF p.offset = None THEN 0
                         ELSE Ewma(@, s.offset, p.offset),
        !.ok = @ + 1]

Answering(P, source, server, s) ==
    Update(P, source, server, LAMBDA p : WithStats(p, s))

WithFailure(p) == [p EXCEPT !.fail = @ + 1]
Failing(P, source, server) == Update(P, source, server, WithFailure)

(* The queries of Q at the places I have failed, one after the other.      *)
WithFailures(P, Q, I) ==
    LET f[i \in 0 .. Len(Q)] ==
            IF i = 0 THEN P
            ELSE IF i \in I THEN Failing(f[i - 1], Q[i].source, Q[i].server)
            ELSE f[i - 1]
    IN  f[Len(Q)]

WithoutGateways(P, kept) ==
    [i \in Slots |-> IF P[i] # None /\ P[i].source = "dhcp"
                           /\ P[i].address \notin kept
                     THEN None ELSE P[i]]

(* ntp_selection_sample, or the raw reply when the table has no entry.     *)
Rounded(us) == (us + 500) \div 1000
Ceiling(us) == (us + 999) \div 1000

Rank(P, source, server, s) ==
    LET own == {i \in Slots : IsPeer(P[i], source, server)}
        p   == P[Min(own)]
    IN  IF own = {} THEN <<s.stratum, Rounded(s.latency), 0>>
        ELSE <<p.sample.stratum, Rounded(p.sample.latency),
               Ceiling(IF p.offset # None THEN p.offsetJitter ELSE p.jitter)>>

(* should_replace_master: lower stratum, then latency, then jitter.        *)
Better(a, b) ==
    \/ a[1] < b[1]
    \/ a[1] = b[1] /\ a[2] < b[2]
    \/ a[1] = b[1] /\ a[2] = b[2] /\ a[3] < b[3]

----------------------------------------------------------------------------
(* At boot the table is empty; or, a few rounds later, the first server    *)
(* has answered twice and the network has gone.  Counts begin here.        *)
Init ==
    /\ lease = None /\ changes = 0
    /\ statusPc = "up?"
    /\ pc = "sleep" /\ round = 0 /\ gw = NoGateway
    /\ pending = <<>> /\ best = None
    /\ net = {} /\ answers = {} /\ entitled = {}
    /\ LET first == ConfigServers[1]
           never == [s \in Config \union Gateways |-> None]
           empty == [i \in Slots |-> None]
       IN  \/ /\ clock = [synced |-> FALSE, master |-> None, source |-> None,
                          round |-> 0]
              /\ peers = empty /\ heard = never
           \/ \E s \in Samples :
              /\ clock = [synced |-> TRUE, master |-> first, source |-> "config",
                          round |-> 0]
              /\ peers = [empty EXCEPT ![1] =
                    [WithStats(NewPeer("config", first), s) EXCEPT !.ok = 0]]
              /\ heard = [never EXCEPT ![first] =
                    [stratum |-> s.stratum, latency |-> s.latency]]

----------------------------------------------------------------------------
(* The network stack (external).                                           *)

(* A first lease, a renewal with another content, its expiry or the loss   *)
(* of the link.                                                            *)
LeaseChanges ==
    /\ changes < MaxChanges /\ changes' = changes + 1
    /\ lease' \in (Leases \union {None}) \ {lease}
    /\ UNCHANGED <<statusPc, query, peers, net, ghosts, entitled>>

----------------------------------------------------------------------------
(* wifi_status_task.                                                       *)

Registering(P, g) == Update(P, "dhcp", g, LAMBDA p : p)

(* A round that is under way goes on with the gateway it began with.       *)
Straddling == IF pc \in {"sleep"} \/ gw = NoGateway THEN {} ELSE {gw}

RegisterGateway(g) ==
    /\ peers' = Registering(WithoutGateways(peers, {g}), g)
    /\ entitled' = Straddling \union {g}

DropNothing ==  \* mutant
    /\ peers' = peers
    /\ entitled' = Straddling
DropGateways ==
    /\ peers' = WithoutGateways(peers, {})
    /\ entitled' = Straddling

ConfigUp ==
    /\ statusPc = "up?" /\ lease # None
    /\ statusPc' = "down?"
    /\ IF lease = NoGateway THEN UNCHANGED <<peers, entitled>>
       ELSE RegisterGateway(lease)
    /\ UNCHANGED <<stack, query, net, ghosts>>

ConfigDown ==
    /\ statusPc = "down?" /\ lease = None
    /\ statusPc' = "up?"
    /\ DropGateways
    /\ UNCHANGED <<stack, query, net, ghosts>>

(* Thirty seconds without a configuration (WIFI_DHCP_WAIT_TIMEOUT_SECS).   *)
WaitExpires ==
    /\ statusPc = "up?" /\ lease = None
    /\ DropGateways
    /\ UNCHANGED <<stack, statusPc, query, net, ghosts>>

----------------------------------------------------------------------------
(* ntp_sync_task.                                                          *)

(* The servers of a round; a gateway that is configured too is asked once. *)
Servers(g) ==
    [i \in DOMAIN ConfigServers |->
        [server |-> ConfigServers[i], source |-> "config"]]
    \o (IF g = NoGateway \/ g \in Config THEN <<>>
        ELSE <<[server |-> g, source |-> "dhcp"]>>)

Token(r, server, wake) == [round |-> r, server |-> server, wake |-> wake]

Asked(g) == {Servers(g)[i].server : i \in DOMAIN Servers(g)}

(* The end of a round, with no await in it: queries without an answer      *)
(* count as failures, a gateway that is a configured server too is given   *)
(* the statistics of the best reply, and the best reply sets the clock.    *)
Mirrored(P, b) ==
    IF gw \in Config /\ b # None /\ b.source = "config"
    THEN Answering(P, "dhcp", gw, b.sample) ELSE P

EndRound(P, Q, b) ==
    /\ peers' = Mirrored(WithFailures(P, Q, {i \in DOMAIN Q : ~Q[i].done}), b)
    /\ clock' = IF b = None THEN clock
                ELSE [synced |-> TRUE, master |-> b.server,
                      source |-> b.source, round |-> round]
    /\ pc' = "sleep"
    /\ pending' = <<>> /\ best' = None

(* The round goes on unless every query sent has its answer.               *)
Proceed(P, Q, b) ==
    IF \A i \in DOMAIN Q : Q[i].done THEN EndRound(P, Q, b)
    ELSE /\ pc' = "recv"
         /\ peers' = P /\ pending' = Q /\ best' = b
         /\ clock' = clock

(* All queries of the round; those to F are refused by the stack.          *)
SendAll(r, g, F) ==
    LET all     == Servers(g)
        refused == {i \in DOMAIN all : all[i].server \in F}
        sent    == Sieved(all, DOMAIN all \ refused)
    IN  /\ Proceed(WithFailures(peers, all, refused),
                   [i \in DOMAIN sent |-> [server |-> sent[i].server,
                                           source |-> sent[i].source,
                                           done |-> FALSE]],
                   None)
        /\ net' = net \union {Token(r, sent[i].server, FALSE) : i \in DOMAIN sent}

(* The configuration is up: the candidates are read, once for the round.   *)
(* If the gateway can be sent a query to wake the radio, the task waits;   *)
(* otherwise it goes on at once.                                           *)
BeginRound(wake, F) ==
    /\ pc = "sleep" /\ lease # None /\ round < MaxRounds
    /\ wake => lease # NoGateway
    /\ round' = round + 1
    /\ gw' = lease
    /\ answers' = {}
    /\ entitled' = entitled \union ({gw'} \ {NoGateway})
    /\ IF wake
       THEN /\ pc' = "wake"
            /\ net' = net \union {Token(round', gw', TRUE)}
            /\ UNCHANGED <<pending, best, clock, peers>>
       ELSE SendAll(round', gw', F)
    /\ UNCHANGED <<stack, statusPc, heard>>

(* For 1250 ms whatever arrives is read and thrown away.                   *)
Discard(t) ==
    /\ pc = "wake"
    /\ net' = net \ {t}
    /\ UNCHANGED <<stack, statusPc, query, peers, ghosts, entitled>>

WakeOver(F) ==
    /\ pc = "wake"
    /\ SendAll(round, gw, F)
    /\ UNCHANGED <<stack, statusPc, round, gw, ghosts, entitled>>

(* The query that a reply answers: by its token, and not answered before.  *)
MatchesServer(t) ==  \* mutant
    {i \in DOMAIN pending : ~pending[i].done /\ t.server = pending[i].server}
MatchesAny(t) ==  \* mutant
    {i \in DOMAIN pending : ~pending[i].done /\ t.round = round /\ ~t.wake}
Matches(t) ==
    {i \in DOMAIN pending : /\ ~pending[i].done
                            /\ t = Token(round, pending[i].server, FALSE)}

(* The first reply, or one better than the best so far.                    *)
Choice(new) == IF best = None \/ Better(new.rank, best.rank) THEN new ELSE best

Answered(i) == [pending EXCEPT ![i].done = TRUE]

(* A reply with a valid time: statistics, rank, choice.                    *)
Take(t, i, s) ==
    LET q    == pending[i]
        r    == IF clock.synced THEN s ELSE [s EXCEPT !.offset = None]
        P    == Answering(peers, q.source, q.server, r)
        rank == Rank(P, q.source, q.server, r)
        new  == [server |-> q.server, source |-> q.source, sample |-> r,
                 rank |-> rank]
    IN  /\ Proceed(P, Answered(i), Choice(new))
        /\ answers' = answers \union
               {[server |-> t.server, round |-> t.round, rank |-> rank]}
        /\ heard' = [heard EXCEPT ![t.server] =
                        [stratum |-> s.stratum, latency |-> s.latency]]

(* A datagram arrives, and perhaps once more later: it matches no query    *)
(* and is dropped, or it has no valid time, or it is taken.                *)
Receive(t, again) ==
    /\ pc = "recv"
    /\ net' = IF again THEN net ELSE net \ {t}
    /\ \/ /\ Matches(t) = {}
          /\ UNCHANGED <<pc, pending, best, clock, peers, ghosts>>
       \/ /\ Matches(t) # {}
          /\ Proceed(peers, Answered(Min(Matches(t))), best)
          /\ UNCHANGED ghosts
       \/ /\ Matches(t) # {}
          /\ \E s \in Samples : Take(t, Min(Matches(t)), s)
    /\ UNCHANGED <<stack, statusPc, round, gw, entitled>>

(* Five seconds after the queries, or an error of the socket; what is      *)
(* still under way, up to the bound, may arrive in the next round.         *)
Remaining == {T \in SUBSET net : Cardinality(T) = Min({MaxLate, Cardinality(net)})}

GiveUp ==
    /\ pc = "recv"
    /\ EndRound(peers, pending, best)
    /\ net' \in Remaining
    /\ UNCHANGED <<stack, statusPc, round, gw, ghosts, entitled>>

Sleeping == pc = "sleep" /\ UNCHANGED vars

----------------------------------------------------------------------------
Next ==
    \/ LeaseChanges
    \/ ConfigUp \/ ConfigDown \/ WaitExpires
    \/ \E wake \in BOOLEAN, F \in SUBSET Config : BeginRound(wake, F)
    \/ \E t \in net : Discard(t)
    \/ \E F \in SUBSET Asked(gw) : WakeOver(F)
    \/ \E t \in net, again \in BOOLEAN : Receive(t, again)
    \/ GiveUp \/ Sleeping

Spec == Init /\ [][Next]_vars

----------------------------------------------------------------------------
(* Properties.                                                             *)

Entries(source) == {i \in Slots : peers[i] # None /\ peers[i].source = source}

TypeOK ==
    /\ lease \in Leases \union {None}
    /\ statusPc \in {"up?", "down?"}
    /\ pc \in {"sleep", "wake", "recv"}
    /\ Len(pending) <= MaxConfig + 1
    /\ IsInjective([i \in DOMAIN pending |-> pending[i].server])
    /\ \A i \in Slots : peers[i] # None =>
          /\ peers[i].source \in Sources
          /\ peers[i].address \in Config \union Gateways

(* No server has two entries of one source in the table (status.rs         *)
(* 323-354): freed slots are used again, but never before the server's own.*)
EntriesDistinct ==
    \A i, j \in Slots :
        (peers[i] # None /\ IsPeer(peers[j], peers[i].source, peers[i].address))
            => i = j

(* The statistics shown for a server are those of the last reply of that   *)
(* very server, whatever replies of other servers, of earlier rounds or of *)
(* the pre-wake query arrive in between.  Left out is the gateway's entry  *)
(* when the gateway is a configured server too (ntp.rs 375-389): it shows  *)
(* the best reply of the round, whichever server gave it.                  *)
StatsAreOwn ==
    \A i \in Slots :
        (/\ peers[i] # None /\ peers[i].sample # None
         /\ ~(peers[i].source = "dhcp" /\ peers[i].address \in Config))
            => peers[i].sample = heard[peers[i].address]

(* The table: one entry for each server, with what that server answered    *)
(* (status.rs 323-354, 661-698).                                           *)
TableInv == TypeOK /\ EntriesDistinct /\ StatsAreOwn

(* A query counts at most once, as a success or as a failure: a doubled or *)
(* late reply changes nothing (ntp.rs 292-304).                            *)
CountedOnce ==
    \A i \in Slots : peers[i] # None => peers[i].ok + peers[i].fail <= round

(* The clock is set from a reply to a query of the same round; an answer   *)
(* to an earlier query would have its delay measured from the wrong start. *)
MasterAnswersThisRound ==
    clock.round = round =>
        round = 0 \/ \E a \in answers : a.server = clock.master /\ a.round = round

(* Once a round is over, the clock has been set if anybody gave a valid    *)
(* answer, and no such answer was better than the master's, in whatever    *)
(* order they came (ntp.rs 357-363).                                       *)
BestAnswer ==
    (pc = "sleep" /\ answers # {}) =>
        /\ clock.round = round
        /\ \A m, a \in answers :
              m.server = clock.master => ~Better(a.rank, m.rank)

(* Every answer is used once, for the query it answers, and the best one   *)
(* sets the clock (ntp.rs 282-365).                                        *)
AnswersInv == CountedOnce /\ MasterAnswersThisRound /\ BestAnswer

(* Gateways in the table: the one registered last and those of rounds that *)
(* were under way at that time or have begun since.  Losing the network    *)
(* or moving to another one takes the others out (status.rs 482-484,       *)
(* 647-659); a round that straddles the change may put its own back.       *)
GatewaysEntitled ==
    \A i \in Entries("dhcp") : peers[i].address \in entitled

(* A configured server that has just answered is in the table, unless two  *)
(* gateways are: only the remains of an earlier network shut a server out. *)
NoServerShutOut ==
    [][\A a \in answers' \ answers :
          a.server \in Config =>
              \/ Cardinality(Entries("dhcp")) >= 2
              \/ \E i \in Slots : /\ IsPeer(peers'[i], "config", a.server)
                                  /\ peers'[i].sample = heard'[a.server]]_vars
============================================================================
