------------------------------- MODULE Names -------------------------------
(***************************************************************************)
(* Names in a DNS packet, a sequence of bytes: the three walks over them,  *)
(* dns_name_matches_host_local, mdns_skip_name and mdns_name_has_label of  *)
(* src/firmware/network/mdns.rs.  Offsets count from 0 as in the code.  A  *)
(* loop is a function of the number of its turns; at says where it stands: *)
(* in the name, at its end (or what was looked for), or at None.           *)
(*                                                                         *)
(* A behaviour is one packet; nothing happens to it.                       *)
(***************************************************************************)
EXTENDS Integers, Sequences

CONSTANT NameInputs      \* records [packet, host]

VARIABLE asked           \* what the walks are applied to

Bytes == 0 .. 255

ASSUME NameAssumption ==
    \A x \in NameInputs : x.packet \in Seq(Bytes) /\ x.host \in Seq(Bytes) \X Seq(Bytes)

----------------------------------------------------------------------------
Byte(p, i) == p[i + 1]
Pointer(p, i) == (Byte(p, i) % 64) * 256 + Byte(p, i + 1)
Label(p, i) == SubSeq(p, i + 2, i + 1 + Byte(p, i))
AfterLabel(p, i) == i + 1 + Byte(p, i)
Lower(label) == [i \in DOMAIN label |-> IF label[i] \in 65 .. 90 THEN label[i] + 32
                                        ELSE label[i]]

(* What a length byte is: 64..191 are none of the three.                   *)
IsPointer(len) == len >= 192
IsLabel(len) == len \in 1 .. 63

(* dns_name_matches_host_local: what a turn of its loop does.              *)
Fail(w) == [w EXCEPT !.at = "none"]
Jump(p, w) ==
    [w EXCEPT !.cursor = Pointer(p, w.cursor), !.jumped = TRUE,
              !.next = IF w.jumped THEN @ ELSE w.cursor + 2, !.depth = @ + 1]
End(w) ==
    [w EXCEPT !.at = "end", !.next = IF w.jumped THEN @ ELSE w.cursor + 1,
              !.matched = @ /\ w.labels = 2]
PassLabel(p, host, w) ==
    [w EXCEPT !.cursor = AfterLabel(p, w.cursor), !.labels = @ + 1,
              !.matched = @ /\ w.labels < 2
                            /\ Lower(Label(p, w.cursor)) = host[w.labels + 1]]

WalkOn(p, host, w) ==
    LET c   == w.cursor
        len == Byte(p, c)
    IN  IF w.at # "name" THEN w
        ELSE IF w.depth >= 16 \/ c >= Len(p) THEN Fail(w)
        ELSE IF IsPointer(len)
             THEN IF c + 1 >= Len(p) \/ Pointer(p, c) >= Len(p) THEN Fail(w) ELSE Jump(p, w)
        ELSE IF len = 0 THEN End(w)
        ELSE IF ~IsLabel(len) \/ AfterLabel(p, c) > Len(p) THEN Fail(w)
        ELSE PassLabel(p, host, w)

(* Enough turns for 16 pointers with labels between them.                  *)
WalkTurns(p) == 17 * (Len(p) + 1)

MatchesHost(p, host) ==
    LET start == [cursor |-> 0, next |-> 0, jumped |-> FALSE, depth |-> 0,
                  labels |-> 0, matched |-> TRUE, at |-> "name"]
        s[k \in 0 .. WalkTurns(p)] == IF k = 0 THEN start ELSE WalkOn(p, host, s[k - 1])
    IN  s[WalkTurns(p)]

(* mdns_skip_name, which gives up after 16 labels.                         *)
SkipOn(p, s) ==
    LET len == Byte(p, s.offset)
    IN  IF s.at # "name" THEN s
        ELSE IF s.offset >= Len(p) THEN [s EXCEPT !.at = "none"]
        ELSE IF IsPointer(len) THEN [offset |-> s.offset + 2, at |-> "end"]
        ELSE IF len = 0 THEN [offset |-> s.offset + 1, at |-> "end"]
        ELSE IF ~IsLabel(len) THEN [s EXCEPT !.at = "none"]
        ELSE [s EXCEPT !.offset = AfterLabel(p, @)]

AfterNameFollowing(p) ==  \* mutant
    LET from == IF Len(p) > 1 /\ IsPointer(Byte(p, 0)) THEN Pointer(p, 0) ELSE 0
        s[k \in 0 .. 17] == IF k = 0 THEN [offset |-> from, at |-> "name"]
                            ELSE SkipOn(p, s[k - 1])
    IN  s[17]
AfterName(p) ==
    LET s[k \in 0 .. 17] == IF k = 0 THEN [offset |-> 0, at |-> "name"]
                            ELSE SkipOn(p, s[k - 1])
    IN  s[17]

(* mdns_name_has_label, which follows 16 pointers and labels.              *)
SearchLabel(p, wanted, s) ==
    LET len == Byte(p, s.offset)
    IN  IF s.at # "name" THEN s
        ELSE IF s.offset >= Len(p) THEN [s EXCEPT !.at = "none"]
        ELSE IF IsPointer(len) THEN
             IF s.offset + 1 >= Len(p) THEN [s EXCEPT !.at = "none"]
             ELSE [s EXCEPT !.offset = Pointer(p, @)]
        ELSE IF ~IsLabel(len) \/ AfterLabel(p, s.offset) > Len(p) THEN [s EXCEPT !.at = "none"]
        ELSE IF Label(p, s.offset) = wanted THEN [s EXCEPT !.at = "end"]
        ELSE [s EXCEPT !.offset = AfterLabel(p, @)]

HasLabel(p, wanted) ==
    LET s[k \in 0 .. 17] == IF k = 0 THEN [offset |-> 0, at |-> "name"]
                            ELSE SearchLabel(p, wanted, s[k - 1])
    IN  s[17].at = "end"

----------------------------------------------------------------------------
NamesInit == asked \in NameInputs
NamesNext == UNCHANGED asked
NamesSpec == NamesInit /\ [][NamesNext]_asked

(* The walks over a name of a packet agree, whatever its bytes are, with   *)
(* pointers and loops of them: the walk for the host's name ends; where it *)
(* finds an end of the name, skipping the name finds the same, but that    *)
(* skipping gives up after 16 labels; and a name that is the host's has a  *)
(* label that is the host's but for its case, which searching for it finds *)
(* (mdns.rs 42-112, 586-648).                                              *)
NameWalksAgree ==
    LET p    == asked.packet
        host == MatchesHost(p, asked.host)
        skip == AfterName(p)
    IN  /\ host.at # "name"
        /\ host.at = "end" =>
             \/ skip = [offset |-> host.next, at |-> "end"]
             \/ skip.at = "name" /\ host.labels > 16
        /\ host.at = "end" /\ host.matched =>
             \E i \in 0 .. Len(p) - 1 :
                /\ AfterLabel(p, i) <= Len(p)
                /\ Lower(Label(p, i)) = asked.host[1]
                /\ HasLabel(p, Label(p, i))
=============================================================================
