---------------------------- MODULE MCAlgorithms ----------------------------
(***************************************************************************)
(* Inputs for modules Algorithms and Names: all small ones, and those      *)
(* around the boundaries of the code.  Uptimes count records, a record     *)
(* comes 1 s or 6 s after the one before it.  The names are all of up to   *)
(* four bytes of seven kinds, some with a pointer into or after a label or *)
(* to itself, and two of 16 and 17 labels.                                 *)
(*                                                                         *)
(* The behaviours are those of both modules, one input of either varied at *)
(* a time, as nothing depends on both.                                     *)
(***************************************************************************)
EXTENDS Algorithms, Names

MCUnknown == -1000000
Temps == {0, 1, 3}

RECURSIVE At(_, _)
At(late, i) == IF i = 1 THEN 0 ELSE At(late, i - 1) + (IF i \in late THEN 6 ELSE 1)

Records(n) ==
    {[i \in 1..n |-> [uptime |-> i, temp |-> t[i], received |-> At(late, i)]] :
        t \in [1..n -> Temps], late \in SUBSET (2..n)}

Histories ==
    {[kind |-> "history", records |-> r, threshold |-> k] :
        r \in UNION {Records(n) : n \in 1..5}, k \in 2..4}

Buses ==
    {[kind |-> "bus", bus |-> bus, width |-> 3] : bus \in SUBSET [1..3 -> {0, 1}]}

Packets ==
    {[kind |-> "packet", centi |-> c, flags |-> f] :
        c \in {Unknown, -40000, -32769, -32768, -1, 0, 8500, 32766, 32767, 40000},
        f \in SUBSET Range(FlagBits)}

(* The first years; around 2000, 2100 and the end of a u32 of seconds.     *)
Days ==
    {[kind |-> "day", days |-> d] :
        d \in (0..1500) \cup (10900..11100) \cup (47450..47950) \cup (49600..49710)}

Hostnames ==
    {[kind |-> "hostname", text |-> t] :
        t \in UNION {[1..n -> {"a", "A", "-", "."}] : n \in 0..5}}

Ages == {[kind |-> "age", age |-> a] : a \in 0..700}

MCInputs ==
    UNION {Histories, Buses, Packets, Days, Hostnames, Ages}

LongName(n) == [i \in 1..(2 * n + 1) |-> IF i = 2 * n + 1 THEN 0
                                         ELSE IF i % 2 = 1 THEN 1 ELSE 97]
RootName == <<0>>

MCNameInputs ==
    {[packet |-> p, host |-> << <<97>>, <<97>> >>] :
        p \in UNION {[1..n -> {0, 1, 2, 65, 97, 128, 192}] : n \in 0..4}
             \cup {<<192, 2, 1, 65, 1, 97, 0>>, <<1, 97, 192, 4, 1, 65, 0>>,
                   <<1, 97, 192, 0, 0>>, LongName(16), LongName(17)}}

MCInit ==
    \/ asked \in {x \in NameInputs : x.packet = RootName} /\ AlgorithmsInit
    \/ input = [kind |-> "age", age |-> 0] /\ NamesInit
MCNext == AlgorithmsNext /\ NamesNext
MCSpec == MCInit /\ [][MCNext]_<<input, asked>>
=============================================================================
