--------------------------- MODULE HistoryProofs ---------------------------
(* What History promises, for every number of sectors and of records in a  *)
(* sector, however long it runs.                                           *)
(*                                                                         *)
(* The argument: a record is as old as the way from its slot round to the  *)
(* write index is long, and its number says so.  That holds of every slot  *)
(* on its own, so it survives whatever a flash error or a power cut leaves *)
(* out, and the boot search can rely on it.                                *)
EXTENDS History, DataLemmas, FiniteSetTheorems

\* How many appends ago slot i was written, when the write index is w.
Age(i, w) == IF i < w THEN w - i ELSE w - i + Capacity

\* Each record of f is in the slot its number says, given index w and number n.
Placed(f, w, n) ==
    \A i \in Slots :
        \/ f[i] = Erased
        \/ f[i] \in Nat /\ f[i] = n - Age(i, w)
        \/ f[i] = n /\ i = w

\* Only a ring that never was written, or was cleared, numbers from 0.
Origin == nextSeq = 0 => writeIndex = 0 /\ run = 0

\* Once an append has begun its sector is erased; it is held in the image.
UnderWay ==
    /\ pc = "append" => AtSectorStart
    /\ pc \in {"append", "program"} =>
        \A i \in Slots : SectorOf(i) = SectorOf(writeIndex) => flash[i] = Erased
    /\ pc = "program" =>
        Placed(image, writeIndex, nextSeq) /\ image[writeIndex] = nextSeq

\* A clear has erased all it has passed, and is trouble.
Clearing ==
    pc = "clear" =>
        /\ \A i \in Slots : SectorOf(i) < cursor => flash[i] = Erased
        /\ cursor > 0 => run = 0

\* A record that the counters do not know of is trouble too.
Settled == run > 0 => ~Unsettled

\* How far back the ring is whole: an append makes room a sector at a time.
Bound ==
    IF pc \in {"append", "program"} /\ AtSectorStart
    THEN Capacity - PerSector ELSE Capacity - PerSector + 1

\* The last `run` records are there, as far back as room was not made.
Kept ==
    \A i \in Slots :
        Age(i, writeIndex) <= run /\ Age(i, writeIndex) <= Bound =>
            Content[i] = nextSeq - Age(i, writeIndex)

IInv ==
    /\ TypeOK
    /\ Placed(flash, writeIndex, nextSeq)
    /\ Origin
    /\ UnderWay
    /\ Clearing
    /\ Settled
    /\ Kept

----------------------------------------------------------------------------
(* The ring holds a sector at least.                                       *)
LEMMA RingSize ==
    /\ Capacity \in Nat \ {0}
    /\ PerSector \in 1 .. Capacity
    /\ 0 \in Slots
<1>1. Sectors * PerSector \in Nat /\ Sectors * PerSector >= PerSector
  BY HistoryAssumption
<1> QED
  BY <1>1, HistoryAssumption DEF Capacity, Slots

(* Ages go once round the ring; the slot to be written next is the oldest. *)
LEMMA AgeRange ==
    ASSUME NEW w \in Slots, NEW i \in Slots
    PROVE  Age(i, w) \in 1 .. Capacity /\ (Age(i, w) = Capacity <=> i = w)
  BY RingSize DEF Age, Slots

(* Two slots have two ages.                                                *)
LEMMA AgeInjective ==
    ASSUME NEW w \in Slots, NEW i \in Slots, NEW j \in Slots,
           Age(i, w) = Age(j, w)
    PROVE  i = j
  BY RingSize DEF Age, Slots

(* With the write index after slot j, j is the youngest, and what was      *)
(* older than j is older than j by as much as it was.                      *)
LEMMA AgeMoved ==
    ASSUME NEW w \in Slots, NEW j \in Slots
    PROVE  /\ AfterSlot(j) \in Slots
           /\ Age(j, AfterSlot(j)) = 1
           /\ \A i \in Slots :
                Age(i, w) >= Age(j, w) =>
                    Age(i, AfterSlot(j)) = Age(i, w) - Age(j, w) + 1
<1>1. AfterSlot(j) = IF j = Capacity - 1 THEN 0 ELSE j + 1
  BY RingSize, NextInRing DEF AfterSlot, Slots
<1> QED
  BY <1>1, RingSize DEF Age, Slots

(* One append makes every slot older by one but the one it writes.         *)
LEMMA AgeAppend ==
    ASSUME NEW w \in Slots, NEW i \in Slots, i # w
    PROVE  Age(i, AfterSlot(w)) = Age(i, w) + 1
<1>1. AfterSlot(w) = IF w = Capacity - 1 THEN 0 ELSE w + 1
  BY RingSize, NextInRing DEF AfterSlot, Slots
<1> QED
  BY <1>1, RingSize DEF Age, Slots

(* Every slot is in one of the sectors.                                    *)
LEMMA SectorInRing == \A i \in Slots : SectorOf(i) \in 0 .. Sectors - 1
<1>1. \A i \in Slots : i \in Nat /\ i < Sectors * PerSector
  BY RingSize DEF Slots, Capacity
<1> QED
  BY <1>1, HistoryAssumption, BlockOf DEF SectorOf

(* The sector that begins at the write index holds the oldest slots.       *)
LEMMA SectorIsOldest ==
    ASSUME NEW w \in Slots, w % PerSector = 0, NEW i \in Slots
    PROVE  SectorOf(i) = SectorOf(w) <=> Age(i, w) > Capacity - PerSector
<1> DEFINE q == w \div PerSector
<1>1. w = PerSector * q /\ q \in Int
  BY HistoryAssumption DEF Slots
<1>2. q \in 0 .. Sectors - 1
  <2>1. w \in Nat /\ w < Sectors * PerSector
    BY RingSize DEF Slots, Capacity
  <2> QED
    BY <2>1, HistoryAssumption, BlockOf
<1> HIDE DEF q
<1>3. PerSector * (q + 1) <= PerSector * Sectors
  BY <1>2, HistoryAssumption
<1>4. w + PerSector <= Capacity
  <2>1. PerSector * (q + 1) = PerSector * q + PerSector
    BY <1>2, HistoryAssumption
  <2>2. PerSector * Sectors = Capacity
    BY HistoryAssumption DEF Capacity
  <2> QED
    BY <1>1, <1>3, <2>1, <2>2, RingSize
<1>5. SectorOf(i) = SectorOf(w) <=> w <= i /\ i < w + PerSector
  <2>1. w \in Nat /\ i \in Nat
    BY RingSize DEF Slots
  <2> QED
    BY <2>1, SameBlock, HistoryAssumption DEF SectorOf
<1> QED
  BY <1>4, <1>5, RingSize DEF Age, Slots

(* The number of valid records fits HISTORY_COUNT.                         *)
LEMMA CountInRange ==
    ASSUME NEW f
    PROVE  IsFiniteSet(Valid(f)) /\ Cardinality(Valid(f)) \in 0 .. Capacity
<1>1. IsFiniteSet(Slots) /\ Cardinality(Slots) = Capacity
  BY FS_Interval, RingSize DEF Slots
<1>2. IsFiniteSet(Valid(f)) /\ Cardinality(Valid(f)) <= Cardinality(Slots)
  BY <1>1, FS_Subset DEF Valid
<1> QED
  BY <1>1, <1>2, FS_CardinalityType

----------------------------------------------------------------------------
(* What an erase and a program, whole or cut short, do to a ring of        *)
(* records: each slot keeps what it had, or is erased, or gets the image's.*)
LEMMA EraseOrKeep ==
    ASSUME NEW f \in [Slots -> Int], NEW s
    PROVE  /\ EraseSector(f, s) \in [Slots -> Int]
           /\ \A i \in Slots :
                EraseSector(f, s)[i] = IF SectorOf(i) = s THEN Erased ELSE f[i]
  BY DEF EraseSector, Erased

LEMMA ProgramOrKeep ==
    ASSUME NEW f \in [Slots -> Int], NEW img \in [Slots -> Int], NEW s, NEW k \in Int
    PROVE  /\ Programmed(f, s, img, k) \in [Slots -> Int]
           /\ \A i \in Slots :
                Programmed(f, s, img, k)[i] =
                    IF SectorOf(i) = s /\ i % PerSector < k THEN img[i] ELSE f[i]
  BY DEF Programmed

(* Nothing but erasing, or taking records from a ring of the same kind,    *)
(* takes a record out of its place.                                        *)
LEMMA PlacedParts ==
    ASSUME NEW f, NEW g, NEW h, NEW w, NEW n,
           Placed(f, w, n), Placed(g, w, n),
           \A i \in Slots : h[i] \in {Erased, f[i], g[i]}
    PROVE  Placed(h, w, n)
  BY DEF Placed

----------------------------------------------------------------------------
(* The boot search.  The newest record is the one with the smallest age,   *)
(* unless the slot at the write index holds the number the counters were   *)
(* to give next; numbering goes on above every record in flash.            *)
LEMMA NewestFound ==
    ASSUME NEW f \in [Slots -> Int], NEW w \in Slots, NEW n \in Nat,
           Placed(f, w, n), Valid(f) # {}
    PROVE  /\ Newest(f) \in Slots
           /\ f[Newest(f)] \in Nat
           /\ \A i \in Valid(f) : f[i] <= f[Newest(f)]
<1> DEFINE V == {f[i] : i \in Valid(f)}
<1>1. V \in SUBSET Int /\ V # {} /\ \A x \in V : x <= n
  <2>1. \A i \in Valid(f) : f[i] \in Int /\ f[i] <= n
    BY AgeRange, RingSize DEF Placed, Valid
  <2> QED
    BY <2>1
<1>2. PICK v \in V : \A x \in V : x <= v
  <2> HIDE DEF V
  <2>1. n \in Int
    OBVIOUS
  <2> QED
    BY <1>1, <2>1, Greatest
<1>3. \E i \in Valid(f) : \A j \in Valid(f) : f[i] >= f[j]
  BY <1>1, <1>2
<1>4. Newest(f) \in Valid(f) /\ \A j \in Valid(f) : f[Newest(f)] >= f[j]
  BY <1>3 DEF Newest
<1>5. f[Newest(f)] \in Nat
  BY <1>4 DEF Placed, Valid
<1> QED
  BY <1>1, <1>4, <1>5 DEF Valid

LEMMA BootPlaces ==
    ASSUME NEW f \in [Slots -> Int], NEW w \in Slots, NEW n \in Nat,
           Placed(f, w, n)
    PROVE  /\ Resume(f).index \in Slots
           /\ Resume(f).seq \in Nat
           /\ Resume(f).seq = 0 => Resume(f).index = 0 /\ Valid(f) = {}
           /\ Resume(f).seq # 0 => \E i \in Slots : f[i] = Resume(f).seq - 1
           /\ \A i \in Slots : f[i] < Resume(f).seq
           /\ Placed(f, Resume(f).index, Resume(f).seq)
<1>1. CASE Valid(f) = {}
  <2>1. Resume(f).index = 0 /\ Resume(f).seq = 0
    BY <1>1 DEF Resume
  <2>2. \A i \in Slots : f[i] = Erased
    BY <1>1 DEF Valid
  <2> QED
    BY <1>1, <2>1, <2>2, RingSize DEF Placed, Erased
<1>2. CASE Valid(f) # {}
  <2>1. PICK j \in Slots : /\ j = Newest(f) /\ f[j] \in Nat
                          /\ \A i \in Valid(f) : f[i] <= f[j]
    BY <1>2, NewestFound
  <2>2. PICK x \in Slots : x = AfterSlot(j) /\ Age(j, x) = 1
    BY <2>1, AgeMoved
  <2>3. Resume(f).index = x /\ Resume(f).seq = f[j] + 1
    BY <1>2, <2>1, <2>2 DEF Resume
  <2>4. \A i \in Slots : f[i] < f[j] + 1
    BY <2>1 DEF Valid, Erased
  <2>5. ASSUME NEW i \in Valid(f) PROVE f[i] \in Nat /\ f[i] = (f[j] + 1) - Age(i, x)
    <3>1. i \in Slots /\ f[i] # Erased /\ f[j] # Erased
      BY <2>1, <2>5 DEF Valid, Erased
    <3>2. f[i] \in Nat /\ f[i] <= f[j]
      BY <2>1, <2>5, <3>1 DEF Placed
    <3>3. Age(i, w) \in 1 .. Capacity /\ Age(j, w) \in 1 .. Capacity
      BY <2>1, <3>1, AgeRange
    <3>4. CASE f[j] = n /\ j = w
      <4>1. i = j \/ f[i] = n - Age(i, w)
        BY <3>1, <3>4 DEF Placed
      <4>2. i # j => Age(i, x) = Age(i, w) + 1
        BY <2>2, <3>1, <3>4, AgeAppend
      <4> QED
        BY <2>1, <2>2, <3>2, <3>3, <3>4, <4>1, <4>2
    <3>5. CASE f[j] = n - Age(j, w)
      <4>1. f[i] = n - Age(i, w)
        BY <3>1, <3>2, <3>3, <3>5 DEF Placed
      <4>2. Age(i, w) >= Age(j, w)
        BY <3>2, <3>3, <3>5, <4>1
      <4>3. Age(i, x) = Age(i, w) - Age(j, w) + 1
        BY <2>1, <2>2, <3>1, <4>2, AgeMoved
      <4> QED
        BY <3>2, <3>3, <3>5, <4>1, <4>3
    <3>6. f[j] = n - Age(j, w) \/ (f[j] = n /\ j = w)
      BY <2>1, <3>1, <3>3 DEF Placed
    <3> QED
      BY <3>4, <3>5, <3>6
  <2>6. Placed(f, x, f[j] + 1)
    BY <2>5 DEF Placed, Valid
  <2> QED
    BY <2>1, <2>2, <2>3, <2>4, <2>6
<1> QED
  BY <1>1, <1>2

(* With the youngest record in place and nothing the counters do not know  *)
(* of, the search finds just the counters there were.                      *)
LEMMA BootContinues ==
    ASSUME NEW f \in [Slots -> Int], NEW w \in Slots, NEW n \in Nat,
           Placed(f, w, n), f[w] # n,
           NEW j \in Slots, Age(j, w) = 1, f[j] = n - 1, n # 0
    PROVE  Resume(f).index = w /\ Resume(f).seq = n
<1>1. \A i \in Slots : i # j => f[i] < n - 1
  <2> SUFFICES ASSUME NEW i \in Slots, i # j PROVE f[i] < n - 1
    OBVIOUS
  <2>1. Age(i, w) \in 2 .. Capacity
    BY AgeRange, AgeInjective
  <2>2. f[i] = Erased \/ f[i] = n - Age(i, w)
    BY DEF Placed
  <2>3. f[i] = Erased => f[i] < n - 1
    BY DEF Erased
  <2> QED
    BY <2>1, <2>2, <2>3
<1>2. j \in Valid(f)
  BY DEF Valid, Erased
<1>3. Newest(f) = j
  <2>1. Newest(f) \in Slots /\ f[j] <= f[Newest(f)]
    BY <1>2, NewestFound
  <2>2. f[Newest(f)] \in Int
    BY <2>1
  <2> QED
    BY <1>1, <2>1, <2>2
<1>4. AfterSlot(j) = w
  <2>1. AfterSlot(j) = IF j = Capacity - 1 THEN 0 ELSE j + 1
    BY RingSize, NextInRing DEF AfterSlot, Slots
  <2> QED
    BY <2>1, RingSize DEF Age, Slots
<1> QED
  BY <1>2, <1>3, <1>4 DEF Resume

----------------------------------------------------------------------------
LEMMA InitHolds == Init => IInv
<1> SUFFICES ASSUME Init PROVE IInv
  OBVIOUS
<1>1. TypeOK
  BY RingSize, HistoryAssumption DEF Init, TypeOK, Erased
<1>2. Placed(flash, writeIndex, nextSeq)
  BY DEF Init, Placed
<1>3. Origin /\ UnderWay /\ Clearing /\ Settled
  BY DEF Init, Origin, UnderWay, Clearing, Settled
<1>4. Kept
  <2>1. run = 0 /\ writeIndex \in Slots
    BY RingSize DEF Init
  <2> QED
    BY <2>1, AgeRange DEF Kept
<1> QED
  BY <1>1, <1>2, <1>3, <1>4 DEF IInv

(* Making room erases a sector's worth of the oldest slots.                *)
LEMMA EraseAheadKeeps == ASSUME IInv, EraseAhead PROVE IInv'
<1> USE DEF IInv, EraseAhead, atomics
<1>1. /\ flash' \in [Slots -> Int]
      /\ \A i \in Slots : flash'[i] = IF SectorOf(i) = SectorOf(writeIndex)
                                      THEN Erased ELSE flash[i]
  BY EraseOrKeep DEF TypeOK
<1>2. TypeOK'
  <2>1. left' \in 0 .. Capacity
    BY RingSize DEF TypeOK, Smaller
  <2> QED
    BY <1>1, <2>1 DEF TypeOK
<1>3. Placed(flash, writeIndex, nextSeq)'
  <2>1. \A i \in Slots : flash'[i] \in {Erased, flash[i]}
    BY <1>1
  <2> QED
    BY <2>1, PlacedParts
<1>4. UnderWay'
  BY <1>1 DEF UnderWay, AtSectorStart
<1>5. Settled'
  <2>1. flash'[writeIndex] = Erased /\ nextSeq # Erased
    BY <1>1 DEF TypeOK, Erased
  <2> QED
    BY <2>1 DEF Settled, Unsettled
<1>6. Kept'
  <2> SUFFICES ASSUME NEW i \in Slots, Age(i, writeIndex) <= run,
                      Age(i, writeIndex) <= Bound'
               PROVE  Content'[i] = nextSeq - Age(i, writeIndex)
    BY DEF Kept, Age
  <2>1. writeIndex \in Slots /\ Age(i, writeIndex) \in 1 .. Capacity
    BY AgeRange DEF TypeOK
  <2>2. Bound' = Capacity - PerSector /\ Bound = Capacity - PerSector + 1
    BY DEF Bound, AtSectorStart
  <2>3. SectorOf(i) # SectorOf(writeIndex)
    BY <2>1, <2>2, SectorIsOldest, RingSize DEF AtSectorStart
  <2>4. Content'[i] = flash[i] /\ Content[i] = flash[i]
    BY <1>1, <2>3 DEF Content
  <2>5. Age(i, writeIndex) <= Bound
    BY <2>1, <2>2, RingSize
  <2> QED
    BY <2>4, <2>5 DEF Kept
<1> QED
  BY <1>2, <1>3, <1>4, <1>5, <1>6 DEF Origin, Clearing

(* The image takes the sector's records and the new one, and the sector is *)
(* erased; together they are what the sector was.                          *)
LEMMA MergeKeeps ==
    ASSUME IInv, NEW k \in 0 .. Capacity, Merge(k),
           \/ pc = "idle" /\ ~AtSectorStart
           \/ pc = "append"
    PROVE  IInv'
<1> USE DEF IInv, Merge, atomics
<1>1. /\ flash' \in [Slots -> Int]
      /\ \A i \in Slots : flash'[i] = IF SectorOf(i) = SectorOf(writeIndex)
                                      THEN Erased ELSE flash[i]
  BY EraseOrKeep DEF TypeOK
<1>2. /\ image' \in [Slots -> Int]
      /\ image'[writeIndex] = nextSeq
      /\ \A i \in Slots : i # writeIndex => image'[i] = flash[i]
  BY DEF TypeOK, Merged
<1>3. TypeOK'
  BY <1>1, <1>2 DEF TypeOK
<1>4. Placed(flash, writeIndex, nextSeq)'
  <2>1. \A i \in Slots : flash'[i] \in {Erased, flash[i]}
    BY <1>1
  <2> QED
    BY <2>1, PlacedParts
<1>5. UnderWay'
  <2>1. Placed(image', writeIndex, nextSeq)
    BY <1>2 DEF Placed
  <2> QED
    BY <1>1, <1>2, <2>1 DEF UnderWay, Placed, Age
<1>6. Settled'
  <2>1. flash'[writeIndex] = Erased /\ nextSeq # Erased
    BY <1>1 DEF TypeOK, Erased
  <2> QED
    BY <2>1 DEF Settled, Unsettled
<1>7. Kept'
  <2> SUFFICES ASSUME NEW i \in Slots, Age(i, writeIndex) <= run,
                      Age(i, writeIndex) <= Bound'
               PROVE  Content'[i] = nextSeq - Age(i, writeIndex)
    BY DEF Kept, Age
  <2>1. writeIndex \in Slots /\ Age(i, writeIndex) \in 1 .. Capacity
    BY AgeRange DEF TypeOK
  <2>2. Bound' = Bound /\ Bound \in Int /\ Bound < Capacity
    <3>1. AtSectorStart' <=> AtSectorStart
      BY DEF AtSectorStart
    <3>2. pc = "append" => AtSectorStart
      BY DEF UnderWay
    <3>3. ~AtSectorStart => PerSector > 1
      BY HistoryAssumption DEF AtSectorStart, TypeOK, Slots
    <3> QED
      BY <3>1, <3>2, <3>3, RingSize DEF Bound
  <2>3. i # writeIndex
    BY <2>1, <2>2, AgeRange, RingSize
  <2>4. Content'[i] = flash[i] /\ Content[i] = flash[i]
    BY <1>1, <1>2, <2>3 DEF Content
  <2> QED
    BY <2>2, <2>4 DEF Kept
<1> QED
  BY <1>3, <1>4, <1>5, <1>6, <1>7 DEF Origin, Clearing

(* The record is written and every other is one append older.              *)
LEMMA ProgramKeeps == ASSUME IInv, Program PROVE IInv'
<1> USE DEF IInv, Program, locals
<1>1. /\ flash' \in [Slots -> Int]
      /\ \A i \in Slots : flash'[i] = Content[i]
  <2>1. \A i \in Slots : i % PerSector < PerSector
    BY HistoryAssumption DEF Slots
  <2>2. PerSector \in Int
    BY HistoryAssumption
  <2> QED
    BY <2>1, <2>2, ProgramOrKeep DEF TypeOK, Content
<1>2. writeIndex' \in Slots /\ Age(writeIndex, writeIndex') = 1
  BY AgeMoved DEF TypeOK
<1>3. \A i \in Slots : i # writeIndex => Age(i, writeIndex') = Age(i, writeIndex) + 1
  BY AgeAppend DEF TypeOK
<1>4. \A i \in Slots : Age(i, writeIndex) \in 1 .. Capacity
  BY AgeRange DEF TypeOK
<1>5. Content[writeIndex] = nextSeq
  BY DEF Content, UnderWay, TypeOK
<1>6. \A i \in Slots : Content[i] = Erased
         \/ (Content[i] \in Nat /\ i # writeIndex /\ Content[i] = nextSeq - Age(i, writeIndex))
         \/ (Content[i] = nextSeq /\ i = writeIndex)
  BY <1>5 DEF Content, UnderWay, Placed
<1>7. TypeOK'
  <2>1. count' \in 0 .. Capacity
    BY RingSize DEF TypeOK, Smaller
  <2> QED
    BY <1>1, <1>2, <2>1 DEF TypeOK
<1>8. \A i \in Slots : flash'[i] = Erased
         \/ (flash'[i] \in Nat /\ flash'[i] = nextSeq' - Age(i, writeIndex'))
  BY <1>1, <1>2, <1>3, <1>4, <1>6 DEF TypeOK
<1>9. Placed(flash, writeIndex, nextSeq)'
  BY <1>8 DEF Placed, Age
<1>10. Settled'
  <2>1. \A i \in Slots : Age(i, writeIndex') \in 1 .. Capacity
    BY <1>2, AgeRange
  <2>2. flash'[writeIndex'] # nextSeq'
    BY <1>2, <1>8, <2>1 DEF TypeOK, Erased
  <2> QED
    BY <2>2 DEF Settled, Unsettled
<1>11. Kept'
  <2> SUFFICES ASSUME NEW i \in Slots, Age(i, writeIndex') <= run',
                      Age(i, writeIndex') <= Bound'
               PROVE  Content'[i] = nextSeq' - Age(i, writeIndex')
    BY DEF Kept, Age
  <2>1. Content'[i] = Content[i]
    BY <1>1 DEF Content
  <2>2. CASE i = writeIndex
    BY <1>2, <1>5, <2>1, <2>2 DEF TypeOK
  <2>3. CASE i # writeIndex
    <3>1. Bound' = Capacity - PerSector + 1 /\ Bound >= Capacity - PerSector
      BY RingSize DEF Bound
    <3>2. Age(i, writeIndex) <= run /\ Age(i, writeIndex) <= Bound
      BY <1>3, <1>4, <2>3, <3>1, RingSize DEF TypeOK, Bound
    <3>3. Content[i] = nextSeq - Age(i, writeIndex)
      BY <3>2 DEF Kept
    <3> QED
      BY <1>3, <1>4, <2>1, <2>3, <3>3 DEF TypeOK
  <2> QED
    BY <2>2, <2>3
<1>12. Origin' /\ UnderWay' /\ Clearing'
  BY DEF Origin, UnderWay, Clearing, TypeOK
<1> QED
  BY <1>7, <1>9, <1>10, <1>11, <1>12

(* A sector programmed in part, or not at all, has lost records.           *)
LEMMA FailuresKeep ==
    ASSUME IInv, AppendFailed \/ \E k \in 0 .. PerSector : ProgramFailed(k)
    PROVE  IInv'
<1> USE DEF IInv
<1>1. /\ pc' = "idle" /\ run' = 0 /\ UNCHANGED <<atomics, locals>>
      /\ flash' \in [Slots -> Int]
      /\ Placed(flash', writeIndex, nextSeq)
  <2>1. CASE AppendFailed
    BY <2>1 DEF AppendFailed, TypeOK
  <2>2. ASSUME NEW k \in 0 .. PerSector, ProgramFailed(k)
        PROVE  /\ flash' \in [Slots -> Int]
               /\ Placed(flash', writeIndex, nextSeq)
    <3>1. k \in Int
      BY HistoryAssumption
    <3>2. /\ flash' \in [Slots -> Int]
          /\ \A i \in Slots : flash'[i] \in {Erased, flash[i], image[i]}
      BY <2>2, <3>1, ProgramOrKeep DEF ProgramFailed, TypeOK
    <3>3. Placed(image, writeIndex, nextSeq)
      BY <2>2 DEF ProgramFailed, UnderWay
    <3> QED
      BY <3>2, <3>3, PlacedParts
  <2> QED
    BY <2>1, <2>2 DEF AppendFailed, ProgramFailed
<1>2. TypeOK'
  BY <1>1 DEF TypeOK, atomics, locals
<1>3. Placed(flash, writeIndex, nextSeq)'
  BY <1>1 DEF Placed, Age, atomics
<1>4. Origin' /\ UnderWay' /\ Clearing' /\ Settled'
  BY <1>1 DEF Origin, UnderWay, Clearing, Settled, atomics
<1>5. Kept'
  <2>1. writeIndex' \in Slots /\ run' = 0
    BY <1>1, <1>2 DEF TypeOK
  <2> QED
    BY <2>1, AgeRange DEF Kept, Age
<1> QED
  BY <1>2, <1>3, <1>4, <1>5

(* A clear erases whole sectors; when it resets the counters, all of them. *)
LEMMA ClearKeeps ==
    ASSUME IInv, ClearBegin \/ ClearSector \/ ClearFailed \/ ClearEnd
    PROVE  IInv'
<1> USE DEF IInv, atomics, locals
<1>1. CASE ClearBegin \/ ClearFailed
  <2>1. TypeOK'
    BY <1>1, HistoryAssumption DEF ClearBegin, ClearFailed, TypeOK
  <2>2. Placed(flash, writeIndex, nextSeq)' /\ Origin' /\ Settled'
    BY <1>1 DEF ClearBegin, ClearFailed, Placed, Age, Origin, Settled, Unsettled
  <2>3. UnderWay' /\ Clearing'
    <3>1. pc' = "clear" => cursor' = 0
      BY <1>1 DEF ClearBegin, ClearFailed
    <3>2. Clearing'
      BY <3>1, SectorInRing DEF Clearing
    <3> QED
      BY <1>1, <3>2 DEF ClearBegin, ClearFailed, UnderWay
  <2>4. Kept'
    <3>1. Bound' = Bound
      BY <1>1 DEF ClearBegin, ClearFailed, Bound
    <3>2. \A i \in Slots : Content'[i] = Content[i]
      BY <1>1 DEF ClearBegin, ClearFailed, Content
    <3> QED
      BY <1>1, <3>1, <3>2 DEF ClearBegin, ClearFailed, Kept, Age
  <2> QED
    BY <2>1, <2>2, <2>3, <2>4
<1>2. CASE ClearSector
  <2> USE <1>2 DEF ClearSector
  <2>1. /\ flash' \in [Slots -> Int]
        /\ \A i \in Slots : flash'[i] = IF SectorOf(i) = cursor
                                        THEN Erased ELSE flash[i]
    BY EraseOrKeep DEF TypeOK
  <2>2. TypeOK'
    BY <2>1, HistoryAssumption DEF TypeOK
  <2>3. Placed(flash, writeIndex, nextSeq)'
    <3>1. \A i \in Slots : flash'[i] \in {Erased, flash[i]}
      BY <2>1
    <3> QED
      BY <3>1, PlacedParts
  <2>4. Clearing'
    <3>1. \A i \in Slots :
            SectorOf(i) < cursor + 1 => SectorOf(i) = cursor \/ SectorOf(i) < cursor
      BY SectorInRing DEF TypeOK
    <3> QED
      BY <2>1, <3>1 DEF Clearing
  <2>5. Origin' /\ UnderWay' /\ Settled'
    BY <2>2 DEF Origin, UnderWay, Settled, TypeOK
  <2>6. Kept'
    <3>1. writeIndex' \in Slots /\ run' = 0
      BY <2>2 DEF TypeOK
    <3> QED
      BY <3>1, AgeRange DEF Kept, Age
  <2> QED
    BY <2>2, <2>3, <2>4, <2>5, <2>6
<1>3. CASE ClearEnd
  <2> USE <1>3 DEF ClearEnd
  <2>1. \A i \in Slots : flash'[i] = Erased
    <3>1. \A i \in Slots : SectorOf(i) < cursor
      BY SectorInRing, HistoryAssumption
    <3> QED
      BY <3>1 DEF Clearing
  <2>2. run = 0
    BY HistoryAssumption DEF Clearing
  <2>3. TypeOK'
    BY RingSize DEF TypeOK
  <2>4. Placed(flash, writeIndex, nextSeq)'
    BY <2>1 DEF Placed
  <2>5. Origin' /\ UnderWay' /\ Clearing' /\ Settled'
    BY <2>2 DEF Origin, UnderWay, Clearing, Settled
  <2>6. Kept'
    <3>1. writeIndex' \in Slots /\ run' = 0
      BY <2>2, <2>3 DEF TypeOK
    <3> QED
      BY <3>1, AgeRange DEF Kept, Age
  <2> QED
    BY <2>3, <2>4, <2>5, <2>6
<1> QED
  BY <1>1, <1>2, <1>3

----------------------------------------------------------------------------
(* What is in flash when the power returns is placed, whenever it went.    *)
LEMMA FoundAtBoot ==
    ASSUME IInv, NEW k \in 0 .. PerSector,
           NEW f, f = IF pc = "program"
                      THEN Programmed(flash, SectorOf(writeIndex), image, k)
                      ELSE flash
    PROVE  /\ f \in [Slots -> Int]
           /\ Placed(f, writeIndex, nextSeq)
           /\ \A i \in Slots : f[i] \in {Erased, Content[i]}
<1> USE DEF IInv
<1>1. CASE pc # "program"
  BY <1>1 DEF TypeOK, Content
<1>2. CASE pc = "program"
  <2>1. k \in Int
    BY HistoryAssumption
  <2>2. /\ f \in [Slots -> Int]
        /\ \A i \in Slots :
             f[i] = IF SectorOf(i) = SectorOf(writeIndex) /\ i % PerSector < k
                    THEN image[i] ELSE flash[i]
    BY <1>2, <2>1, ProgramOrKeep DEF TypeOK
  <2>3. Placed(image, writeIndex, nextSeq)
    BY <1>2 DEF UnderWay
  <2>4. \A i \in Slots : f[i] \in {Erased, flash[i], image[i]}
    BY <2>2
  <2>5. Placed(f, writeIndex, nextSeq)
    BY <2>3, <2>4, PlacedParts
  <2>6. \A i \in Slots : f[i] \in {Erased, Content[i]}
    BY <1>2, <2>2 DEF UnderWay, Content
  <2> QED
    BY <2>2, <2>5, <2>6
<1> QED
  BY <1>1, <1>2

(* A boot that finds an untroubled ring changes nothing.                   *)
LEMMA BootInRun ==
    ASSUME IInv, pc = "idle", run > 0
    PROVE  Resume(flash).index = writeIndex /\ Resume(flash).seq = nextSeq
<1> USE DEF IInv
<1>1. PICK j \in Slots : Age(j, writeIndex) = 1
  <2>1. PICK j \in Slots : AfterSlot(j) = writeIndex
    <3> DEFINE j == IF writeIndex = 0 THEN Capacity - 1 ELSE writeIndex - 1
    <3>1. j \in Slots
      BY RingSize DEF TypeOK, Slots
    <3>2. AfterSlot(j) = IF j = Capacity - 1 THEN 0 ELSE j + 1
      BY <3>1, RingSize, NextInRing DEF AfterSlot, Slots
    <3> QED
      BY <3>1, <3>2, RingSize DEF TypeOK, Slots
  <2> QED
    BY <2>1, AgeMoved
<1>2. Age(j, writeIndex) <= run /\ Age(j, writeIndex) <= Bound
  BY <1>1, RingSize DEF Bound, TypeOK
<1>3. flash[j] = nextSeq - 1
  BY <1>1, <1>2 DEF Kept, Content
<1>4. flash[writeIndex] # nextSeq /\ nextSeq # 0
  BY DEF Settled, Unsettled, Origin
<1> QED
  BY <1>1, <1>3, <1>4, BootContinues DEF TypeOK

LEMMA BootKeeps ==
    ASSUME IInv,
           NEW f \in [Slots -> Int], Placed(f, writeIndex, nextSeq), Boot(f),
           \/ run' = 0
           \/ pc = "idle" /\ f = flash /\ run' = run
    PROVE  IInv'
<1> USE DEF IInv, Boot
<1>1. /\ writeIndex' \in Slots /\ nextSeq' \in Nat
      /\ nextSeq' = 0 => writeIndex' = 0
      /\ \A i \in Slots : f[i] < nextSeq'
      /\ Placed(f, writeIndex', nextSeq')
  BY BootPlaces DEF TypeOK
<1>2. run' > 0 => /\ pc = "idle" /\ f = flash /\ run' = run
                  /\ writeIndex' = writeIndex /\ nextSeq' = nextSeq
  BY BootInRun
<1>3. TypeOK'
  <2>1. count' \in 0 .. Capacity
    BY CountInRange
  <2> QED
    BY <1>1, <2>1, RingSize, HistoryAssumption DEF TypeOK, Erased
<1>4. Placed(flash, writeIndex, nextSeq)'
  BY <1>1 DEF Placed, Age
<1>5. Settled'
  BY <1>1 DEF Settled, Unsettled
<1>6. Origin'
  BY <1>1, <1>2, <1>3 DEF Origin, TypeOK
<1>7. UnderWay' /\ Clearing'
  BY DEF UnderWay, Clearing
<1>8. Kept'
  <2>1. \A i \in Slots : Age(i, writeIndex') \in 1 .. Capacity
    BY <1>1, AgeRange
  <2>2. CASE run' = 0
    BY <2>1, <2>2 DEF Kept, Age
  <2>3. CASE run' > 0
    <3>1. Bound' = Bound
      BY <1>2, <2>3 DEF Bound
    <3>2. \A i \in Slots : Content'[i] = Content[i]
      BY <1>2, <2>3 DEF Content
    <3> QED
      BY <1>2, <2>3, <3>1, <3>2 DEF Kept, Age
  <2> QED
    BY <1>3, <2>2, <2>3 DEF TypeOK
<1> QED
  BY <1>3, <1>4, <1>5, <1>6, <1>7, <1>8

----------------------------------------------------------------------------
LEMMA Inductive == IInv /\ [Next]_vars => IInv'
<1> SUFFICES ASSUME IInv, [Next]_vars PROVE IInv'
  OBVIOUS
<1>1. CASE EraseAhead
  BY <1>1, EraseAheadKeeps
<1>2. CASE AppendInSector
  BY <1>2, MergeKeeps DEF AppendInSector, IInv, TypeOK
<1>3. CASE AppendAtStart
  BY <1>3, MergeKeeps DEF AppendAtStart, IInv, TypeOK
<1>4. CASE Program
  BY <1>4, ProgramKeeps
<1>5. CASE AppendFailed \/ \E k \in 0 .. PerSector : ProgramFailed(k)
  BY <1>5, FailuresKeep
<1>6. CASE ClearBegin \/ ClearSector \/ ClearFailed \/ ClearEnd
  BY <1>6, ClearKeeps
<1>7. CASE PowerCycle
  BY <1>7, BootKeeps DEF PowerCycle, IInv, TypeOK
<1>8. ASSUME NEW k \in 0 .. PerSector, PowerCut(k) PROVE IInv'
  <2> DEFINE f == IF pc = "program"
                  THEN Programmed(flash, SectorOf(writeIndex), image, k)
                  ELSE flash
  <2>1. f \in [Slots -> Int] /\ Placed(f, writeIndex, nextSeq)
    BY FoundAtBoot
  <2>2. Boot(f) /\ run' = 0
    BY <1>8 DEF PowerCut
  <2> HIDE DEF f
  <2> QED
    BY <2>1, <2>2, BootKeeps
<1>9. CASE UNCHANGED vars
  <2>1. \A i \in Slots : Content'[i] = Content[i]
    BY <1>9 DEF vars, atomics, locals, Content
  <2> QED
    BY <1>9, <2>1 DEF vars, atomics, locals, IInv, TypeOK, Placed, Age, Origin,
       UnderWay, AtSectorStart, Clearing, Settled, Unsettled, Kept, Bound
<1> QED
  BY <1>1, <1>2, <1>3, <1>4, <1>5, <1>6, <1>7, <1>8, <1>9 DEF Next

(* The inductive invariant holds in every reachable state.                 *)
THEOREM HistoryInvariant == Spec => []IInv
  BY InitHolds, Inductive, PTL DEF Spec

----------------------------------------------------------------------------
(* The k-th slot of a walk from the write index is one of the ring, and    *)
(* the walk goes from the oldest to the youngest.                          *)
LEMMA WalkAges ==
    ASSUME NEW w \in Slots, NEW k \in 1 .. Capacity
    PROVE  /\ (w + k - 1) % Capacity \in Slots
           /\ Age((w + k - 1) % Capacity, w) = Capacity - k + 1
<1> DEFINE m == k - 1
<1>1. m \in 0 .. Capacity - 1 /\ w \in 0 .. Capacity - 1
  BY RingSize DEF Slots
<1>2. (w + m) % Capacity = IF w + m < Capacity THEN w + m ELSE w + m - Capacity
  <2> HIDE DEF m
  <2> QED
    BY <1>1, RingSize, AheadInRing
<1>3. w + k - 1 = w + m
  BY <1>1
<1> QED
  BY <1>1, <1>2, <1>3, RingSize DEF Slots, Age

(* The slot written k appends ago is k places back.                        *)
LEMMA BackAges ==
    ASSUME NEW w \in Slots, NEW k \in 1 .. Capacity
    PROVE  (w - k) % Capacity \in Slots /\ Age((w - k) % Capacity, w) = k
<1>1. (w - k) % Capacity = IF k <= w THEN w - k ELSE w - k + Capacity
  BY RingSize, BackInRing DEF Slots
<1> QED
  BY <1>1, RingSize DEF Slots, Age

(* What a snapshot leaves out comes before all it lists.                   *)
LEMMA SnapshotIsNewest ==
    ASSUME NEW m \in Nat, NEW i \in ValidSteps \ Snapshot(m), NEW j \in Snapshot(m)
    PROVE  i < j
<1> DEFINE Before(k) == {l \in ValidSteps : l < k}
<1>1. IsFiniteSet(ValidSteps)
  <2>1. IsFiniteSet(1 .. Capacity)
    BY FS_Interval, RingSize
  <2> QED
    BY <2>1, FS_Subset DEF ValidSteps
<1>2. \A k : IsFiniteSet(Before(k)) /\ Cardinality(Before(k)) \in Nat
  <2> SUFFICES ASSUME NEW k
               PROVE  IsFiniteSet(Before(k)) /\ Cardinality(Before(k)) \in Nat
    OBVIOUS
  <2>1. Before(k) \subseteq ValidSteps
    OBVIOUS
  <2> HIDE DEF Before
  <2> QED
    BY <1>1, <2>1, FS_Subset, FS_CardinalityType
<1>3. PICK skip \in Int :
        Snapshot(m) = {k \in ValidSteps : Cardinality(Before(k)) >= skip}
  BY <1>1, FS_CardinalityType DEF Snapshot, Smaller
<1>4. ~(Cardinality(Before(j)) <= Cardinality(Before(i)))
  <2> HIDE DEF Before
  <2>1. Cardinality(Before(j)) >= skip /\ ~(Cardinality(Before(i)) >= skip)
    BY <1>3
  <2> QED
    BY <1>2, <2>1
<1>5. i \in Int /\ j \in Int
  BY DEF ValidSteps, Snapshot
<1>6. CASE j <= i
  <2>1. Before(j) \subseteq Before(i)
    BY <1>5, <1>6 DEF ValidSteps
  <2> HIDE DEF Before
  <2> QED
    BY <1>2, <1>4, <2>1, FS_Subset
<1> QED
  BY <1>5, <1>6

LEMMA SnapshotsOrdered == IInv => SnapshotOrdered
<1> SUFFICES ASSUME IInv, pc = "idle", ~Unsettled,
                    NEW i \in ValidSteps, NEW j \in ValidSteps, i < j
             PROVE  ReadInOrder[i] < ReadInOrder[j]
  <2>1. \A m : Snapshot(m) \subseteq ValidSteps
    BY DEF Snapshot
  <2> QED
    BY <2>1, SnapshotIsNewest, RingSize DEF SnapshotOrdered
<1>1. ASSUME NEW k \in ValidSteps
      PROVE  k \in 1 .. Capacity /\ ReadInOrder[k] = nextSeq - (Capacity - k + 1)
  <2>1. k \in 1 .. Capacity /\ ReadInOrder[k] # Erased
    BY DEF ValidSteps
  <2>2. PICK s \in Slots : /\ s = (writeIndex + k - 1) % Capacity
                           /\ Age(s, writeIndex) = Capacity - k + 1
    BY <2>1, WalkAges DEF IInv, TypeOK
  <2>3. ReadInOrder[k] = flash[s]
    BY <2>1, <2>2 DEF ReadInOrder
  <2> QED
    BY <2>1, <2>2, <2>3 DEF IInv, Placed, Unsettled
<1> QED
  BY <1>1, RingSize DEF IInv, TypeOK

LEMMA NumbersFresh == IInv => SeqsFresh
<1> SUFFICES ASSUME IInv, NEW i \in Valid(flash)
             PROVE  flash[i] < nextSeq \/ (Unsettled /\ i = writeIndex)
  BY DEF SeqsFresh
<1>1. i \in Slots /\ Age(i, writeIndex) \in 1 .. Capacity
  BY AgeRange DEF IInv, TypeOK, Valid
<1>2. flash[i] = nextSeq - Age(i, writeIndex) \/ (Unsettled /\ i = writeIndex)
  BY <1>1 DEF IInv, Placed, Valid, Unsettled
<1> QED
  BY <1>1, <1>2, RingSize DEF IInv, TypeOK

(* The ring is one run of numbers with one gap: every snapshot lists the   *)
(* newest records in order, and the next number is above all in flash,     *)
(* after any power cuts, flash errors and interrupted clears               *)
(* (storage.rs 120-167, 257-376).                                          *)
THEOREM HistoryRing == Spec => []RingInv
<1>1. IInv => RingInv
  BY SnapshotsOrdered, NumbersFresh DEF RingInv, IInv
<1> QED
  BY <1>1, HistoryInvariant, PTL

(* As long as nothing fails the ring keeps its newest records without a    *)
(* hole, all but one sector's worth of its capacity (storage.rs 209-255).  *)
THEOREM HistoryRecentKept == Spec => []RecentKept
<1>1. ASSUME IInv, pc = "idle",
             NEW k \in 1 .. Smaller(run, Capacity - PerSector + 1)
      PROVE  flash[(writeIndex - k) % Capacity] = nextSeq - k
  <2>1. k \in 1 .. Capacity /\ k <= run /\ k <= Bound
    BY <1>1, RingSize DEF Smaller, Bound, IInv, TypeOK
  <2>2. PICK s \in Slots : s = (writeIndex - k) % Capacity /\ Age(s, writeIndex) = k
    BY <1>1, <2>1, BackAges DEF IInv, TypeOK
  <2> QED
    BY <1>1, <2>1, <2>2 DEF IInv, Kept, Content
<1>2. IInv => RecentKept
  BY <1>1 DEF RecentKept
<1> QED
  BY <1>2, HistoryInvariant, PTL

(* A power cycle with the newest record in place goes on writing and       *)
(* numbering exactly where it left off (storage.rs 141-167).               *)
THEOREM HistoryPowerCycle == Spec => PowerCycleContinues
<1>1. ASSUME IInv, PowerCycle, ~Unsettled,
             flash[(writeIndex - 1) % Capacity] = nextSeq - 1
      PROVE  UNCHANGED <<flash, writeIndex, nextSeq>>
  <2>1. PICK s \in Slots : s = (writeIndex - 1) % Capacity /\ Age(s, writeIndex) = 1
    BY <1>1, BackAges, RingSize DEF IInv, TypeOK
  <2>2. CASE nextSeq # 0
    BY <1>1, <2>1, <2>2, BootContinues DEF IInv, TypeOK, Unsettled, PowerCycle, Boot
  <2>3. CASE nextSeq = 0
    <3>1. \A i \in Slots : Age(i, writeIndex) \in 1 .. Capacity
      BY <1>1, AgeRange DEF IInv, TypeOK
    <3>2. \A i \in Slots : flash[i] = Erased
      BY <1>1, <2>3, <3>1 DEF IInv, Placed, Unsettled
    <3>3. Valid(flash) = {} /\ writeIndex = 0
      BY <1>1, <2>3, <3>2 DEF Valid, IInv, Origin
    <3> QED
      BY <1>1, <2>3, <3>3 DEF PowerCycle, Boot, Resume
  <2> QED
    BY <2>2, <2>3
<1>2. IInv /\ [Next]_vars =>
        [/\ pc = "idle" /\ PowerCycle /\ ~Unsettled
         /\ flash[(writeIndex - 1) % Capacity] = nextSeq - 1
         => UNCHANGED <<flash, writeIndex, nextSeq>>]_vars
  BY <1>1
<1> QED
  BY <1>2, HistoryInvariant, PTL DEF Spec, PowerCycleContinues

----------------------------------------------------------------------------
(* The ring implements the log, one lemma for each step of the log.        *)

(* Every record the ring holds is in its place, also while a sector is     *)
(* being rewritten.                                                        *)
LEMMA ContentPlaced ==
    ASSUME IInv
    PROVE  /\ \A i \in Slots : Content[i] \in Int /\ Content[i] <= nextSeq
           /\ Placed(Content, writeIndex, nextSeq)
<1>1. \A i \in Slots : Content[i] \in Int
  BY DEF IInv, TypeOK, Content
<1>2. Placed(Content, writeIndex, nextSeq)
  BY DEF IInv, UnderWay, Content, Placed
<1>3. \A i \in Slots : Age(i, writeIndex) \in 1 .. Capacity
  BY AgeRange DEF IInv, TypeOK
<1>4. \A i \in Slots : Content[i] <= nextSeq
  BY <1>1, <1>2, <1>3, RingSize DEF Placed, IInv, TypeOK, Erased
<1> QED
  BY <1>1, <1>2, <1>4

LEMMA InitMaps == Init => Log!LogInit
  BY DEF Init, Log!LogInit, Readable, Content

(* Making room: what the log loses was older than what it keeps.           *)
LEMMA MakingRoomMaps ==
    ASSUME IInv, UNCHANGED <<nextSeq, run>>,
           Readable' \subseteq Readable,
           \A x \in Readable \ Readable', y \in Readable' : x < y
    PROVE  Log!DropOldest \/ UNCHANGED Log!logVars
<1>1. Readable \in SUBSET Int /\ nextSeq \in Int /\ \A x \in Readable : x <= nextSeq
  BY ContentPlaced DEF Readable, IInv, TypeOK
<1>2. CASE Readable' = Readable
  BY <1>2 DEF Log!logVars
<1>3. CASE Readable' # Readable
  <2>1. \E b \in Readable : Readable' = {x \in Readable : x > b}
    BY <1>1, <1>3, LowerPartRemoved
  <2> QED
    BY <2>1 DEF Log!DropOldest
<1> QED
  BY <1>2, <1>3

LEMMA EraseAheadMaps ==
    ASSUME IInv, EraseAhead
    PROVE  Log!DropOldest \/ UNCHANGED Log!logVars
<1> USE DEF EraseAhead, atomics
<1>1. \A i \in Slots : Content'[i] = IF SectorOf(i) = SectorOf(writeIndex)
                                     THEN Erased ELSE Content[i]
  BY EraseOrKeep DEF Content, IInv, TypeOK
<1>2. \A i \in Slots : Age(i, writeIndex) \in 1 .. Capacity
  BY AgeRange DEF IInv, TypeOK
<1>3. \A i \in Slots : SectorOf(i) = SectorOf(writeIndex)
                           <=> Age(i, writeIndex) > Capacity - PerSector
  BY SectorIsOldest DEF AtSectorStart, IInv, TypeOK
<1>4. ASSUME NEW x \in Readable \ Readable'
      PROVE  x \in Int /\ x < nextSeq - (Capacity - PerSector)
  <2>1. PICK i \in Slots : x = Content[i] /\ x # Erased /\ x # nextSeq
    BY DEF Readable
  <2>2. SectorOf(i) = SectorOf(writeIndex)
    BY <1>1, <2>1 DEF Readable
  <2>3. x = nextSeq - Age(i, writeIndex)
    BY <2>1, ContentPlaced DEF Placed
  <2> QED
    BY <1>2, <1>3, <2>2, <2>3, RingSize DEF IInv, TypeOK
<1>5. ASSUME NEW y \in Readable'
      PROVE  y \in Readable /\ y \in Int /\ y >= nextSeq - (Capacity - PerSector)
  <2>1. PICK i \in Slots : y = Content'[i] /\ y # Erased /\ y # nextSeq
    BY DEF Readable
  <2>2. SectorOf(i) # SectorOf(writeIndex) /\ y = Content[i]
    BY <1>1, <2>1
  <2>3. y = nextSeq - Age(i, writeIndex)
    BY <2>1, <2>2, ContentPlaced DEF Placed
  <2> QED
    <3>1. y \in Readable
      BY <2>1, <2>2 DEF Readable
    <3>2. Age(i, writeIndex) \in 1 .. Capacity - PerSector
      BY <1>2, <1>3, <2>2, RingSize
    <3> QED
      BY <2>3, <3>1, <3>2, RingSize DEF IInv, TypeOK
<1>6. \A x \in Readable \ Readable', y \in Readable' : x < y
  BY <1>4, <1>5, RingSize DEF IInv, TypeOK
<1> QED
  BY <1>5, <1>6, MakingRoomMaps

(* Only the record at the write index goes, and it is the oldest.          *)
LEMMA MergeMaps ==
    ASSUME IInv, NEW k, Merge(k), pc # "program"
    PROVE  Log!DropOldest \/ UNCHANGED Log!logVars
<1> USE DEF Merge, atomics
<1>1. \A i \in Slots : Content'[i] = IF i = writeIndex THEN nextSeq ELSE Content[i]
  <2>1. \A i \in Slots : image'[i] = IF i = writeIndex THEN nextSeq ELSE flash[i]
    BY DEF Merged, IInv, TypeOK
  <2>2. \A i \in Slots : SectorOf(i) # SectorOf(writeIndex) => flash'[i] = flash[i]
    BY EraseOrKeep DEF IInv, TypeOK
  <2> QED
    BY <2>1, <2>2 DEF Content
<1>2. \A i \in Slots : /\ Age(i, writeIndex) \in 1 .. Capacity
                       /\ Age(i, writeIndex) = Capacity <=> i = writeIndex
  BY AgeRange DEF IInv, TypeOK
<1>3. ASSUME NEW x \in Readable \ Readable' PROVE x = nextSeq - Capacity
  <2>1. PICK i \in Slots : x = Content[i] /\ x # Erased /\ x # nextSeq
    BY DEF Readable
  <2>2. i = writeIndex
    BY <1>1, <2>1 DEF Readable
  <2>3. x = nextSeq - Age(i, writeIndex)
    BY <2>1, ContentPlaced DEF Placed
  <2> QED
    BY <1>2, <2>2, <2>3
<1>4. ASSUME NEW y \in Readable'
      PROVE  y \in Readable /\ y \in Int /\ y > nextSeq - Capacity
  <2>1. PICK i \in Slots : y = Content'[i] /\ y # Erased /\ y # nextSeq
    BY DEF Readable
  <2>2. i # writeIndex /\ y = Content[i]
    BY <1>1, <2>1
  <2>3. y = nextSeq - Age(i, writeIndex)
    BY <2>1, <2>2, ContentPlaced DEF Placed
  <2> QED
    <3>1. y \in Readable
      BY <2>1, <2>2 DEF Readable
    <3>2. Age(i, writeIndex) \in 1 .. Capacity - 1
      BY <1>2, <2>2, RingSize
    <3> QED
      BY <2>3, <3>1, <3>2, RingSize DEF IInv, TypeOK
<1>5. \A x \in Readable \ Readable', y \in Readable' : x < y
  BY <1>3, <1>4
<1> QED
  BY <1>4, <1>5, MakingRoomMaps

LEMMA ProgramMaps == ASSUME IInv, Program PROVE Log!Record
<1> USE DEF Program
<1>1. \A i \in Slots : Content'[i] = Content[i]
  <2>1. \A i \in Slots : i % PerSector < PerSector
    BY HistoryAssumption DEF Slots
  <2>2. PerSector \in Int
    BY HistoryAssumption
  <2> QED
    BY <2>1, <2>2, ProgramOrKeep DEF IInv, TypeOK, Content
<1>2. writeIndex \in Slots /\ Content[writeIndex] = nextSeq /\ nextSeq # Erased
  BY DEF Content, IInv, UnderWay, TypeOK, Erased
<1>3. \A i \in Slots : Content[i] # nextSeq + 1
  BY ContentPlaced DEF IInv, TypeOK
<1>4. {Content'[i] : i \in Slots} = {Content[i] : i \in Slots}
  BY <1>1
<1>5. Readable' = Readable \cup {nextSeq}
  BY <1>2, <1>3, <1>4 DEF Readable
<1> QED
  BY <1>5 DEF Log!Record

(* Errors and a clear under way lose records and end the run.              *)
LEMMA TroubleMaps ==
    ASSUME IInv,
           \/ AppendFailed \/ ClearSector
           \/ \E k \in 0 .. PerSector : ProgramFailed(k)
    PROVE  Log!Lose
<1>1. nextSeq' = nextSeq /\ run' = 0
  BY DEF AppendFailed, ClearSector, ProgramFailed, atomics
<1>2. \A i \in Slots : Content'[i] \in {Erased, Content[i]}
  <2>1. CASE AppendFailed
    BY <2>1 DEF AppendFailed, Content
  <2>2. CASE ClearSector
    BY <2>2, EraseOrKeep DEF ClearSector, Content, IInv, TypeOK
  <2>3. ASSUME NEW k \in 0 .. PerSector, ProgramFailed(k)
        PROVE  \A i \in Slots : Content'[i] \in {Erased, Content[i]}
    <3> DEFINE f == Programmed(flash, SectorOf(writeIndex), image, k)
    <3>1. pc = "program" /\ \A i \in Slots : Content'[i] = f[i]
      BY <2>3 DEF ProgramFailed, Content
    <3> HIDE DEF f
    <3>2. f = Programmed(flash, SectorOf(writeIndex), image, k)
      BY DEF f
    <3> QED
      BY <3>1, <3>2, FoundAtBoot
  <2> QED
    BY <2>1, <2>2, <2>3
<1>3. Readable' \subseteq Readable
  BY <1>1, <1>2 DEF Readable
<1> QED
  BY <1>1, <1>3 DEF Log!Lose

LEMMA ClearEndMaps == ASSUME IInv, IInv', ClearEnd PROVE Log!Cleared
<1>1. nextSeq' = 0 /\ run' = 0
  BY DEF ClearEnd, IInv, Origin
<1>2. \A i \in Slots : Content'[i] = Erased
  <2>1. \A i \in Slots : SectorOf(i) < cursor
    BY SectorInRing, HistoryAssumption DEF ClearEnd
  <2> QED
    BY <2>1 DEF ClearEnd, IInv, Clearing, Content
<1>3. Readable' = {}
  BY <1>2 DEF Readable
<1> QED
  BY <1>1, <1>3 DEF Log!Cleared

LEMMA BootMaps ==
    ASSUME IInv,
           NEW f \in [Slots -> Int], Placed(f, writeIndex, nextSeq), Boot(f),
           \A i \in Slots : f[i] \in {Erased, Content[i]},
           run' = 0 \/ (UNCHANGED run /\ \A i \in Slots : f[i] = Content[i])
    PROVE  Log!Restart
<1> USE DEF Boot
<1>1. \A i \in Slots : Content'[i] = f[i]
  BY DEF Content
<1>2. /\ nextSeq' \in Nat
      /\ nextSeq' = 0 => Valid(f) = {}
      /\ nextSeq' # 0 => \E i \in Slots : f[i] = nextSeq' - 1
      /\ \A i \in Slots : f[i] < nextSeq'
  BY BootPlaces DEF IInv, TypeOK
<1>3. Readable' = {f[i] : i \in Slots} \ {Erased}
  <2>1. {Content'[i] : i \in Slots} = {f[i] : i \in Slots}
    BY <1>1
  <2>2. nextSeq' \notin {f[i] : i \in Slots}
    BY <1>2
  <2> QED
    BY <2>1, <2>2 DEF Readable
<1>4. Readable' \subseteq Readable \cup {nextSeq}
  BY <1>3 DEF Readable
<1>5. (Readable \subseteq Readable' /\ UNCHANGED run) \/ run' = 0
  BY <1>3 DEF Readable
<1>6. CASE nextSeq' = 0
  <2>1. Readable' = {}
    BY <1>2, <1>3, <1>6 DEF Valid
  <2> QED
    BY <1>4, <1>5, <1>6, <2>1 DEF Log!Restart
<1>7. CASE nextSeq' # 0
  <2>1. nextSeq' - 1 \in Readable'
    BY <1>2, <1>3, <1>7 DEF Erased
  <2>2. \A s \in Readable' : s < nextSeq'
    BY <1>2, <1>3
  <2> QED
    BY <1>4, <1>5, <2>1, <2>2 DEF Log!Restart
<1> QED
  BY <1>6, <1>7

LEMMA StepMaps ==
    IInv /\ IInv' /\ [Next]_vars => [Log!LogNext]_(Log!logVars)
<1> SUFFICES ASSUME IInv, IInv', [Next]_vars
             PROVE  Log!LogNext \/ UNCHANGED Log!logVars
  OBVIOUS
<1> USE DEF Log!LogNext
<1>1. CASE EraseAhead
  BY <1>1, EraseAheadMaps
<1>2. CASE AppendInSector \/ AppendAtStart
  BY <1>2, MergeMaps DEF AppendInSector, AppendAtStart
<1>3. CASE Program
  BY <1>3, ProgramMaps
<1>4. CASE \/ AppendFailed \/ ClearSector
           \/ \E k \in 0 .. PerSector : ProgramFailed(k)
  BY <1>4, TroubleMaps
<1>5. CASE ClearBegin \/ ClearFailed
  <2>1. UNCHANGED <<Content, nextSeq, run>>
    BY <1>5 DEF ClearBegin, ClearFailed, Content, atomics
  <2> QED
    BY <2>1 DEF Log!logVars, Readable
<1>6. CASE ClearEnd
  BY <1>6, ClearEndMaps
<1>7. CASE PowerCycle
  BY <1>7, BootMaps DEF PowerCycle, Content, IInv, TypeOK
<1>8. ASSUME NEW k \in 0 .. PerSector, PowerCut(k) PROVE Log!Restart
  <2> DEFINE f == IF pc = "program"
                  THEN Programmed(flash, SectorOf(writeIndex), image, k)
                  ELSE flash
  <2>1. /\ f \in [Slots -> Int] /\ Placed(f, writeIndex, nextSeq)
        /\ \A i \in Slots : f[i] \in {Erased, Content[i]}
    BY FoundAtBoot
  <2>2. Boot(f) /\ run' = 0
    BY <1>8 DEF PowerCut
  <2> HIDE DEF f
  <2> QED
    BY <2>1, <2>2, BootMaps
<1>9. CASE UNCHANGED vars
  <2>1. \A i \in Slots : Content'[i] = Content[i]
    BY <1>9 DEF vars, atomics, locals, Content
  <2>2. {Content'[i] : i \in Slots} = {Content[i] : i \in Slots}
    BY <2>1
  <2> QED
    BY <1>9, <2>2 DEF Log!logVars, Readable, vars, atomics
<1> QED
  BY <1>1, <1>2, <1>3, <1>4, <1>5, <1>6, <1>7, <1>8, <1>9 DEF Next

(* The flash ring implements the log: whatever fails, records are only     *)
(* ever dropped from the old end, lost in trouble that ends the run, or    *)
(* cleared; none is invented, renumbered or reordered.                     *)
THEOREM HistoryImplementsLog == Spec => ImplementsLog
  BY InitMaps, StepMaps, HistoryInvariant, PTL
  DEF Spec, ImplementsLog, Log!LogSpec
=============================================================================
