------------------------------ MODULE History -------------------------------
(***************************************************************************)
(* The flash-backed history ring of the firmware                           *)
(* (src/firmware/storage.rs): history_init at boot, the append of          *)
(* persist_history_sample, clear_history_persistent, history_snapshot.     *)
(*                                                                         *)
(* A record is its sequence number; its payload is copied unchanged and    *)
(* left out.  Every operation is one critical section, so no task sees     *)
(* its middle, but a power cut may fall anywhere in it.  Storage::write of *)
(* the flash driver rewrites a whole sector: read it, erase it, program it *)
(* again with the record merged in.                                        *)
(*                                                                         *)
(* The 60 s between samples are not counted: an append may come at any     *)
(* time.  An erase that fails first thing changes nothing and is a         *)
(* stuttering step here.                                                   *)
(***************************************************************************)
EXTENDS Integers, FiniteSets

CONSTANTS
  Sectors,    \* flash sectors of the ring
  PerSector,  \* HISTORY_SECTOR_SIZE / HISTORY_RECORD_SIZE
  MaxSeq      \* bound: no record is numbered this high or higher

ASSUME HistoryAssumption ==
  /\ Sectors \in Nat \ {0}
  /\ PerSector \in Nat \ {0}
  /\ MaxSeq \in Nat

Capacity == Sectors * PerSector
Slots    == 0 .. Capacity - 1
Erased   == -1   \* 0xFFFFFFFF, which no sequence number reaches

VARIABLES
  flash,       \* the sequence number in every slot of the ring
  writeIndex,  \* HISTORY_WRITE_INDEX
  nextSeq,     \* HISTORY_NEXT_SEQ
  count,       \* HISTORY_COUNT
  pc,          \* how far the operation under way has come
  left,        \* `count` of persist_history_sample
  image,       \* the sector being rewritten by Storage::write
  cursor,      \* `sector` of clear_history_persistent
  run          \* history: appends in a row since records were last lost

atomics == <<writeIndex, nextSeq, count>>
locals  == <<left, image, cursor>>
vars    == <<flash, atomics, pc, locals, run>>

SectorOf(i) == i \div PerSector
SectorSlots(s) == {i \in Slots : SectorOf(i) = s}
Valid(f) == {i \in Slots : f[i] # Erased}

EraseSector(f, s) == [i \in Slots |-> IF SectorOf(i) = s THEN Erased ELSE f[i]]

\* Sector s with the first k records of an image programmed into it.
Programmed(f, s, img, k) ==
  [i \in Slots |-> IF SectorOf(i) = s /\ i % PerSector < k THEN img[i] ELSE f[i]]

\* The slot an append moves on to.
AfterSlot(i) == (i + 1) % Capacity

\* The write address is at the start of a sector.
AtSectorEnd == writeIndex % PerSector = PerSector - 1  \* mutant: off by one
AtSectorStart == writeIndex % PerSector = 0

\* The sector as it is programmed again with the new record in it.
MergedBlank == [[i \in Slots |-> Erased] EXCEPT ![writeIndex] = nextSeq]  \* mutant
Merged == [flash EXCEPT ![writeIndex] = nextSeq]

Smaller(a, b) == IF a < b THEN a ELSE b

-----------------------------------------------------------------------------
(***************************************************************************)
(* history_init: the slot with the highest number is the newest; numbering *)
(* and writing go on after it.                                             *)
(***************************************************************************)
LastValid(f) == CHOOSE i \in Valid(f) : \A j \in Valid(f) : i >= j  \* mutant
Newest(f) == CHOOSE i \in Valid(f) : \A j \in Valid(f) : f[i] >= f[j]

ResumeByCount(f) ==  \* mutant: numbering goes on from the count
  IF Valid(f) = {}
  THEN [index |-> 0, seq |-> 0]
  ELSE [index |-> AfterSlot(Newest(f)), seq |-> Cardinality(Valid(f))]

Resume(f) ==
  IF Valid(f) = {}
  THEN [index |-> 0, seq |-> 0]
  ELSE [index |-> AfterSlot(Newest(f)), seq |-> f[Newest(f)] + 1]

Boot(f) ==
  /\ flash' = f
  /\ writeIndex' = Resume(f).index
  /\ nextSeq' = Resume(f).seq
  /\ count' = Cardinality(Valid(f))
  /\ pc' = "idle"
  /\ left' = 0
  /\ image' = [i \in Slots |-> Erased]
  /\ cursor' = 0

Init ==
  /\ flash = [i \in Slots |-> Erased]
  /\ writeIndex = 0
  /\ nextSeq = 0
  /\ count = 0
  /\ pc = "idle"
  /\ left = 0
  /\ image = [i \in Slots |-> Erased]
  /\ cursor = 0
  /\ run = 0

-----------------------------------------------------------------------------
(***************************************************************************)
(* An append at the start of a sector erases it first, and takes up to a   *)
(* sector's worth of records off its copy of the count.                    *)
(***************************************************************************)
EraseAhead ==
  /\ pc = "idle"
  /\ nextSeq < MaxSeq
  /\ AtSectorStart
  /\ flash' = EraseSector(flash, SectorOf(writeIndex))
  /\ left' = count - Smaller(count, PerSector)
  /\ pc' = "append"
  /\ UNCHANGED <<atomics, image, cursor, run>>

\* Storage::write, first half: the sector is read, merged and erased.
Merge(kept) ==
  /\ image' = Merged
  /\ flash' = EraseSector(flash, SectorOf(writeIndex))
  /\ left' = kept
  /\ pc' = "program"
  /\ UNCHANGED <<atomics, cursor, run>>

AppendInSector ==
  /\ pc = "idle"
  /\ nextSeq < MaxSeq
  /\ ~AtSectorStart
  /\ Merge(count)

AppendAtStart ==
  /\ pc = "append"
  /\ Merge(left)

\* The append is given up after its sector was erased: the write failed early.
AppendFailed ==
  /\ pc = "append"
  /\ pc' = "idle"
  /\ run' = 0
  /\ UNCHANGED <<flash, atomics, locals>>

\* Second half: the sector is programmed and the ring moves on.
Program ==
  /\ pc = "program"
  /\ flash' = Programmed(flash, SectorOf(writeIndex), image, PerSector)
  /\ writeIndex' = AfterSlot(writeIndex)
  /\ nextSeq' = nextSeq + 1
  /\ count' = Smaller(left + 1, Capacity)
  /\ pc' = "idle"
  /\ run' = run + 1
  /\ UNCHANGED locals

(***************************************************************************)
(* The driver reports an error after programming the first k records of    *)
(* the sector.  Nothing in RAM changes: the next append comes here again.  *)
(***************************************************************************)
ProgramFailed(k) ==
  /\ pc = "program"
  /\ flash' = Programmed(flash, SectorOf(writeIndex), image, k)
  /\ pc' = "idle"
  /\ run' = 0
  /\ UNCHANGED <<atomics, locals>>

-----------------------------------------------------------------------------
\* clear_history_persistent erases sector after sector ...
ClearBegin ==
  /\ pc = "idle"
  /\ pc' = "clear"
  /\ cursor' = 0
  /\ UNCHANGED <<flash, atomics, left, image, run>>

ClearSector ==
  /\ pc = "clear"
  /\ cursor < Sectors
  /\ flash' = EraseSector(flash, cursor)
  /\ cursor' = cursor + 1
  /\ run' = 0
  /\ UNCHANGED <<atomics, pc, left, image>>

\* ... returns at the first error with the counters as they were ...
ClearFailed ==
  /\ pc = "clear"
  /\ cursor < Sectors
  /\ pc' = "idle"
  /\ UNCHANGED <<flash, atomics, locals, run>>

\* ... and resets them when all are erased.
ClearEnd ==
  /\ pc = "clear"
  /\ cursor = Sectors
  /\ writeIndex' = 0
  /\ nextSeq' = 0
  /\ count' = 0
  /\ pc' = "idle"
  /\ UNCHANGED <<flash, locals, run>>

-----------------------------------------------------------------------------
\* A power cycle between two operations.
PowerCycle ==
  /\ pc = "idle"
  /\ Boot(flash)
  /\ UNCHANGED run

\* Power fails inside one, with k records of the sector programmed again.
PowerCut(k) ==
  /\ pc # "idle"
  /\ Boot(IF pc = "program"
          THEN Programmed(flash, SectorOf(writeIndex), image, k)
          ELSE flash)
  /\ run' = 0

Next ==
  \/ EraseAhead \/ AppendInSector \/ AppendAtStart \/ AppendFailed \/ Program
  \/ \E k \in 0 .. PerSector : ProgramFailed(k)
  \/ ClearBegin \/ ClearSector \/ ClearFailed \/ ClearEnd
  \/ PowerCycle
  \/ \E k \in 0 .. PerSector : PowerCut(k)

Spec == Init /\ [][Next]_vars

-----------------------------------------------------------------------------
(***************************************************************************)
(* history_snapshot: from the write index once round the ring, the valid   *)
(* records only, all but the first `skip` of them.  A snapshot is given by *)
(* the steps of that walk whose records it lists, in the order of the walk.*)
(***************************************************************************)
ReadInOrder == [k \in 1 .. Capacity |-> flash[(writeIndex + k - 1) % Capacity]]

ValidSteps == {k \in 1 .. Capacity : ReadInOrder[k] # Erased}

Snapshot(maxPoints) ==
  LET skip == Cardinality(ValidSteps) - Smaller(maxPoints, Cardinality(ValidSteps))
  IN  {k \in ValidSteps : Cardinality({j \in ValidSteps : j < k}) >= skip}

-----------------------------------------------------------------------------
\* Every variable holds a value of its type; the write index names a slot.
TypeOK ==
  /\ flash \in [Slots -> Int]
  /\ writeIndex \in Slots
  /\ nextSeq \in Nat
  /\ count \in 0 .. Capacity
  /\ pc \in {"idle", "append", "program", "clear"}
  /\ left \in 0 .. Capacity
  /\ image \in [Slots -> Int]
  /\ cursor \in 0 .. Sectors
  /\ run \in Nat

(***************************************************************************)
(* A write error may leave the record in its slot although the counters    *)
(* did not move; the next append or boot settles it.                       *)
(***************************************************************************)
Unsettled == flash[writeIndex] = nextSeq

(***************************************************************************)
(* A snapshot taken at any time, after any power cuts, flash errors and    *)
(* interrupted clears, lists its records from oldest to newest, none       *)
(* twice, and what it leaves out is older than all of it: the write index  *)
(* always points into the gap between the newest record and the oldest.    *)
(***************************************************************************)
SnapshotOrdered ==
  pc = "idle" /\ ~Unsettled =>
    \A m \in 1 .. Capacity :
      /\ \A i, j \in Snapshot(m) : i < j => ReadInOrder[i] < ReadInOrder[j]
      /\ \A i \in ValidSteps \ Snapshot(m), j \in Snapshot(m) :
           ReadInOrder[i] < ReadInOrder[j]

(***************************************************************************)
(* The next number is higher than every number still in flash, so no       *)
(* record is ever overtaken in the search for the newest one at boot.      *)
(***************************************************************************)
SeqsFresh == \A i \in Valid(flash) : flash[i] < nextSeq \/ (Unsettled /\ i = writeIndex)

(***************************************************************************)
(* The ring is one run of numbers with one gap, the write index in it and  *)
(* the next number after it (storage.rs 120-167, 257-376).                 *)
(***************************************************************************)
RingInv == TypeOK /\ SnapshotOrdered /\ SeqsFresh

(***************************************************************************)
(* As long as nothing fails, the ring keeps the newest records without a   *)
(* hole, all but one sector's worth of its capacity at least.              *)
(***************************************************************************)
RecentKept ==
  pc = "idle" =>
    \A k \in 1 .. Smaller(run, Capacity - PerSector + 1) :
      flash[(writeIndex - k) % Capacity] = nextSeq - k

(***************************************************************************)
(* A power cycle with the newest record in place goes on writing and       *)
(* numbering exactly where it left off.                                    *)
(***************************************************************************)
PowerCycleContinues ==
  [][/\ pc = "idle" /\ PowerCycle /\ ~Unsettled
     /\ flash[(writeIndex - 1) % Capacity] = nextSeq - 1
     => UNCHANGED <<flash, writeIndex, nextSeq>>]_vars

(***************************************************************************)
(* The ring implements the log.  While a sector is being rewritten its     *)
(* records are those of the image; the record being added is not one yet.  *)
(***************************************************************************)
Content == [i \in Slots |->
              IF pc = "program" /\ SectorOf(i) = SectorOf(writeIndex)
              THEN image[i] ELSE flash[i]]

Readable == {Content[i] : i \in Slots} \ {Erased, nextSeq}

Log == INSTANCE HistoryLog WITH log <- Readable, next <- nextSeq, run <- run

\* Every step of the flash ring is a step of the log, or none.
ImplementsLog == Log!LogSpec

-----------------------------------------------------------------------------
(***************************************************************************)
(* "total_samples" of GET /history is HISTORY_COUNT, which boot sets to    *)
(* the number of valid records: as long as nothing ever failed, it is.     *)
(***************************************************************************)
CountIsExact == pc = "idle" /\ run = nextSeq /\ run > 0 => count = Cardinality(Valid(flash))
=============================================================================
