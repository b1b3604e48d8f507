--------------------------- MODULE NetworkProofs ---------------------------
(***************************************************************************)
(* What the network side of the firmware promises: its settings, its HTTP  *)
(* exchanges, its discovery of the server and its walks over DNS names.    *)
(*                                                                         *)
(* Settings: for every set of target temperatures and every default among  *)
(* them. Exchange: for every set of well-formed requests and every hold    *)
(* time longer than a turn of the control loop. Discovery: for every       *)
(* interval of announcements and every expiry. Names: for every packet.    *)
(***************************************************************************)
EXTENDS Settings, Exchange, Discovery, Names, DataLemmas, SequenceTheorems

----------------------------------------------------------------------------
(* Settings.                                                               *)

\* A power cycle with sector s would bring back the settings f of RAM.
Holds(s, f) ==
  /\ "target" \in f => BootTarget(s) = target
  /\ "flags" \in f =>
       BootFlags(s) = FlagsRecord(features.http, features.prometheus, persisted)

(***************************************************************************)
(* While a record is written, the sector in RAM has it and the one next to *)
(* it: the part of the inductive invariant about a sector that is erased.  *)
(***************************************************************************)
ImageReady == handling # "ready" => Holds(image, saved \cup {Field(handling)})

SettingsIInv == TypeOK /\ CollectionFlagsAgree /\ SavedSettingsReturn /\ ImageReady


\* Booting from any sector gives settings that could have been stored.
LEMMA BootTypes ==
  ASSUME NEW s \in Records
  PROVE  /\ BootTarget(s) \in Targets
         /\ BootFlags(s) \in Flags
         /\ BootFlags(s) = [http |-> BootFlags(s).http,
                            prometheus |-> BootFlags(s).prometheus,
                            collecting |-> BootFlags(s).collecting]
BY SettingsAssumption
   DEF Records, BootTarget, BootFlags, DefaultFlags, Flags

\* What a rewriting that stops short can leave is a sector.
LEMMA PartialTypes ==
  ASSUME image \in Records PROVE Partial \subseteq Records
BY DEF Partial, Blank, Records

(***************************************************************************)
(* A boot from any sector: RAM holds what flash holds, whichever records   *)
(* were trusted.                                                           *)
(***************************************************************************)
LEMMA BootKeeps ==
  ASSUME NEW s \in Records, Boot(s), saved' \subseteq {"target", "flags"}
  PROVE  SettingsIInv'
<1>1. /\ BootTarget(s) \in Targets /\ BootFlags(s) \in Flags
      /\ BootFlags(s) = [http |-> BootFlags(s).http,
                         prometheus |-> BootFlags(s).prometheus,
                         collecting |-> BootFlags(s).collecting]
  BY BootTypes
<1>2. TypeOK'
  BY <1>1 DEF TypeOK, Boot, Flags, Records, Blank
<1>3. CollectionFlagsAgree'
  BY DEF CollectionFlagsAgree, Boot
<1>4. SavedSettingsReturn'
  BY <1>1 DEF SavedSettingsReturn, Boot, BootTarget, BootFlags
<1>5. ImageReady'
  BY DEF ImageReady, Boot
<1> QED
  BY <1>2, <1>3, <1>4, <1>5 DEF SettingsIInv

LEMMA SettingsInitHolds == SettingsInit => SettingsIInv
<1> SUFFICES ASSUME SettingsInit PROVE SettingsIInv
  OBVIOUS
<1> USE DEF SettingsInit
<1>1. Blank \in Records
  BY DEF Blank, Records
<1>2. TypeOK
  BY <1>1, SettingsAssumption DEF TypeOK
<1>3. CollectionFlagsAgree /\ SavedSettingsReturn /\ ImageReady
  BY DEF CollectionFlagsAgree, SavedSettingsReturn, ImageReady
<1> QED
  BY <1>2, <1>3 DEF SettingsIInv

\* Changing the target in RAM and writing its record, or being refused.
LEMMA PostTemperatureKeeps ==
  ASSUME SettingsIInv, NEW t \in Targets, PostTemperature(t) PROVE SettingsIInv'
<1> USE DEF SettingsIInv, PostTemperature, Field, Failure
<1>1. CASE Rewrite("temperature", t)
  <2>1. TypeOK'
    BY <1>1 DEF Rewrite, TypeOK, Merge, Records, Blank
  <2>2. image' = [sector EXCEPT !.target = t]
    BY <1>1 DEF Rewrite, Merge
  <2>3. BootTarget(image') = target' /\ BootFlags(image') = BootFlags(sector)
    BY <2>2, SettingsAssumption DEF TypeOK, Records, BootTarget, BootFlags
  <2>4. ImageReady'
    BY <1>1, <2>3
    DEF Rewrite, ImageReady, Holds, SavedSettingsReturn, FlagsRecord, BootTarget, BootFlags
  <2> QED
    BY <1>1, <2>1, <2>4 DEF Rewrite, CollectionFlagsAgree, SavedSettingsReturn
<1>2. CASE Refused("temperature")
  <2>1. TypeOK'
    BY <1>2 DEF Refused, TypeOK
  <2> QED
    BY <1>2, <2>1
    DEF Refused, CollectionFlagsAgree, SavedSettingsReturn, ImageReady
<1> QED
  BY <1>1, <1>2 DEF Store

(***************************************************************************)
(* Changing features or collection flags in RAM and writing what they are  *)
(* now, or being refused: both requests that write the flags record.       *)
(***************************************************************************)
LEMMA StoreFlagsKeeps ==
  ASSUME SettingsIInv, handling = "ready", NEW r \in {"config", "collection"},
         features' \in [http : BOOLEAN, prometheus : BOOLEAN],
         persisted' \in BOOLEAN, collecting' = persisted', target' = target,
         Store(r, FlagsRecord(features.http, features.prometheus, persisted)')
  PROVE  SettingsIInv'
<1> DEFINE v == FlagsRecord(features.http, features.prometheus, persisted)'
<1> USE DEF SettingsIInv
<1>1. v \in Flags /\ v # Absent
  BY AbsentIsNoRecord DEF FlagsRecord, Flags
<1>2. Field(r) = "flags"
  BY DEF Field
<1>3. CASE Rewrite(r, v)
  <2>1. image' = [sector EXCEPT !["flags"] = v]
    BY <1>2, <1>3 DEF Rewrite, Merge
  <2>2. TypeOK'
    BY <1>1, <1>3, <2>1 DEF Rewrite, TypeOK, Records, Blank
  <2>3. BootFlags(image') = v /\ BootTarget(image') = BootTarget(sector)
    BY <1>1, <2>1 DEF TypeOK, Records, BootTarget, BootFlags
  <2>4. ImageReady'
    BY <1>2, <1>3, <2>3
    DEF Rewrite, ImageReady, Holds, SavedSettingsReturn, BootTarget, BootFlags
  <2> QED
    BY <1>3, <2>2, <2>4 DEF Rewrite, CollectionFlagsAgree, SavedSettingsReturn
<1>4. CASE Refused(r)
  <2>1. TypeOK'
    BY <1>4 DEF Refused, Failure, TypeOK
  <2> QED
    BY <1>2, <1>4, <2>1
    DEF Refused, CollectionFlagsAgree, SavedSettingsReturn, ImageReady
<1> QED
  BY <1>3, <1>4 DEF Store

LEMMA PostConfigKeeps ==
  ASSUME SettingsIInv, NEW h \in BOOLEAN, NEW p \in BOOLEAN, PostConfig(h, p) PROVE SettingsIInv'
<1>1. /\ features' = [http |-> h, prometheus |-> p]
      /\ persisted' = persisted /\ collecting' = persisted /\ target' = target
  BY DEF PostConfig, SettingsIInv, CollectionFlagsAgree
<1>2. Store("config", FlagsRecord(features.http, features.prometheus, persisted)')
  BY <1>1 DEF PostConfig, FlagsRecord
<1> QED
  BY <1>1, <1>2, StoreFlagsKeeps DEF PostConfig, SettingsIInv, TypeOK

LEMMA PostCollectionKeeps ==
  ASSUME SettingsIInv, NEW on \in BOOLEAN, PostCollection(on) PROVE SettingsIInv'
<1>1. /\ features' = features /\ target' = target
      /\ persisted' = on /\ collecting' = on
  BY DEF PostCollection, SetCollection
<1>2. Store("collection",
            FlagsRecord(features.http, features.prometheus, persisted)')
  BY <1>1 DEF PostCollection, FlagsRecord
<1> QED
  BY <1>1, <1>2, StoreFlagsKeeps DEF PostCollection, SettingsIInv, TypeOK

\* The sector is written: what the image held, flash holds.
LEMMA ProgramKeeps == ASSUME SettingsIInv, Program PROVE SettingsIInv'
<1> USE DEF SettingsIInv, Program
<1>1. TypeOK'
  BY DEF TypeOK, Field, ram
<1>2. SavedSettingsReturn'
  BY DEF ImageReady, Holds, SavedSettingsReturn, BootTarget, BootFlags, FlagsRecord, ram
<1> QED
  BY <1>1, <1>2 DEF CollectionFlagsAgree, ImageReady, ram

\* It is not: no record is trusted any more.
LEMMA ProgramFailedKeeps == ASSUME SettingsIInv, ProgramFailed PROVE SettingsIInv'
<1> USE DEF SettingsIInv, ProgramFailed
<1>1. TypeOK'
  BY PartialTypes DEF TypeOK, Failure, ram
<1> QED
  BY <1>1 DEF CollectionFlagsAgree, SavedSettingsReturn, ImageReady, ram

LEMMA SettingsNextKeeps == SettingsIInv /\ [SettingsNext]_settingsVars => SettingsIInv'
<1> SUFFICES ASSUME SettingsIInv, [SettingsNext]_settingsVars PROVE SettingsIInv'
  OBVIOUS
<1>1. CASE \E t \in Targets : PostTemperature(t)
  BY <1>1, PostTemperatureKeeps
<1>2. CASE \E h, p \in BOOLEAN : PostConfig(h, p)
  BY <1>2, PostConfigKeeps
<1>3. CASE \E on \in BOOLEAN : PostCollection(on)
  BY <1>3, PostCollectionKeeps
<1>4. CASE Program
  BY <1>4, ProgramKeeps
<1>5. CASE ProgramFailed
  BY <1>5, ProgramFailedKeeps
<1>6. CASE PowerCycle
  BY <1>6, BootKeeps DEF PowerCycle, SettingsIInv, TypeOK
<1>7. CASE PowerCut
  BY <1>7, BootKeeps, PartialTypes DEF PowerCut, SettingsIInv, TypeOK
<1>8. CASE UNCHANGED settingsVars
  <2>1. TypeOK' /\ CollectionFlagsAgree' /\ ImageReady'
    BY <1>8 DEF settingsVars, ram, SettingsIInv, TypeOK, CollectionFlagsAgree, ImageReady, Holds,
                FlagsRecord, BootTarget, BootFlags
  <2>2. SavedSettingsReturn'
    BY <1>8 DEF settingsVars, ram, SettingsIInv, SavedSettingsReturn, BootTarget, BootFlags
  <2> QED
    BY <2>1, <2>2 DEF SettingsIInv
<1> QED
  BY <1>1, <1>2, <1>3, <1>4, <1>5, <1>6, <1>7, <1>8 DEF SettingsNext


LEMMA SettingsInductive == SettingsSpec => []SettingsIInv
BY SettingsInitHolds, SettingsNextKeeps, PTL DEF SettingsSpec

(***************************************************************************)
(* The target in force is always one that may be set, never the mark of a  *)
(* missing record, and POST /collection and POST /config never leave two   *)
(* collection flags that differ (storage.rs 427-484).                      *)
(***************************************************************************)
THEOREM SettingsFlags == SettingsSpec => []FlagsInv
BY SettingsInductive, PTL DEF SettingsIInv, FlagsInv

(***************************************************************************)
(* What was stored with success comes back at the next power cycle, though *)
(* both records share a sector that is erased for each (storage.rs 513).   *)
(***************************************************************************)
THEOREM SettingsReturn == SettingsSpec => []SavedSettingsReturn
BY SettingsInductive, PTL DEF SettingsIInv

----------------------------------------------------------------------------
(* Exchange: the LED.                                                      *)

Exchanging == pc \in {"read", "write", "flush"}

(* The lamp follows the task: active between begin and end, and in error   *)
(* as soon as the exchange is.                                             *)
LampFollows ==
    /\ active \in BOOLEAN /\ error \in BOOLEAN
    /\ failed \in BOOLEAN /\ unseen \in BOOLEAN
    /\ active <=> Exchanging
    /\ error <=> failed
    /\ failed => Exchanging

(* As long as the loop has not looked since an exchange began, what is     *)
(* left of the hold time and the time since it looked make up the whole.   *)
HoldOutlasts == unseen => hold + sinceLoop >= HttpHold

IInv == ExchangeTypeOK /\ LampFollows /\ HoldOutlasts


LEMMA InitHolds == Init => IInv
<1> SUFFICES ASSUME Init PROVE IInv
  OBVIOUS
<1>1. ExchangeTypeOK
  BY WifiAssumption, LoopAssumption DEF Init, WifiInit, ExchangeTypeOK
<1>2. LampFollows
  BY DEF Init, LampFollows, Exchanging
<1>3. HoldOutlasts
  BY DEF Init, HoldOutlasts
<1> QED
  BY <1>1, <1>2, <1>3 DEF IInv

(* The count of attempts saturates; nothing else of Wifi is in IInv.       *)
LEMMA WifiKeeps ==
    ASSUME IInv, Outage \/ Return \/ WifiStep, UNCHANGED <<http, loop>>
    PROVE  IInv'
<1>1. /\ wifiPc' \in {"check", "start", "scan", "connect", "pause"}
      /\ attempts' \in 0..MaxAttempts
  BY WifiAssumption
  DEF IInv, ExchangeTypeOK, Outage, Return, WifiStep, Connection, CheckFails, Check,
      Start, StartFails, ScanOver, Connect, ConnectFails, PauseOver, Attempt
<1>2. ExchangeTypeOK'
  BY <1>1 DEF IInv, ExchangeTypeOK, http, lamp, loop
<1> QED
  BY <1>2 DEF IInv, LampFollows, Exchanging, HoldOutlasts, http, lamp, loop

LEMMA HttpKeeps == ASSUME IInv, HttpStep PROVE IInv'
<1> USE DEF IInv, lamp, loop
<1>1. ExchangeTypeOK'
  <2> USE DEF ExchangeTypeOK, wifi
  <2>1. CASE Accept
    BY <2>1, LoopAssumption DEF Accept, ExchangeBegin
  <2>2. CASE AcceptFails \/ PauseAfterAccept
    BY <2>2 DEF AcceptFails, PauseAfterAccept
  <2>3. CASE \E n \in 1..Len(request.text) : Read(n)
    BY <2>3 DEF Read
  <2>4. CASE ReadFails \/ WriteFails
    BY <2>4 DEF ReadFails, WriteFails
  <2>5. CASE Write
    BY <2>5 DEF Write
  <2>6. CASE Flush
    BY <2>6 DEF Flush, ExchangeEnd
  <2> QED
    BY <2>1, <2>2, <2>3, <2>4, <2>5, <2>6 DEF HttpStep
<1>2. LampFollows'
  <2> USE DEF LampFollows, Exchanging
  <2>1. CASE Accept
    BY <2>1 DEF Accept, ExchangeBegin
  <2>2. CASE AcceptFails \/ PauseAfterAccept
    BY <2>2 DEF AcceptFails, PauseAfterAccept
  <2>3. CASE \E n \in 1..Len(request.text) : Read(n)
    <3>1. /\ UNCHANGED <<error, failed>> \/ MarkError
          /\ pc = "read" /\ pc' = "write" /\ UNCHANGED <<active, unseen>>
      BY <2>3 DEF Read
    <3>2. CASE UNCHANGED <<error, failed>>
      BY <3>1, <3>2
    <3>3. CASE MarkError
      BY <3>1, <3>3 DEF MarkError
    <3> QED
      BY <3>1, <3>2, <3>3
  <2>4. CASE ReadFails \/ WriteFails
    BY <2>4 DEF ReadFails, WriteFails, MarkError
  <2>5. CASE Write
    BY <2>5 DEF Write
  <2>6. CASE Flush
    BY <2>6 DEF Flush, ExchangeEnd
  <2> QED
    BY <2>1, <2>2, <2>3, <2>4, <2>5, <2>6 DEF HttpStep
<1>3. HoldOutlasts'
  <2> USE DEF HoldOutlasts, ExchangeTypeOK
  <2>1. CASE Accept
    BY <2>1, LoopAssumption DEF Accept, ExchangeBegin
  <2>2. CASE AcceptFails \/ PauseAfterAccept
    BY <2>2 DEF AcceptFails, PauseAfterAccept
  <2>3. CASE \E n \in 1..Len(request.text) : Read(n)
    BY <2>3 DEF Read
  <2>4. CASE ReadFails \/ WriteFails
    BY <2>4 DEF ReadFails, WriteFails
  <2>5. CASE Write
    BY <2>5 DEF Write
  <2>6. CASE Flush
    BY <2>6 DEF Flush, ExchangeEnd
  <2> QED
    BY <2>1, <2>2, <2>3, <2>4, <2>5, <2>6 DEF HttpStep
<1> QED
  BY <1>1, <1>2, <1>3

LEMMA LoopStepKeeps == ASSUME IInv, LoopStep PROVE IInv'
<1> USE DEF LoopStep, IInv, wifi, http, lamp
<1>1. ExchangeTypeOK'
  BY LoopAssumption DEF ExchangeTypeOK
<1>2. LampFollows'
  BY DEF LampFollows, Exchanging
<1>3. HoldOutlasts'
  BY DEF HoldOutlasts
<1> QED
  BY <1>1, <1>2, <1>3

(* A tick takes one from the hold time and gives one to the time since.    *)
LEMMA TickKeeps == ASSUME IInv, Tick PROVE IInv'
<1> USE DEF IInv, Tick, wifi
<1>1. ExchangeTypeOK'
  BY LoopAssumption DEF ExchangeTypeOK
<1>2. HoldOutlasts'
  BY LoopAssumption DEF ExchangeTypeOK, HoldOutlasts
<1> QED
  BY <1>1, <1>2 DEF LampFollows, Exchanging

LEMMA NextKeeps == IInv /\ [Next]_vars => IInv'
<1> SUFFICES ASSUME IInv, [Next]_vars PROVE IInv'
  OBVIOUS
<1>1. CASE (Outage \/ Return \/ WifiStep) /\ WifiOnly
  BY <1>1, WifiKeeps DEF WifiOnly
<1>2. CASE HttpStep
  BY <1>2, HttpKeeps
<1>3. CASE LoopStep
  BY <1>3, LoopStepKeeps
<1>4. CASE Tick
  BY <1>4, TickKeeps
<1>5. CASE UNCHANGED vars
  BY <1>5 DEF vars, wifi, http, lamp, loop, IInv, ExchangeTypeOK, LampFollows,
              Exchanging, HoldOutlasts
<1> QED
  BY <1>1, <1>2, <1>3, <1>4, <1>5 DEF Next


LEMMA Inductive == Spec => []IInv
BY InitHolds, NextKeeps, PTL DEF Spec

(* The red of an exchange is shown exactly while one that has met an error *)
(* is under way, by whichever of its ways it ends (http.rs 402-421,        *)
(* 639-659; status.rs 747-787).                                            *)
THEOREM ExchangeLed == Spec => []LedInv
<1>1. IInv => LedInv
  BY DEF IInv, LedInv, ErrorShownWhileFailing, LampFollows, Exchanging, Colour
<1> QED
  BY <1>1, Inductive, PTL

(* No exchange is missed by the LED, for every hold time longer than a     *)
(* turn of the loop (status.rs 747-759, 772-787).                          *)
THEOREM ExchangeShown == Spec => []EveryExchangeShown
<1>1. IInv => EveryExchangeShown
  <2> SUFFICES ASSUME IInv, unseen PROVE active \/ hold > 0
    BY DEF EveryExchangeShown, Colour, IInv, LampFollows
  <2> QED
    BY LoopAssumption DEF IInv, ExchangeTypeOK, HoldOutlasts
<1> QED
  BY <1>1, Inductive, PTL

----------------------------------------------------------------------------
(* Exchange: requests and what is made of them.                            *)

\* s is what there is of t when the rest is cut off.
Cut(s, t) ==
    /\ s \in Seq(STRING) /\ t \in Seq(STRING)
    /\ Len(s) <= Len(t)
    /\ \A i \in 1 .. Len(s) : s[i] = t[i]

LEMMA CutIs ==
    ASSUME NEW s, NEW t, Cut(s, t)
    PROVE  /\ IsPrefix(s, t)
           /\ Len(s) = Len(t) => s = t
BY DEF Cut, IsPrefix

LEMMA CutHas ==
    ASSUME NEW t \in Seq(STRING), NEW n \in 0 .. Len(t)
    PROVE  Cut(SubSeq(t, 1, n), t) /\ Len(SubSeq(t, 1, n)) = n
BY DEF Cut

LEMMA LeastIsMin ==
    ASSUME NEW S \in SUBSET Nat, NEW m \in S, \A k \in S : m <= k
    PROVE  Min(S) = m
<1>1. PICK x \in S : x = Min(S) /\ \A k \in S : x <= k
  BY DEF Min
<1>2. x \in Nat /\ m \in Nat /\ x <= m /\ m <= x
  BY <1>1
<1>3. x = m
  BY <1>2
<1> QED
  BY <1>1, <1>3

(* The elements of s from i + 1 on.                                        *)
LEMMA RestOf ==
    ASSUME NEW s \in Seq(STRING), NEW i \in 0 .. Len(s)
    PROVE  /\ SubSeq(s, i + 1, Len(s)) \in Seq(STRING)
           /\ Len(SubSeq(s, i + 1, Len(s))) = Len(s) - i
           /\ \A k \in 1 .. Len(s) - i : SubSeq(s, i + 1, Len(s))[k] = s[i + k]
<1> DEFINE u == SubSeq(s, i + 1, Len(s))
<1>1. i \in Int /\ i + 1 \in Int /\ Len(s) \in Int /\ i <= Len(s)
  OBVIOUS
<1>2. \A k \in i + 1 .. Len(s) : s[k] \in STRING
  OBVIOUS
<1>3. /\ u \in Seq(STRING)
      /\ Len(u) = IF i + 1 <= Len(s) THEN Len(s) - (i + 1) + 1 ELSE 0
      /\ \A k \in 1 .. Len(s) - (i + 1) + 1 : u[k] = s[(i + 1) + k - 1]
  BY <1>1, <1>2, SubSeqProperties
<1> HIDE DEF u
<1>4. Len(u) = Len(s) - i
  BY <1>1, <1>3
<1>5. \A k \in 1 .. Len(s) - i : u[k] = s[i + k]
  <2> SUFFICES ASSUME NEW k \in 1 .. Len(s) - i PROVE u[k] = s[i + k]
    OBVIOUS
  <2>1. k \in 1 .. Len(s) - (i + 1) + 1 /\ (i + 1) + k - 1 = i + k
    BY <1>1
  <2> QED
    BY <1>3, <2>1
<1> QED
  BY <1>3, <1>4, <1>5 DEF u

(* The first fragment of a kind, and what comes after it.                  *)
LEMMA AfterFirst ==
    ASSUME NEW s \in Seq(STRING), NEW f, NEW i \in 1 .. Len(s), s[i] = f,
           \A k \in 1 .. i - 1 : s[k] # f
    PROVE  After(s, f) = SubSeq(s, i + 1, Len(s))
<1> DEFINE I == {k \in 1 .. Len(s) : s[k] = f}
<1>1. SelectInSeq(s, LAMBDA x : x = f) = IF I # {} THEN Min(I) ELSE 0
  BY DEF SelectInSeq
<1>2. i \in I /\ \A k \in I : i <= k
  OBVIOUS
<1>3. Min(I) = i
  <2>1. I \in SUBSET Nat
    OBVIOUS
  <2> HIDE DEF I
  <2> QED
    BY <1>2, <2>1, LeastIsMin
<1>4. Has(s, f)
  BY DEF Has
<1> QED
  BY <1>1, <1>2, <1>3, <1>4 DEF After

LEMMA AfterCut ==
    ASSUME NEW s, NEW t, Cut(s, t), NEW f, NEW i \in 1 .. Len(t), t[i] = f,
           \A k \in 1 .. i - 1 : t[k] # f
    PROVE  Cut(After(s, f), SubSeq(t, i + 1, Len(t)))
<1>1. /\ s \in Seq(STRING) /\ t \in Seq(STRING) /\ Len(s) \in Nat /\ Len(t) \in Nat
      /\ Len(s) <= Len(t) /\ \A k \in 1 .. Len(s) : s[k] = t[k]
      /\ DOMAIN s = 1 .. Len(s)
  BY DEF Cut
<1> DEFINE u == SubSeq(t, i + 1, Len(t))
<1>2. u \in Seq(STRING) /\ Len(u) = Len(t) - i /\ \A k \in 1 .. Len(t) - i : u[k] = t[i + k]
  BY <1>1, RestOf
<1> HIDE DEF u
<1>3. CASE i <= Len(s)
  <2>0. /\ s \in Seq(STRING) /\ i \in 1 .. Len(s) /\ i \in 0 .. Len(s)
        /\ s[i] = f /\ \A k \in 1 .. i - 1 : s[k] # f
    BY <1>1, <1>3
  <2>1. After(s, f) = SubSeq(s, i + 1, Len(s))
    BY <1>1, <2>0, AfterFirst
  <2>2. /\ SubSeq(s, i + 1, Len(s)) \in Seq(STRING)
        /\ Len(SubSeq(s, i + 1, Len(s))) = Len(s) - i
        /\ \A k \in 1 .. Len(s) - i : SubSeq(s, i + 1, Len(s))[k] = s[i + k]
    BY <2>0, RestOf, Zenon
  <2>3. PICK v : v = After(s, f)
    OBVIOUS
  <2>4. v \in Seq(STRING) /\ Len(v) = Len(s) - i /\ \A k \in 1 .. Len(s) - i : v[k] = s[i + k]
    BY <2>1, <2>2, <2>3
  <2>5. Len(v) <= Len(u)
    BY <1>1, <1>2, <2>4
  <2>6. \A k \in 1 .. Len(v) : v[k] = u[k]
    <3> SUFFICES ASSUME NEW k \in 1 .. Len(v) PROVE v[k] = u[k]
      OBVIOUS
    <3>1. k \in 1 .. Len(s) - i /\ k \in 1 .. Len(t) - i /\ i + k \in 1 .. Len(s)
      BY <1>1, <1>3, <2>4
    <3> QED
      BY <1>1, <1>2, <2>4, <3>1
  <2>7. Cut(v, u)
    BY <1>2, <2>4, <2>5, <2>6 DEF Cut
  <2> QED
    BY <2>3, <2>7 DEF u
<1>4. CASE i > Len(s)
  <2>1. ~Has(s, f)
    BY <1>1, <1>4 DEF Has
  <2>2. After(s, f) = <<>>
    BY <2>1 DEF After
  <2> QED
    BY <1>1, <1>2, <2>2 DEF Cut, u
<1> QED
  BY <1>1, <1>3, <1>4

(* What is before the first fragment of a kind, of which there may be none.*)
LEMMA UpToFirst ==
    ASSUME NEW s \in Seq(STRING), NEW f, NEW i \in 1 .. Len(s) + 1,
           i <= Len(s) => s[i] = f, \A k \in 1 .. i - 1 : s[k] # f
    PROVE  UpTo(s, {f}) = SubSeq(s, 1, i - 1)
<1> DEFINE I == {k \in 1 .. Len(s) : s[k] \in {f}}
<1>1. UpTo(s, {f}) = IF (IF I # {} THEN Min(I) ELSE 0) = 0 THEN s
                     ELSE SubSeq(s, 1, (IF I # {} THEN Min(I) ELSE 0) - 1)
  BY DEF UpTo, SelectInSeq
<1>2. I \in SUBSET Nat
  OBVIOUS
<1>3. CASE i <= Len(s)
  <2>1. i \in I /\ (\A k \in I : i <= k) /\ i # 0
    BY <1>3
  <2> HIDE DEF I
  <2>2. Min(I) = i /\ I # {}
    BY <1>2, <2>1, LeastIsMin
  <2> QED
    BY <1>1, <2>1, <2>2
<1>4. CASE i = Len(s) + 1
  <2>1. I = {}
    BY <1>4
  <2>2. s = SubSeq(s, 1, Len(s)) /\ i - 1 = Len(s)
    BY <1>4, SubSeqFull
  <2> HIDE DEF I
  <2> QED
    BY <1>1, <2>1, <2>2
<1>5. i <= Len(s) \/ i = Len(s) + 1
  OBVIOUS
<1> QED
  BY <1>3, <1>4, <1>5


(* Numbers.  n is the function that NumberUpTo chooses, for the first m.   *)
CountsUp(n, digits, m) ==
    n = [i \in 0 .. m |->
            IF i = 0 THEN 0 ELSE 10 * n[i - 1] + DigitValue[digits[i]]]

LEMMA CountExists ==
    ASSUME NEW digits, NEW m \in Nat
    PROVE  \E n : CountsUp(n, digits, m)
<1> DEFINE Done == {k \in Nat : \E n : CountsUp(n, digits, k)}
           Step(v, i) == 10 * v + DigitValue[digits[i]]
<1>1. 0 \in Done
  <2>1. CountsUp([i \in 0 .. 0 |-> 0], digits, 0)
    BY DEF CountsUp
  <2> QED
    BY <2>1
<1>2. ASSUME NEW k \in Nat, k \in Done PROVE k + 1 \in Done
  <2>1. PICK n : CountsUp(n, digits, k)
    BY <1>2
  <2>2. n = [i \in 0 .. k |-> IF i = 0 THEN 0 ELSE Step(n[i - 1], i)]
    BY <2>1 DEF CountsUp
  <2> DEFINE h == [i \in 0 .. k + 1 |-> IF i = k + 1 THEN Step(n[k], k + 1) ELSE n[i]]
  <2> HIDE DEF Step
  <2>3. \A i \in 0 .. k : n[i] = IF i = 0 THEN 0 ELSE Step(n[i - 1], i)
    BY <2>2
  <2>4. h = [i \in 0 .. k + 1 |-> h[i]]
    OBVIOUS
  <2>5. h[k + 1] = Step(n[k], k + 1) /\ \A i \in 0 .. k : h[i] = n[i]
    OBVIOUS
  <2> HIDE DEF h
  <2>6. \A i \in 0 .. k + 1 : h[i] = IF i = 0 THEN 0 ELSE Step(h[i - 1], i)
    <3> SUFFICES ASSUME NEW i \in 0 .. k + 1
                 PROVE  h[i] = IF i = 0 THEN 0 ELSE Step(h[i - 1], i)
      OBVIOUS
    <3>1. CASE i \in 0 .. k
      BY <2>3, <2>5, <3>1
    <3>2. CASE i = k + 1
      BY <2>5, <3>2
    <3> QED
      BY <3>1, <3>2
  <2>7. CountsUp(h, digits, k + 1)
    BY <2>4, <2>6 DEF CountsUp, Step
  <2> QED
    BY <2>7
<1> HIDE DEF Done
<1>3. Nat \subseteq Done
  BY <1>1, <1>2, Induction
<1> QED
  BY <1>3 DEF Done

LEMMA NumberSteps ==
    ASSUME NEW digits \in Seq(STRING)
    PROVE  LET n == NumberUpTo(digits)
           IN  /\ n[0] = 0
               /\ \A i \in 1 .. Len(digits) :
                     n[i] = 10 * n[i - 1] + DigitValue[digits[i]]
<1> DEFINE n == NumberUpTo(digits)
<1>1. n = CHOOSE f : CountsUp(f, digits, Len(digits))
  BY DEF NumberUpTo, CountsUp
<1>2. CountsUp(n, digits, Len(digits))
  BY <1>1, CountExists
<1> HIDE DEF n
<1>3. PICK f : f = n /\ CountsUp(f, digits, Len(digits))
  BY <1>2
<1> DEFINE Step(v, i) == 10 * v + DigitValue[digits[i]]
<1>4. f = [i \in 0 .. Len(digits) |-> IF i = 0 THEN 0 ELSE Step(f[i - 1], i)]
  BY <1>3 DEF CountsUp
<1> HIDE DEF Step
<1>5. \A i \in 0 .. Len(digits) : f[i] = IF i = 0 THEN 0 ELSE Step(f[i - 1], i)
  BY <1>4
<1>6. f[0] = 0 /\ \A i \in 1 .. Len(digits) : f[i] = Step(f[i - 1], i)
  BY <1>5
<1> QED
  BY <1>3, <1>6 DEF n, Step

(* A number whose last digits are cut off is no larger.                    *)
LEMMA CutNumber ==
    ASSUME NEW s, NEW t, Cut(s, t), Range(t) \subseteq DOMAIN DigitValue
    PROVE  NumberOf(s) \in Nat /\ NumberOf(t) \in Nat /\ NumberOf(s) <= NumberOf(t)
<1> DEFINE f == NumberUpTo(s)
           g == NumberUpTo(t)
           Done == {n \in Nat : n <= Len(t) =>
                      /\ g[n] \in Nat
                      /\ n <= Len(s) => f[n] = g[n]
                      /\ n >= Len(s) => g[Len(s)] \in Nat /\ g[Len(s)] <= g[n]}
<1>1. /\ s \in Seq(STRING) /\ t \in Seq(STRING) /\ Len(s) \in Nat /\ Len(t) \in Nat
      /\ Len(s) <= Len(t) /\ \A k \in 1 .. Len(s) : s[k] = t[k]
      /\ DOMAIN t = 1 .. Len(t)
  BY DEF Cut
<1>2. \A i \in 1 .. Len(t) : DigitValue[t[i]] \in Nat
  <2> SUFFICES ASSUME NEW i \in 1 .. Len(t) PROVE DigitValue[t[i]] \in Nat
    OBVIOUS
  <2>1. t[i] \in DOMAIN DigitValue
    BY <1>1 DEF Range
  <2>2. DigitValue[t[i]] \in 0 .. 9
    BY <2>1, DigitAssumption
  <2> QED
    BY <2>2
<1>3. f[0] = 0 /\ \A i \in 1 .. Len(s) : f[i] = 10 * f[i - 1] + DigitValue[s[i]]
  BY <1>1, NumberSteps
<1>4. g[0] = 0 /\ \A i \in 1 .. Len(t) : g[i] = 10 * g[i - 1] + DigitValue[t[i]]
  BY <1>1, NumberSteps
<1> HIDE DEF f, g
<1>5. 0 \in Done
  BY <1>1, <1>3, <1>4
<1>6. ASSUME NEW n \in Nat, n \in Done PROVE n + 1 \in Done
  <2> SUFFICES ASSUME n + 1 <= Len(t)
               PROVE  /\ g[n + 1] \in Nat
                      /\ n + 1 <= Len(s) => f[n + 1] = g[n + 1]
                      /\ n + 1 >= Len(s) => g[Len(s)] \in Nat /\ g[Len(s)] <= g[n + 1]
    OBVIOUS
  <2>1. /\ g[n] \in Nat
        /\ n <= Len(s) => f[n] = g[n]
        /\ n >= Len(s) => g[Len(s)] \in Nat /\ g[Len(s)] <= g[n]
    BY <1>1, <1>6
  <2>2. n + 1 \in 1 .. Len(t) /\ (n + 1) - 1 = n
    BY <1>1
  <2>3. g[n + 1] = 10 * g[n] + DigitValue[t[n + 1]] /\ DigitValue[t[n + 1]] \in Nat
    BY <1>2, <1>4, <2>2
  <2>4. g[n + 1] \in Nat /\ g[n] <= g[n + 1]
    BY <2>1, <2>3
  <2>5. n + 1 <= Len(s) => f[n + 1] = g[n + 1]
    BY <1>1, <1>3, <2>1, <2>2, <2>3
  <2>6. CASE n + 1 = Len(s)
    BY <2>4, <2>5, <2>6
  <2>7. CASE n >= Len(s)
    <3>1. g[Len(s)] \in Nat /\ g[Len(s)] <= g[n]
      BY <2>1, <2>7
    <3>2. g[Len(s)] <= g[n + 1]
      <4>1. PICK m \in Nat : m = g[Len(s)]
        BY <3>1
      <4> QED
        BY <2>1, <2>4, <3>1, <4>1
    <3> QED
      BY <2>4, <2>5, <3>1, <3>2
  <2>8. n + 1 < Len(s) \/ n + 1 = Len(s) \/ n >= Len(s)
    BY <1>1
  <2>9. CASE n + 1 < Len(s)
    BY <1>1, <2>4, <2>5, <2>9
  <2> QED
    BY <2>6, <2>7, <2>8, <2>9
<1>7. Nat \subseteq Done
  <2> HIDE DEF Done
  <2> QED
    BY <1>5, <1>6, Induction
<1>8. Len(s) \in Done /\ Len(t) \in Done
  BY <1>1, <1>7
<1> QED
  BY <1>1, <1>8 DEF NumberOf, f, g


(* What is parsed from a request of which only a part has arrived.         *)
Faithful(p, r) ==
    /\ p.op = r.op
    /\ \/ p.value = r.value
       \/ p.op = "temperature" /\ p.value < r.value
       \/ p.op = "probe-name" /\ IsPrefix(p.value, r.value)

LEMMA TemperatureCut ==
    ASSUME NEW b, NEW body, Cut(b, body), NEW value, SaysNumber(value, body)
    PROVE  \/ ParseTemperature(b) = Bad
           \/ \E x : /\ ParseTemperature(b) = Result("temperature", x)
                     /\ x = value \/ x < value
<1> DEFINE t == SubSeq(body, 3, Len(body) - 1)
           v == SubSeq(body, 2, Len(body))
           u == SubSeq(v, 2, Len(v))
           c == After(After(b, "temperature_c"), "colon")
           d == UpTo(c, {"close"})
<1>1. /\ b \in Seq(STRING) /\ body \in Seq(STRING) /\ Len(b) \in Nat
      /\ Len(body) \in Nat /\ Len(body) >= 4
      /\ body[1] = "temperature_c" /\ body[2] = "colon" /\ body[Len(body)] = "close"
      /\ Range(t) \subseteq DOMAIN DigitValue /\ value = NumberOf(t)
  BY DEF Cut, SaysNumber
<1>2. /\ v \in Seq(STRING) /\ Len(v) = Len(body) - 1
      /\ \A k \in 1 .. Len(body) - 1 : v[k] = body[1 + k]
  <2>1. 1 \in 0 .. Len(body)
    BY <1>1
  <2> QED
    BY <1>1, <2>1, RestOf
<1>3. Cut(After(b, "temperature_c"), v)
  <2>1. 1 \in 1 .. Len(body) /\ \A k \in 1 .. 1 - 1 : body[k] # "temperature_c"
    BY <1>1
  <2>2. Cut(After(b, "temperature_c"), SubSeq(body, 1 + 1, Len(body)))
    BY <1>1, <2>1, AfterCut
  <2> QED
    BY <2>2
<1>4. /\ u \in Seq(STRING) /\ Len(u) = Len(body) - 2
      /\ \A k \in 1 .. Len(body) - 2 : u[k] = body[2 + k]
  <2>1. 1 \in 0 .. Len(v)
    BY <1>1, <1>2
  <2> HIDE DEF v
  <2>2. u \in Seq(STRING) /\ Len(u) = Len(v) - 1 /\ \A k \in 1 .. Len(v) - 1 : u[k] = v[1 + k]
    BY <1>2, <2>1, RestOf
  <2>3. ASSUME NEW k \in 1 .. Len(body) - 2 PROVE u[k] = body[2 + k]
    <3>1. k \in 1 .. Len(v) - 1 /\ 1 + k \in 1 .. Len(body) - 1 /\ 1 + (1 + k) = 2 + k
      BY <1>1, <1>2
    <3> QED
      BY <1>2, <2>2, <3>1
  <2> QED
    BY <1>1, <1>2, <2>2, <2>3
<1>5. Cut(c, u)
  <2>1. 1 \in 1 .. Len(v) /\ v[1] = "colon"
    BY <1>1, <1>2
  <2>2. PICK x : x = After(b, "temperature_c")
    OBVIOUS
  <2> HIDE DEF v
  <2>3. Cut(After(x, "colon"), SubSeq(v, 1 + 1, Len(v)))
    BY <1>3, <2>1, <2>2, AfterCut
  <2> QED
    BY <2>2, <2>3
<1>6. /\ t \in Seq(STRING) /\ Len(t) = Len(body) - 3
      /\ \A k \in 1 .. Len(body) - 3 : t[k] = body[2 + k]
  <2>1. 3 \in Int /\ Len(body) - 1 \in Int
    BY <1>1
  <2>2. \A k \in 3 .. Len(body) - 1 : body[k] \in STRING
    BY <1>1
  <2>3. /\ t \in Seq(STRING)
        /\ Len(t) = IF 3 <= Len(body) - 1 THEN (Len(body) - 1) - 3 + 1 ELSE 0
        /\ \A k \in 1 .. (Len(body) - 1) - 3 + 1 : t[k] = body[3 + k - 1]
    BY <2>1, <2>2, SubSeqProperties
  <2> HIDE DEF t
  <2>4. Len(t) = Len(body) - 3
    BY <1>1, <2>3
  <2>5. ASSUME NEW k \in 1 .. Len(body) - 3 PROVE t[k] = body[2 + k]
    <3>1. k \in 1 .. (Len(body) - 1) - 3 + 1 /\ 3 + k - 1 = 2 + k
      BY <1>1
    <3> QED
      BY <2>3, <3>1
  <2> QED
    BY <2>3, <2>4, <2>5
<1> HIDE DEF t, v, u, c
<1>7. u[Len(t) + 1] = "close" /\ \A k \in 1 .. Len(t) : u[k] = t[k] /\ u[k] # "close"
  <2>1. u[Len(t) + 1] = "close"
    BY <1>1, <1>4, <1>6
  <2>2. ASSUME NEW k \in 1 .. Len(t) PROVE u[k] = t[k] /\ u[k] # "close"
    <3>1. u[k] = t[k]
      BY <1>1, <1>4, <1>6
    <3>2. t[k] \in DOMAIN DigitValue
      BY <1>1, <1>6 DEF Range
    <3> QED
      BY <3>1, <3>2, DigitAssumption
  <2> QED
    BY <2>1, <2>2
<1>8. c \in Seq(STRING) /\ Len(c) \in Nat /\ Len(c) <= Len(t) + 1
      /\ \A k \in 1 .. Len(c) : c[k] = u[k]
  BY <1>1, <1>4, <1>5, <1>6 DEF Cut
<1>9. Cut(d, t)
  <2> DEFINE j == IF Len(c) = Len(t) + 1 THEN Len(c) ELSE Len(c) + 1
  <2>0. Len(t) \in Nat /\ j \in 1 .. Len(c) + 1
    BY <1>1, <1>6, <1>8
  <2>1. PICK i \in 1 .. Len(c) + 1 : i = j
    BY <2>0
  <2>2. i <= Len(c) => c[i] = "close"
    <3>1. CASE Len(c) = Len(t) + 1
      <4>1. i = Len(t) + 1 /\ Len(t) + 1 \in 1 .. Len(c)
        BY <1>8, <2>0, <2>1, <3>1
      <4> QED
        BY <1>7, <1>8, <4>1
    <3>2. CASE Len(c) # Len(t) + 1
      BY <1>8, <2>1, <3>2
    <3> QED
      BY <3>1, <3>2
  <2>3. \A k \in 1 .. i - 1 : c[k] # "close"
    <3> SUFFICES ASSUME NEW k \in 1 .. i - 1 PROVE c[k] # "close"
      OBVIOUS
    <3>1. k \in 1 .. Len(c) /\ k \in 1 .. Len(t)
      BY <1>1, <1>6, <1>8, <2>1
    <3> QED
      BY <1>7, <1>8, <3>1
  <2>4. d = SubSeq(c, 1, i - 1)
    BY <1>8, <2>2, <2>3, UpToFirst
  <2>5. i - 1 \in 0 .. Len(c) /\ i - 1 <= Len(t)
    BY <1>1, <1>6, <1>8, <2>1
  <2>6. Cut(d, c) /\ Len(d) = i - 1
    BY <1>8, <2>4, <2>5, CutHas
  <2> HIDE DEF d
  <2>7. /\ d \in Seq(STRING) /\ Len(d) \in Nat
        /\ \A k \in 1 .. Len(d) : d[k] = c[k]
    BY <2>6 DEF Cut
  <2>8. \A k \in 1 .. Len(d) : d[k] = t[k]
    <3> SUFFICES ASSUME NEW k \in 1 .. Len(d) PROVE d[k] = t[k]
      OBVIOUS
    <3>1. k \in 1 .. Len(c) /\ k \in 1 .. Len(t)
      BY <1>1, <1>6, <1>8, <2>5, <2>6, <2>7
    <3> QED
      BY <1>7, <1>8, <2>7, <3>1
  <2> QED
    BY <1>6, <2>5, <2>6, <2>7, <2>8 DEF Cut
<1>10. NumberOf(d) \in Nat /\ value \in Nat /\ NumberOf(d) <= value
  BY <1>1, <1>9, CutNumber
<1>11. NumberOf(d) = value \/ NumberOf(d) < value
  <2>1. PICK x \in Nat : x = NumberOf(d)
    BY <1>10
  <2> QED
    BY <1>10, <2>1
<1>12. ParseTemperature(b) \in {Bad, Result("temperature", NumberOf(d))}
  BY DEF ParseTemperature, c
<1> HIDE DEF d
<1> QED
  BY <1>11, <1>12

LEMMA ConfigCut ==
    ASSUME NEW b, NEW body, Cut(b, body), NEW value, SaysFlags(value, body)
    PROVE  ParseConfig(b) \in {Bad, Result("config", value)}
<1>1. PICK h, p \in BOOLEAN :
        /\ value = [http |-> h, prometheus |-> p]
        /\ Len(body) = 2
        /\ {body[1], body[2]} = {IF h THEN "http:true" ELSE "http:false",
                                 IF p THEN "prometheus:true" ELSE "prometheus:false"}
  BY DEF SaysFlags
<1>2. /\ b \in Seq(STRING) /\ body \in Seq(STRING) /\ Len(b) \in 0 .. 2
      /\ \A k \in 1 .. Len(b) : b[k] = body[k]
      /\ DOMAIN b = 1 .. Len(b)
  <2>1. /\ b \in Seq(STRING) /\ body \in Seq(STRING)
        /\ \A k \in 1 .. Len(b) : b[k] = body[k]
        /\ Len(b) <= Len(body) /\ Len(body) = 2
    BY <1>1 DEF Cut
  <2>2. Len(b) \in 0 .. 2 /\ DOMAIN b = 1 .. Len(b)
    <3> HIDE DEF Cut
    <3>1. Len(b) \in Nat /\ Len(b) <= 2
      BY <2>1
    <3>2. DOMAIN b = 1 .. Len(b)
      BY <2>1
    <3> QED
      BY <3>1, <3>2
  <2> QED
    BY <2>1, <2>2
<1>3. CASE Len(b) < 2
  <2>1. \A i, j \in DOMAIN b : b[i] = b[j]
    BY <1>2, <1>3
  <2>2. ~(/\ Has(b, "http:true") \/ Has(b, "http:false")
          /\ Has(b, "prometheus:true") \/ Has(b, "prometheus:false"))
    BY <2>1 DEF Has
  <2> QED
    BY <2>2 DEF ParseConfig
<1>4. CASE Len(b) = 2
  <2>1. {b[1], b[2]} = {IF h THEN "http:true" ELSE "http:false",
                        IF p THEN "prometheus:true" ELSE "prometheus:false"}
    <3>1. b[1] = body[1] /\ b[2] = body[2]
      BY <1>2, <1>4
    <3> QED
      BY <1>1, <3>1
  <2>2. \A f : Has(b, f) <=> f \in {b[1], b[2]}
    BY <1>2, <1>4 DEF Has
  <2>3. (Has(b, "http:true") <=> h) /\ (Has(b, "prometheus:true") <=> p)
    BY <2>1, <2>2
  <2>4. Has(b, "http:true") \in BOOLEAN /\ Has(b, "prometheus:true") \in BOOLEAN
    BY DEF Has
  <2>5. Has(b, "http:true") = h /\ Has(b, "prometheus:true") = p
    BY <2>3, <2>4
  <2> QED
    BY <1>1, <2>5 DEF ParseConfig
<1> QED
  BY <1>2, <1>3, <1>4

LEMMA NameCut ==
    ASSUME NEW b, NEW body, Cut(b, body), NEW value, SaysName(value, body)
    PROVE  \/ ParseProbeName(b) = Bad
           \/ \E x : ParseProbeName(b) = Result("probe-name", x) /\ IsPrefix(x, value)
           \/ ParseProbeName(b) = Result("probe-name", value)
<1>1. /\ b \in Seq(STRING) /\ body \in Seq(STRING) /\ Len(b) \in Nat /\ Len(body) \in Nat
      /\ Len(b) <= Len(body) /\ \A k \in 1 .. Len(b) : b[k] = body[k]
  BY DEF Cut
<1>2. CASE b = <<>>
  BY <1>2 DEF ParseProbeName
<1>3. ASSUME b # <<>> PROVE b[1] = body[1] /\ Len(body) >= 1
  BY <1>1, <1>3
<1>4. CASE b # <<>> /\ body # <<>> /\ body[1] # "open" /\ value = body
  <2>1. ParseProbeName(b) = Result("probe-name", b)
    BY <1>3, <1>4 DEF ParseProbeName
  <2> QED
    BY <1>4, <2>1, CutIs
<1>5. ASSUME NEW q \in 3 .. Len(body), b # <<>>, Len(body) >= 3, body[1] = "open",
             body[2] = "quote", body[q] = "quote", \A k \in 3 .. q - 1 : body[k] # "quote",
             value = SubSeq(body, 3, q - 1)
      PROVE  ParseProbeName(b) \in {Bad, Result("probe-name", value)}
  <2> DEFINE v == SubSeq(body, 3, Len(body))
             c == After(b, "quote")
  <2>1. /\ v \in Seq(STRING) /\ Len(v) = Len(body) - 2
        /\ \A k \in 1 .. Len(body) - 2 : v[k] = body[2 + k]
    <3>1. 2 \in 0 .. Len(body)
      BY <1>1, <1>5
    <3> QED
      BY <1>1, <3>1, RestOf
  <2>2. Cut(c, v)
    <3>1. 2 \in 1 .. Len(body) /\ \A k \in 1 .. 2 - 1 : body[k] # "quote"
      BY <1>1, <1>5
    <3>2. Cut(After(b, "quote"), SubSeq(body, 2 + 1, Len(body)))
      BY <1>5, <3>1, AfterCut
    <3> QED
      BY <3>2
  <2> HIDE DEF v, c
  <2>3. /\ c \in Seq(STRING) /\ Len(c) \in Nat /\ Len(c) <= Len(body) - 2
        /\ \A k \in 1 .. Len(c) : c[k] = body[2 + k]
        /\ DOMAIN c = 1 .. Len(c)
    BY <1>1, <2>1, <2>2 DEF Cut
  <2>4. ASSUME Has(c, "quote") PROVE UpTo(c, {"quote"}) = value
    <3>1. PICK j \in 1 .. Len(c) : c[j] = "quote"
      BY <2>3, <2>4 DEF Has
    <3>2. q - 2 \in 1 .. Len(c)
      <4>1. 2 + j \in 3 .. Len(body) /\ body[2 + j] = "quote"
        BY <1>1, <2>3, <3>1
      <4>2. ~(2 + j \in 3 .. q - 1)
        BY <1>5, <4>1
      <4> QED
        BY <1>1, <2>3, <3>1, <4>1, <4>2
    <3>3. c[q - 2] = "quote" /\ \A k \in 1 .. (q - 2) - 1 : c[k] # "quote"
      <4>1. c[q - 2] = "quote"
        BY <1>5, <2>3, <3>2
      <4>2. ASSUME NEW k \in 1 .. (q - 2) - 1 PROVE c[k] # "quote"
        <5>1. k \in 1 .. Len(c) /\ 2 + k \in 3 .. q - 1
          BY <2>3, <3>2
        <5> QED
          BY <1>5, <2>3, <5>1
      <4> QED
        BY <4>1, <4>2
    <3>4. UpTo(c, {"quote"}) = SubSeq(c, 1, (q - 2) - 1)
      <4>1. q - 2 \in 1 .. Len(c) + 1
        BY <2>3, <3>2
      <4> QED
        BY <2>3, <3>3, <4>1, UpToFirst
    <3> DEFINE w == SubSeq(c, 1, (q - 2) - 1)
    <3>5. /\ w \in Seq(STRING) /\ Len(w) = q - 3
          /\ \A k \in 1 .. q - 3 : w[k] = c[k]
      <4>1. (q - 2) - 1 \in 0 .. Len(c) /\ (q - 2) - 1 = q - 3
        BY <2>3, <3>2
      <4>2. Cut(w, c) /\ Len(w) = (q - 2) - 1
        BY <2>3, <4>1, CutHas
      <4> HIDE DEF w
      <4> QED
        BY <4>1, <4>2 DEF Cut
    <3>6. /\ value \in Seq(STRING) /\ Len(value) = q - 3
          /\ \A k \in 1 .. q - 3 : value[k] = body[2 + k]
      <4>1. 3 \in Int /\ q - 1 \in Int /\ \A k \in 3 .. q - 1 : body[k] \in STRING
        BY <1>1
      <4>2. /\ SubSeq(body, 3, q - 1) \in Seq(STRING)
            /\ Len(SubSeq(body, 3, q - 1)) = IF 3 <= q - 1 THEN (q - 1) - 3 + 1 ELSE 0
            /\ \A k \in 1 .. (q - 1) - 3 + 1 : SubSeq(body, 3, q - 1)[k] = body[3 + k - 1]
        BY <4>1, SubSeqProperties
      <4>3. /\ value \in Seq(STRING)
            /\ Len(value) = IF 3 <= q - 1 THEN (q - 1) - 3 + 1 ELSE 0
            /\ \A k \in 1 .. (q - 1) - 3 + 1 : value[k] = body[3 + k - 1]
        BY <1>5, <4>2
      <4>4. Len(value) = q - 3
        BY <4>3
      <4>5. ASSUME NEW k \in 1 .. q - 3 PROVE value[k] = body[2 + k]
        <5>1. k \in 1 .. (q - 1) - 3 + 1 /\ 3 + k - 1 = 2 + k
          OBVIOUS
        <5> QED
          BY <4>3, <5>1
      <4> QED
        BY <4>3, <4>4, <4>5
    <3> HIDE DEF w
    <3>7. \A k \in 1 .. Len(w) : w[k] = value[k]
      <4> SUFFICES ASSUME NEW k \in 1 .. Len(w) PROVE w[k] = value[k]
        OBVIOUS
      <4>1. k \in 1 .. q - 3 /\ k \in 1 .. Len(c)
        BY <2>3, <3>2, <3>5
      <4> QED
        BY <2>3, <3>5, <3>6, <4>1
    <3>8. w = value
      BY <3>5, <3>6, <3>7, SeqEqual
    <3> QED
      BY <3>4, <3>8 DEF w
  <2>5. b[1] = "open"
    BY <1>3, <1>5
  <2>6. ParseProbeName(b) = IF Has(c, "quote")
                            THEN Result("probe-name", UpTo(c, {"quote"})) ELSE Bad
    BY <1>5, <2>5 DEF ParseProbeName, c
  <2> QED
    BY <2>4, <2>6
<1> QED
  BY <1>2, <1>4, <1>5 DEF SaysName

LEMMA ParsesAsAsked ==
    ASSUME NEW r \in Requests, NEW n \in 1 .. Len(r.text)
    PROVE  LET p == Parse(SubSeq(r.text, 1, n))
           IN  p.op \in {"BadRequest", "NotFound"} \/ Faithful(p, r)
<1> DEFINE seg == SubSeq(r.text, 1, n)
           path == IF Len(seg) < 2 THEN <<>> ELSE <<seg[1], seg[2]>>
           p == Parse(seg)
<1>1. /\ r.text \in Seq(STRING) /\ Len(r.text) \in Nat /\ Len(r.text) >= 2
      /\ r.text[2] = r.op
  <2>1. AsSent(r)
    BY RequestAssumption
  <2>2. r.text \in Seq(STRING) /\ Len(r.text) >= 2 /\ r.text[2] = r.op
    BY <2>1 DEF AsSent
  <2> QED
    BY <2>2
<1>2. Cut(seg, r.text) /\ Len(seg) = n
  <2>1. n \in 0 .. Len(r.text)
    BY <1>1
  <2> QED
    BY <1>1, <2>1, CutHas
<1> HIDE DEF seg
<1>3. \A k \in 1 .. Len(seg) : seg[k] = r.text[k]
  BY <1>2 DEF Cut
<1>4. path = <<>> \/ path = <<r.text[1], r.op>>
  BY <1>1, <1>2, <1>3
<1> HIDE DEF path
<1>5. ASSUME path = <<>> PROVE p.op \in {"BadRequest", "NotFound"}
  <2>1. \A x, y : path # <<x, y>>
    BY <1>5
  <2>2. p = NotFound
    BY <2>1 DEF Parse, path
  <2> QED
    BY <2>2 DEF NotFound, Result
<1>6. ASSUME path = <<r.text[1], r.op>>, r.op \in {"status", "metrics"},
             r.text[1] = "GET", r.value = None
      PROVE  Faithful(p, r)
  <2>1. p = Result(r.op, None)
    BY <1>6 DEF Parse, path
  <2> QED
    BY <1>6, <2>1 DEF Faithful, Result
<1>7. ASSUME path = <<r.text[1], r.op>>, r.op \in {"stop", "clear"},
             r.text[1] = "POST", r.value = None
      PROVE  Faithful(p, r)
  <2>1. p = Result(r.op, None)
    BY <1>7 DEF Parse, path
  <2> QED
    BY <1>7, <2>1 DEF Faithful, Result
<1>8. ASSUME path = <<r.text[1], r.op>>, r.text[1] = "POST",
             r.op \in {"temperature", "config", "probe-name"},
             NEW i \in 3 .. Len(r.text), r.text[i] = "crlf",
             \A k \in 3 .. i - 1 : r.text[k] # "crlf",
             LET body == SubSeq(r.text, i + 1, Len(r.text))
             IN  CASE r.op = "temperature" -> SaysNumber(r.value, body)
                   [] r.op = "config"      -> SaysFlags(r.value, body)
                   [] r.op = "probe-name"  -> SaysName(r.value, body)
      PROVE  p.op \in {"BadRequest", "NotFound"} \/ Faithful(p, r)
  <2> DEFINE body == SubSeq(r.text, i + 1, Len(r.text))
             b == After(seg, "crlf")
  <2>1. Cut(b, body)
    <3>1. i \in 1 .. Len(r.text)
      BY <1>1
    <3>2. \A k \in 1 .. i - 1 : r.text[k] # "crlf"
      <4> SUFFICES ASSUME NEW k \in 1 .. i - 1 PROVE r.text[k] # "crlf"
        OBVIOUS
      <4>1. k = 1 \/ k = 2 \/ k \in 3 .. i - 1
        BY <1>1
      <4> QED
        BY <1>1, <1>8, <4>1
    <3> QED
      BY <1>2, <1>8, <3>1, <3>2, AfterCut
  <2> HIDE DEF body, b
  <2>2. CASE r.op = "temperature"
    <3>1. SaysNumber(r.value, body)
      BY <1>8, <2>2 DEF body
    <3>2. p = ParseTemperature(b)
      BY <1>8, <2>2 DEF Parse, path, b
    <3>3. CASE p = Bad
      BY <3>3 DEF Bad, Result
    <3>4. CASE \E x : p = Result("temperature", x) /\ (x = r.value \/ x < r.value)
      BY <2>2, <3>4 DEF Result, Faithful
    <3> QED
      BY <2>1, <3>1, <3>2, <3>3, <3>4, TemperatureCut
  <2>3. CASE r.op = "config"
    <3>1. SaysFlags(r.value, body)
      BY <1>8, <2>3 DEF body
    <3>2. p = ParseConfig(b)
      BY <1>8, <2>3 DEF Parse, path, b
    <3>3. CASE p = Bad
      BY <3>3 DEF Bad, Result
    <3>4. CASE p = Result("config", r.value)
      BY <2>3, <3>4 DEF Result, Faithful
    <3> QED
      BY <2>1, <3>1, <3>2, <3>3, <3>4, ConfigCut
  <2>4. CASE r.op = "probe-name"
    <3>1. SaysName(r.value, body)
      BY <1>8, <2>4 DEF body
    <3>2. p = ParseProbeName(b)
      BY <1>8, <2>4 DEF Parse, path, b
    <3>3. CASE p = Bad
      BY <3>3 DEF Bad, Result
    <3>4. CASE \E x : p = Result("probe-name", x) /\ (x = r.value \/ IsPrefix(x, r.value))
      BY <2>4, <3>4 DEF Result, Faithful
    <3> QED
      BY <2>1, <3>1, <3>2, <3>3, <3>4, NameCut
  <2> QED
    BY <1>8, <2>2, <2>3, <2>4
<1>9. AsSent(r)
  BY RequestAssumption
<1> HIDE DEF p
<1>10. ASSUME path = <<r.text[1], r.op>>
       PROVE  p.op \in {"BadRequest", "NotFound"} \/ Faithful(p, r)
  BY <1>6, <1>7, <1>8, <1>9, <1>10 DEF AsSent
<1> QED
  BY <1>4, <1>5, <1>10 DEF p, seg

(* An operation is carried out as it was parsed, and never if it was not.  *)
LEMMA OutcomeIs ==
    ASSUME NEW p, NEW o \in Outcomes(p), o.applied # None
    PROVE  o.applied = p /\ p.op \notin {"BadRequest", "NotFound"}
BY DEF Outcomes, Saves


(* Between two requests nothing has been carried out, and no exchange      *)
(* reads without a request.                                                *)
RequestInv ==
    /\ AppliedAsAsked
    /\ pc \in {"accept", "pause", "read"} => applied = None
    /\ pc = "read" => request \in Requests

LEMMA RequestInit == Init => RequestInv
BY DEF Init, RequestInv, AppliedAsAsked

LEMMA RequestStep == RequestInv /\ [Next]_vars => RequestInv'
<1> SUFFICES ASSUME RequestInv, [Next]_vars PROVE RequestInv'
  OBVIOUS
<1>1. CASE UNCHANGED <<pc, request, applied>>
  BY <1>1 DEF RequestInv, AppliedAsAsked
<1>2. CASE Accept
  BY <1>2 DEF Accept, RequestInv, AppliedAsAsked
<1>3. CASE AcceptFails
  BY <1>3 DEF AcceptFails, RequestInv, AppliedAsAsked
<1>4. CASE PauseAfterAccept
  BY <1>4 DEF PauseAfterAccept, RequestInv, AppliedAsAsked
<1>5. CASE \E n \in 1..Len(request.text) : Read(n)
  <2>1. PICK n \in 1 .. Len(request.text) : Read(n)
    BY <1>5
  <2>2. request \in Requests /\ pc' = "write" /\ request' = request
    BY <2>1 DEF Read, RequestInv
  <2> DEFINE p == Parse(SubSeq(request.text, 1, n))
  <2>3. PICK o \in Outcomes(p) : applied' = o.applied
    BY <2>1 DEF Read
  <2>4. p.op \in {"BadRequest", "NotFound"} \/ Faithful(p, request)
    BY <2>2, ParsesAsAsked
  <2> HIDE DEF p
  <2>5. AppliedAsAsked'
    <3> SUFFICES ASSUME o.applied # None PROVE Faithful(o.applied, request)
      BY <2>2, <2>3 DEF AppliedAsAsked, Faithful
    <3> QED
      BY <2>3, <2>4, OutcomeIs
  <2> QED
    BY <2>2, <2>5 DEF RequestInv
<1>6. CASE ReadFails
  BY <1>6 DEF ReadFails, RequestInv, AppliedAsAsked
<1>7. CASE Write
  BY <1>7 DEF Write, RequestInv, AppliedAsAsked
<1>8. CASE WriteFails
  BY <1>8 DEF WriteFails, RequestInv, AppliedAsAsked
<1>9. CASE Flush
  BY <1>9 DEF Flush, RequestInv, AppliedAsAsked
<1>10. CASE (Outage \/ Return \/ WifiStep) /\ WifiOnly
  BY <1>1, <1>10 DEF WifiOnly, http
<1>11. CASE LoopStep
  BY <1>1, <1>11 DEF LoopStep, http
<1>12. CASE Tick
  BY <1>1, <1>12 DEF Tick
<1>13. CASE UNCHANGED vars
  BY <1>1, <1>13 DEF vars, http
<1> QED
  BY <1>2, <1>3, <1>4, <1>5, <1>6, <1>7, <1>8, <1>9, <1>10, <1>11, <1>12, <1>13
  DEF Next, HttpStep

(* What is carried out is the operation and the value that the client      *)
(* asked for, wherever its request is cut, whatever it holds; only of a    *)
(* number or a bare name that is cut it is a beginning (http.rs 187,       *)
(* 241-335, 426-662).                                                      *)
THEOREM ExchangeAppliedAsAsked == Spec => []AppliedAsAsked
<1>1. RequestInv => AppliedAsAsked
  BY DEF RequestInv
<1> QED
  BY <1>1, RequestInit, RequestStep, PTL DEF Spec

----------------------------------------------------------------------------
(* Discovery.                                                              *)

(* What was heard last is what the device knows, and as old.               *)
KnowsLast == last = discovered /\ ago = age

(* An announcement of the server, where the device knows it, comes every   *)
(* Interval seconds: what is missed of them and the time to the next one   *)
(* bound the age of what the device knows.                                 *)
AgeBounded ==
    (serverAt # Nowhere /\ discovered = serverAt /\ missed < Rounds)
        => age + next <= (missed + 1) * Interval

DiscoveryIInv ==
    /\ DiscoveryTypeOK
    /\ missed \in 0 .. Rounds
    /\ KnowsLast
    /\ AgeBounded


LEMMA RoundsFit ==
    /\ Rounds \in Nat /\ Rounds * Interval = Expiry
    /\ \A m \in 0 .. Rounds : m < Rounds => (m + 1) * Interval <= Expiry
    /\ \A m \in Nat : (m + 1) * Interval + Interval = (m + 2) * Interval
    /\ 1 * Interval = Interval
<1>1. Rounds \in Nat /\ Rounds * Interval = Expiry
  BY IntervalAssumption DEF Rounds
<1>2. ASSUME NEW m \in 0 .. Rounds, m < Rounds PROVE (m + 1) * Interval <= Expiry
  <2>1. PICK d \in Nat : Rounds = (m + 1) + d
    <3>1. Rounds - (m + 1) \in Nat
      BY <1>1, <1>2
    <3> QED
      BY <1>1, <3>1
  <2>2. Rounds * Interval = (m + 1) * Interval + d * Interval
    BY <2>1, IntervalAssumption
  <2>3. d * Interval \in Nat
    BY IntervalAssumption
  <2> QED
    BY <1>1, <2>2, <2>3, IntervalAssumption
<1> QED
  BY <1>1, <1>2, IntervalAssumption

(* The packets of other hosts name no server.                              *)
LEMMA ForeignNotFound ==
    ASSUME NEW p \in Foreign
    PROVE  FindService(p) = Nowhere
BY ForeignAssumption DEF FindService

LEMMA DiscoveryInitHolds == DiscoveryInit => DiscoveryIInv
BY IntervalAssumption, RoundsFit
DEF DiscoveryInit, DiscoveryIInv, DiscoveryTypeOK, KnowsLast, AgeBounded, Silent

LEMMA HeardKeeps ==
    ASSUME DiscoveryIInv, NEW p \in net, Heard(p.from),
           UNCHANGED <<server, mdnsPc, due>>, net' \subseteq net
    PROVE  DiscoveryIInv'
<1> USE DEF DiscoveryIInv, Heard, SetDiscoveredServer, server
<1>1. p.from \in Servers
  BY DEF DiscoveryTypeOK
<1>2. DiscoveryTypeOK'
  BY <1>1, IntervalAssumption DEF DiscoveryTypeOK, Silent
<1>3. missed' \in 0 .. Rounds
  BY RoundsFit
<1>4. AgeBounded'
  BY RoundsFit, IntervalAssumption DEF AgeBounded, DiscoveryTypeOK
<1> QED
  BY <1>2, <1>3, <1>4 DEF KnowsLast

(* Steps that leave alone what the device knows and the server.            *)
QuietStep ==
    \/ LeaseChanges \/ FollowLease \/ JoinGroup \/ JoinFails \/ PauseEnds
    \/ MdnsTurn \/ Telemetry
    \/ \E p \in net : Lose(p)
    \/ \E p \in Foreign : ReceiveForeign(p)

LEMMA QuietKeeps == ASSUME DiscoveryIInv, QuietStep PROVE DiscoveryIInv'
<1> USE DEF server, found, ghosts, device, mdns
<1>1. UNCHANGED <<serverAt, next, discovered, age, last, ago, missed>>
  BY ForeignNotFound
  DEF QuietStep, LeaseChanges, FollowLease, JoinGroup, JoinFails, PauseEnds, MdnsTurn,
      Telemetry, Lose, ReceiveForeign
<1>2. net' \subseteq net /\ mdnsPc' \in {"up?", "pause", "loop"} /\ due' \in 0 .. AnnounceEvery
  BY IntervalAssumption
  DEF QuietStep, LeaseChanges, FollowLease, JoinGroup, JoinFails, PauseEnds, MdnsTurn,
      Telemetry, Lose, ReceiveForeign, DiscoveryIInv, DiscoveryTypeOK
<1> QED
  BY <1>1, <1>2 DEF DiscoveryIInv, DiscoveryTypeOK, KnowsLast, AgeBounded

LEMMA MovesKeep == ASSUME DiscoveryIInv, Moves PROVE DiscoveryIInv'
<1> USE DEF DiscoveryIInv, Moves, found, mdns
<1>1. DiscoveryTypeOK'
  BY IntervalAssumption DEF DiscoveryTypeOK
<1>2. missed' \in 0 .. Rounds /\ AgeBounded'
  BY RoundsFit DEF AgeBounded
<1> QED
  BY <1>1, <1>2 DEF KnowsLast

LEMMA AnnounceKeeps == ASSUME DiscoveryIInv, Announce PROVE DiscoveryIInv'
<1> USE DEF DiscoveryIInv, Announce, found, mdns
<1>1. DiscoveryTypeOK'
  BY IntervalAssumption DEF DiscoveryTypeOK
<1>2. missed' \in 0 .. Rounds
  BY RoundsFit
<1>3. AgeBounded'
  <2> SUFFICES ASSUME discovered = serverAt, missed' < Rounds
               PROVE  age + Interval <= (missed' + 1) * Interval
    BY DEF AgeBounded
  <2>1. missed \in Nat /\ missed < Rounds /\ missed' = missed + 1
    BY RoundsFit
  <2>2. age \in Nat /\ age <= (missed + 1) * Interval
    BY <2>1 DEF AgeBounded, DiscoveryTypeOK
  <2>3. (missed + 1) * Interval + Interval = (missed' + 1) * Interval
    BY <2>1, IntervalAssumption
  <2> QED
    BY <2>1, <2>2, <2>3, IntervalAssumption
<1> QED
  BY <1>1, <1>2, <1>3 DEF KnowsLast

LEMMA SecondKeeps == ASSUME DiscoveryIInv, Second PROVE DiscoveryIInv'
<1> USE DEF DiscoveryIInv, Second
<1>1. age \in Nat /\ age' \in 0 .. Silent /\ age' <= age + 1 /\ next \in Nat
  BY IntervalAssumption DEF DiscoveryTypeOK, Older, Silent
<1>2. DiscoveryTypeOK'
  BY <1>1, IntervalAssumption DEF DiscoveryTypeOK
<1>3. AgeBounded'
  <2> SUFFICES ASSUME serverAt # Nowhere, discovered = serverAt, missed < Rounds
               PROVE  age' + next' <= (missed + 1) * Interval
    BY DEF AgeBounded
  <2>1. age + next <= (missed + 1) * Interval
    BY DEF AgeBounded
  <2>2. next > 0 /\ next' = next - 1
    BY <1>1
  <2>3. (missed + 1) * Interval \in Int
    BY IntervalAssumption, RoundsFit
  <2> QED
    BY <1>1, <2>1, <2>2, <2>3
<1> QED
  BY <1>2, <1>3 DEF KnowsLast

LEMMA DiscoveryNextKeeps ==
    DiscoveryIInv /\ [DiscoveryNext]_discoveryVars => DiscoveryIInv'
<1> SUFFICES ASSUME DiscoveryIInv, [DiscoveryNext]_discoveryVars PROVE DiscoveryIInv'
  OBVIOUS
<1>1. ASSUME NEW p \in net, ReceiveBeacon(p) PROVE DiscoveryIInv'
  BY <1>1, HeardKeeps DEF ReceiveBeacon, mdns
<1>2. ASSUME NEW p \in net, ReceiveMdns(p) PROVE DiscoveryIInv'
  <2>1. CASE Heard(p.from)
    BY <1>2, <2>1, HeardKeeps DEF ReceiveMdns, mdns
  <2>2. CASE UNCHANGED <<found, ghosts>>
    BY <1>2, <2>2
    DEF ReceiveMdns, DiscoveryIInv, DiscoveryTypeOK, KnowsLast, AgeBounded, found,
        ghosts, server, mdns
  <2> QED
    BY <1>2, <2>1, <2>2 DEF ReceiveMdns
<1>3. CASE UNCHANGED discoveryVars
  BY <1>3
  DEF discoveryVars, server, found, mdns, ghosts, DiscoveryIInv, DiscoveryTypeOK,
      KnowsLast, AgeBounded
<1> QED
  BY <1>1, <1>2, <1>3, QuietKeeps, MovesKeep, AnnounceKeeps, SecondKeeps
  DEF DiscoveryNext, QuietStep

LEMMA DiscoveryInductive == DiscoverySpec => []DiscoveryIInv
BY DiscoveryInitHolds, DiscoveryNextKeeps, PTL DEF DiscoverySpec

(* What the device has found is one of the servers, and one that goes on   *)
(* announcing itself is not given up before as many announcements in a row *)
(* were missed as the expiry is long, for every interval and every expiry  *)
(* that is a multiple of it (udp.rs 48-95, mdns.rs 506-582).               *)
THEOREM DiscoveryKnowsServer == DiscoverySpec => []ServerInv
<1>1. DiscoveryIInv => ServerInv
  <2> SUFFICES ASSUME DiscoveryIInv, serverAt # Nowhere, discovered = serverAt,
                      missed < Rounds
               PROVE  ServerAddr # Nowhere
    BY DEF DiscoveryIInv, ServerInv, KeepsServer
  <2>1. age + next <= Expiry /\ age \in Nat /\ next \in Nat
    <3>1. age + next <= (missed + 1) * Interval /\ (missed + 1) * Interval <= Expiry
      BY RoundsFit DEF DiscoveryIInv, AgeBounded
    <3>2. age \in Nat /\ next \in Nat /\ missed \in Nat
      BY RoundsFit DEF DiscoveryIInv, DiscoveryTypeOK
    <3> QED
      BY <3>1, <3>2, IntervalAssumption
  <2>2. ~Lost
    BY <2>1, IntervalAssumption DEF Lost
  <2> QED
    BY <2>2 DEF ServerAddr
<1> QED
  BY <1>1, DiscoveryInductive, PTL

(* Telemetry goes to the configured server or to the one heard last, and   *)
(* not when that was longer ago than the expiry (udp.rs 67-95, mdns.rs     *)
(* 529-582).                                                               *)
THEOREM DiscoverySends == DiscoverySpec => SentToHeardServer
<1>1. DiscoveryIInv /\ [DiscoveryNext]_discoveryVars =>
        [(~told /\ told') => \/ sent' \in {Nowhere, static}
                             \/ sent' = last /\ ago <= Expiry]_discoveryVars
  <2> SUFFICES ASSUME DiscoveryIInv, DiscoveryNext, ~told, told'
               PROVE  \/ sent' \in {Nowhere, static}
                      \/ sent' = last /\ ago <= Expiry
    OBVIOUS
  <2>1. Telemetry
    BY DEF DiscoveryNext, Moves, Announce, LeaseChanges, FollowLease, Lose, ReceiveBeacon,
           ReceiveMdns, ReceiveForeign, JoinGroup, JoinFails, PauseEnds, MdnsTurn, Second
  <2>2. sent' = ServerAddr
    BY <2>1 DEF Telemetry
  <2>3. age \in Int
    BY IntervalAssumption DEF DiscoveryIInv, DiscoveryTypeOK, Silent
  <2> QED
    BY <2>2, <2>3, IntervalAssumption DEF ServerAddr, Lost, DiscoveryIInv, KnowsLast
<1> QED
  BY <1>1, DiscoveryInductive, PTL DEF DiscoverySpec, SentToHeardServer

----------------------------------------------------------------------------
(* Names.                                                                  *)

(* What a loop of n turns goes through, from a on.                         *)
Iterated(f, V, a, n, st) ==
    f \in [0 .. n -> V] /\ f = [k \in 0 .. n |-> IF k = 0 THEN a ELSE st[f[k - 1]]]

LEMMA Iterates ==
    ASSUME NEW V, NEW a \in V, NEW n \in Nat, NEW st \in [V -> V]
    PROVE  \E f : Iterated(f, V, a, n, st)
<1> DEFINE each == [k \in 0 + 1 .. n |-> st]
<1>1. each \in [0 + 1 .. n -> [V -> V]] /\ \A k \in 1 .. n : each[k] = st
  OBVIOUS
<1> HIDE DEF each
<1>2. PICK f : Turns(f, V, a, 0, n, each)
  <2>1. 0 \in Int /\ n \in Int /\ 0 <= n
    OBVIOUS
  <2> QED
    BY <1>1, <2>1, Recursion
<1>3. f \in [0 .. n -> V] /\ f[0] = a /\ \A k \in 1 .. n : f[k] = st[f[k - 1]]
  BY <1>1, <1>2 DEF Turns
<1>4. \A k \in 0 .. n : f[k] = IF k = 0 THEN a ELSE st[f[k - 1]]
  <2> SUFFICES ASSUME NEW k \in 0 .. n, k # 0 PROVE f[k] = st[f[k - 1]]
    BY <1>3
  <2>1. k \in 1 .. n
    OBVIOUS
  <2> QED
    BY <1>3, <2>1
<1>5. f = [k \in 0 .. n |-> f[k]]
  BY <1>3
<1> QED
  BY <1>3, <1>4, <1>5 DEF Iterated

At == {"name", "end", "none"}
Offsets == [offset : Nat, at : At]
Walks == [cursor : Nat, next : Nat, jumped : BOOLEAN, depth : 0 .. 16, labels : Nat,
          matched : BOOLEAN, at : At]

LEMMA Lengths ==
    ASSUME NEW p \in Seq(Bytes), NEW c \in Nat
    PROVE  /\ Len(p) \in Nat
           /\ c < Len(p) => Byte(p, c) \in Nat /\ AfterLabel(p, c) \in Nat
           /\ c + 1 < Len(p) => Pointer(p, c) \in Nat
<1>1. \A i \in 1 .. Len(p) : p[i] \in Nat
  <2>1. \A i \in 1 .. Len(p) : p[i] \in Bytes
    OBVIOUS
  <2>2. \A b \in Bytes : b \in Nat
    BY DEF Bytes
  <2> QED
    BY <2>1, <2>2
<1>2. c < Len(p) => Byte(p, c) \in Nat
  BY <1>1 DEF Byte
<1>3. c + 1 < Len(p) => Byte(p, c) \in Nat /\ Byte(p, c + 1) \in Nat
  BY <1>1 DEF Byte
<1> QED
  BY <1>2, <1>3 DEF AfterLabel, Pointer

LEMMA SkipOnType ==
    ASSUME NEW p \in Seq(Bytes), NEW s \in Offsets
    PROVE  SkipOn(p, s) \in Offsets
<1>1. /\ s.offset \in Nat /\ s.at \in At /\ Len(p) \in Nat
      /\ s.offset < Len(p) => AfterLabel(p, s.offset) \in Nat
  BY Lengths DEF Offsets
<1> QED
  BY <1>1 DEF SkipOn, Offsets, At

LEMMA SearchLabelType ==
    ASSUME NEW p \in Seq(Bytes), NEW wanted, NEW s \in Offsets
    PROVE  SearchLabel(p, wanted, s) \in Offsets
<1>1. /\ s.offset \in Nat /\ s.at \in At /\ Len(p) \in Nat
      /\ s.offset < Len(p) => AfterLabel(p, s.offset) \in Nat
      /\ s.offset + 1 < Len(p) => Pointer(p, s.offset) \in Nat
  BY Lengths DEF Offsets
<1> QED
  BY <1>1 DEF SearchLabel, Offsets, At

LEMMA WalkNumbers ==
    ASSUME NEW w \in Walks
    PROVE  w.cursor \in Nat /\ w.next \in Nat /\ w.labels \in Nat
           /\ w.depth \in Nat /\ w.depth <= 16
<1>1. w.depth \in 0 .. 16
  BY DEF Walks
<1>2. \A d \in 0 .. 16 : d \in Nat /\ d <= 16
  OBVIOUS
<1>3. w.depth \in Nat /\ w.depth <= 16
  BY <1>1, <1>2
<1> QED
  BY <1>3 DEF Walks

LEMMA UpToSixteen ==
    ASSUME NEW m \in Int, 0 <= m, m <= 16
    PROVE  m + 1 \in 1 .. 17 /\ m + 1 \in 0 .. 17 /\ (m + 1) - 1 = m
OBVIOUS

LEMMA WalkOnType ==
    ASSUME NEW p \in Seq(Bytes), NEW host, NEW w \in Walks
    PROVE  WalkOn(p, host, w) \in Walks
<1>1. /\ w.cursor \in Nat /\ w.next \in Nat /\ w.jumped \in BOOLEAN
      /\ w.depth \in Nat /\ w.depth <= 16
      /\ w.labels \in Nat /\ w.matched \in BOOLEAN /\ w.at \in At /\ Len(p) \in Nat
      /\ w.cursor < Len(p) => AfterLabel(p, w.cursor) \in Nat
      /\ w.cursor + 1 < Len(p) => Pointer(p, w.cursor) \in Nat
  BY Lengths, WalkNumbers DEF Walks
<1> DEFINE c == w.cursor
<1>2. \/ WalkOn(p, host, w) \in {w, Fail(w), End(w)}
      \/ WalkOn(p, host, w) = Jump(p, w) /\ c + 1 < Len(p) /\ w.depth < 16
      \/ WalkOn(p, host, w) = PassLabel(p, host, w) /\ c < Len(p)
  <2>1. ~(w.depth >= 16 \/ c >= Len(p)) => w.depth < 16 /\ c < Len(p)
    BY <1>1
  <2>2. ~(c + 1 >= Len(p)) => c + 1 < Len(p)
    BY <1>1
  <2> QED
    BY <2>1, <2>2 DEF WalkOn
<1>3. w = [cursor |-> w.cursor, next |-> w.next, jumped |-> w.jumped, depth |-> w.depth,
           labels |-> w.labels, matched |-> w.matched, at |-> w.at]
  BY DEF Walks
<1>4. Fail(w) \in Walks
  BY DEF Walks, At, Fail
<1> DEFINE after == IF w.jumped THEN w.next ELSE w.cursor + 1
           after2 == IF w.jumped THEN w.next ELSE w.cursor + 2
           two == w.matched /\ w.labels = 2
           same == w.matched /\ w.labels < 2 /\ Lower(Label(p, w.cursor)) = host[w.labels + 1]
<1>5. /\ End(w) = [w EXCEPT !.at = "end", !.next = after, !.matched = two]
      /\ Jump(p, w) = [w EXCEPT !.cursor = Pointer(p, w.cursor), !.jumped = TRUE,
                                !.next = after2, !.depth = w.depth + 1]
      /\ PassLabel(p, host, w) = [w EXCEPT !.cursor = AfterLabel(p, w.cursor),
                                           !.labels = w.labels + 1, !.matched = same]
  BY <1>3 DEF End, Jump, PassLabel
<1>6. after \in Nat /\ after2 \in Nat /\ two \in BOOLEAN /\ same \in BOOLEAN
  BY <1>1
<1> HIDE DEF after, after2, two, same
<1>7. [w EXCEPT !.at = "end", !.next = after, !.matched = two] \in Walks
  BY <1>6 DEF Walks, At
<1>8. c + 1 < Len(p) /\ w.depth < 16 => Jump(p, w) \in Walks
  <2> SUFFICES ASSUME c + 1 < Len(p), w.depth < 16 PROVE Jump(p, w) \in Walks
    OBVIOUS
  <2>1. Pointer(p, w.cursor) \in Nat
    BY <1>1
  <2>2. w.depth + 1 \in 0 .. 16
    <3>1. w.depth \in Int /\ 0 <= w.depth
      BY <1>1
    <3>2. \A d \in Int : 0 <= d /\ d < 16 => d + 1 \in 0 .. 16
      OBVIOUS
    <3> QED
      BY <3>1, <3>2
  <2> QED
    BY <1>5, <1>6, <2>1, <2>2 DEF Walks
<1>9. c < Len(p) => PassLabel(p, host, w) \in Walks
  <2> SUFFICES ASSUME c < Len(p) PROVE PassLabel(p, host, w) \in Walks
    OBVIOUS
  <2>1. AfterLabel(p, w.cursor) \in Nat /\ w.labels + 1 \in Nat
    BY <1>1
  <2> QED
    BY <1>5, <1>6, <2>1 DEF Walks
<1> QED
  BY <1>2, <1>4, <1>5, <1>7, <1>8, <1>9

Skips(s, p) ==
    /\ s \in [0 .. 17 -> Offsets] /\ s[0] = [offset |-> 0, at |-> "name"]
    /\ \A k \in 1 .. 17 : s[k] = SkipOn(p, s[k - 1])

LEMMA SkipLoop ==
    ASSUME NEW p \in Seq(Bytes)
    PROVE  \E s : Skips(s, p) /\ AfterName(p) = s[17]
<1> DEFINE n == 17
           start == [offset |-> 0, at |-> "name"]
           st == [v \in Offsets |-> SkipOn(p, v)]
           Loop(s) == s = [k \in 0 .. n |-> IF k = 0 THEN start ELSE SkipOn(p, s[k - 1])]
           all == CHOOSE s : Loop(s)
<1>1. start \in Offsets /\ n \in Nat
  BY DEF Offsets, At
<1>2. AfterName(p) = all[n]
  BY DEF AfterName
<1> HIDE DEF start, n
<1>3. \A v \in Offsets : SkipOn(p, v) \in Offsets
  BY SkipOnType
<1>4. st \in [Offsets -> Offsets] /\ \A v \in Offsets : st[v] = SkipOn(p, v)
  BY <1>3
<1> HIDE DEF st
<1>5. PICK f : Iterated(f, Offsets, start, n, st)
  BY <1>1, <1>4, Iterates
<1>6. f \in [0 .. n -> Offsets] /\ \A k \in 0 .. n : f[k] = IF k = 0 THEN start ELSE st[f[k - 1]]
  BY <1>5 DEF Iterated
<1>7. \A k \in 1 .. n : k \in 0 .. n /\ k # 0 /\ k - 1 \in 0 .. n
  BY <1>1
<1>8. \A k \in 0 .. n : f[k] = IF k = 0 THEN start ELSE SkipOn(p, f[k - 1])
  <2> SUFFICES ASSUME NEW k \in 0 .. n, k # 0 PROVE f[k] = SkipOn(p, f[k - 1])
    BY <1>6
  <2>1. k \in 1 .. n
    BY <1>1
  <2>2. f[k - 1] \in Offsets
    BY <1>6, <1>7, <2>1
  <2> QED
    BY <1>4, <1>6, <2>2
<1>9. Loop(f)
  <2>1. f = [k \in 0 .. n |-> f[k]]
    BY <1>6
  <2> QED
    BY <1>8, <2>1
<1>10. Loop(all)
  <2> HIDE DEF Loop
  <2> QED
    BY <1>9
<1> HIDE DEF all
<1>11. PICK s : s = all /\ Loop(s)
  BY <1>10
<1>12. \A k \in 0 .. n : s[k] = IF k = 0 THEN start ELSE SkipOn(p, s[k - 1])
  BY <1>11
<1>13. s[0] = start /\ \A k \in 1 .. n : s[k] = SkipOn(p, s[k - 1])
  <2>1. 0 \in 0 .. n
    BY <1>1
  <2> QED
    BY <1>7, <1>12, <2>1
<1> DEFINE S == {k \in 0 .. n : s[k] \in Offsets}
<1>14. 0 \in S
  <2>1. 0 \in 0 .. n
    BY <1>1
  <2> QED
    BY <1>1, <1>13, <2>1
<1>15. ASSUME NEW k \in 0 + 1 .. n, k - 1 \in S PROVE k \in S
  <2>1. k \in 1 .. n /\ k \in 0 .. n /\ s[k - 1] \in Offsets
    BY <1>7, <1>15
  <2> QED
    BY <1>3, <1>13, <2>1
<1> HIDE DEF S
<1>16. 0 .. n \subseteq S
  <2>1. 0 \in Int /\ n \in Int
    BY <1>1
  <2> QED
    BY <1>14, <1>15, <2>1, IntervalInduction
<1>17. s \in [0 .. n -> Offsets]
  <2>1. s = [k \in 0 .. n |-> s[k]]
    BY <1>11
  <2> QED
    BY <1>16, <2>1 DEF S
<1> QED
  BY <1>2, <1>11, <1>13, <1>17 DEF Skips, n, start

Searches(s, p, wanted) ==
    /\ s \in [0 .. 17 -> Offsets] /\ s[0] = [offset |-> 0, at |-> "name"]
    /\ \A k \in 1 .. 17 : s[k] = SearchLabel(p, wanted, s[k - 1])

LEMMA SearchLoop ==
    ASSUME NEW p \in Seq(Bytes), NEW wanted
    PROVE  \E s : Searches(s, p, wanted) /\ (HasLabel(p, wanted) <=> s[17].at = "end")
<1> DEFINE n == 17
           start == [offset |-> 0, at |-> "name"]
           st == [v \in Offsets |-> SearchLabel(p, wanted, v)]
           Loop(s) == s = [k \in 0 .. n |-> IF k = 0 THEN start ELSE SearchLabel(p, wanted, s[k - 1])]
           all == CHOOSE s : Loop(s)
<1>1. start \in Offsets /\ n \in Nat
  BY DEF Offsets, At
<1>2. HasLabel(p, wanted) <=> all[n].at = "end"
  BY DEF HasLabel
<1> HIDE DEF start, n
<1>3. \A v \in Offsets : SearchLabel(p, wanted, v) \in Offsets
  BY SearchLabelType
<1>4. st \in [Offsets -> Offsets] /\ \A v \in Offsets : st[v] = SearchLabel(p, wanted, v)
  BY <1>3
<1> HIDE DEF st
<1>5. PICK f : Iterated(f, Offsets, start, n, st)
  BY <1>1, <1>4, Iterates
<1>6. f \in [0 .. n -> Offsets] /\ \A k \in 0 .. n : f[k] = IF k = 0 THEN start ELSE st[f[k - 1]]
  BY <1>5 DEF Iterated
<1>7. \A k \in 1 .. n : k \in 0 .. n /\ k # 0 /\ k - 1 \in 0 .. n
  BY <1>1
<1>8. \A k \in 0 .. n : f[k] = IF k = 0 THEN start ELSE SearchLabel(p, wanted, f[k - 1])
  <2> SUFFICES ASSUME NEW k \in 0 .. n, k # 0 PROVE f[k] = SearchLabel(p, wanted, f[k - 1])
    BY <1>6
  <2>1. k \in 1 .. n
    BY <1>1
  <2>2. f[k - 1] \in Offsets
    BY <1>6, <1>7, <2>1
  <2> QED
    BY <1>4, <1>6, <2>2
<1>9. Loop(f)
  <2>1. f = [k \in 0 .. n |-> f[k]]
    BY <1>6
  <2> QED
    BY <1>8, <2>1
<1>10. Loop(all)
  <2> HIDE DEF Loop
  <2> QED
    BY <1>9
<1> HIDE DEF all
<1>11. PICK s : s = all /\ Loop(s)
  BY <1>10
<1>12. \A k \in 0 .. n : s[k] = IF k = 0 THEN start ELSE SearchLabel(p, wanted, s[k - 1])
  BY <1>11
<1>13. s[0] = start /\ \A k \in 1 .. n : s[k] = SearchLabel(p, wanted, s[k - 1])
  <2>1. 0 \in 0 .. n
    BY <1>1
  <2> QED
    BY <1>7, <1>12, <2>1
<1> DEFINE S == {k \in 0 .. n : s[k] \in Offsets}
<1>14. 0 \in S
  <2>1. 0 \in 0 .. n
    BY <1>1
  <2> QED
    BY <1>1, <1>13, <2>1
<1>15. ASSUME NEW k \in 0 + 1 .. n, k - 1 \in S PROVE k \in S
  <2>1. k \in 1 .. n /\ k \in 0 .. n /\ s[k - 1] \in Offsets
    BY <1>7, <1>15
  <2> QED
    BY <1>3, <1>13, <2>1
<1> HIDE DEF S
<1>16. 0 .. n \subseteq S
  <2>1. 0 \in Int /\ n \in Int
    BY <1>1
  <2> QED
    BY <1>14, <1>15, <2>1, IntervalInduction
<1>17. s \in [0 .. n -> Offsets]
  <2>1. s = [k \in 0 .. n |-> s[k]]
    BY <1>11
  <2> QED
    BY <1>16, <2>1 DEF S
<1> QED
  BY <1>2, <1>11, <1>13, <1>17 DEF Searches, n, start

WalksOn(s, p, host) ==
    /\ s \in [0 .. WalkTurns(p) -> Walks] /\ s[0] = [cursor |-> 0, next |-> 0, jumped |-> FALSE, depth |-> 0,
                labels |-> 0, matched |-> TRUE, at |-> "name"]
    /\ \A k \in 1 .. WalkTurns(p) : s[k] = WalkOn(p, host, s[k - 1])

LEMMA WalkLoop ==
    ASSUME NEW p \in Seq(Bytes), NEW host
    PROVE  \E s : WalksOn(s, p, host) /\ MatchesHost(p, host) = s[WalkTurns(p)]
<1> DEFINE n == WalkTurns(p)
           start == [cursor |-> 0, next |-> 0, jumped |-> FALSE, depth |-> 0,
                labels |-> 0, matched |-> TRUE, at |-> "name"]
           st == [v \in Walks |-> WalkOn(p, host, v)]
           Loop(s) == s = [k \in 0 .. n |-> IF k = 0 THEN start ELSE WalkOn(p, host, s[k - 1])]
           all == CHOOSE s : Loop(s)
<1>1. start \in Walks /\ n \in Nat
  BY DEF Walks, At, WalkTurns
<1>2. MatchesHost(p, host) = all[n]
  BY DEF MatchesHost
<1> HIDE DEF start, n
<1>3. \A v \in Walks : WalkOn(p, host, v) \in Walks
  BY WalkOnType
<1>4. st \in [Walks -> Walks] /\ \A v \in Walks : st[v] = WalkOn(p, host, v)
  BY <1>3
<1> HIDE DEF st
<1>5. PICK f : Iterated(f, Walks, start, n, st)
  BY <1>1, <1>4, Iterates
<1>6. f \in [0 .. n -> Walks] /\ \A k \in 0 .. n : f[k] = IF k = 0 THEN start ELSE st[f[k - 1]]
  BY <1>5 DEF Iterated
<1>7. \A k \in 1 .. n : k \in 0 .. n /\ k # 0 /\ k - 1 \in 0 .. n
  BY <1>1
<1>8. \A k \in 0 .. n : f[k] = IF k = 0 THEN start ELSE WalkOn(p, host, f[k - 1])
  <2> SUFFICES ASSUME NEW k \in 0 .. n, k # 0 PROVE f[k] = WalkOn(p, host, f[k - 1])
    BY <1>6
  <2>1. k \in 1 .. n
    BY <1>1
  <2>2. f[k - 1] \in Walks
    BY <1>6, <1>7, <2>1
  <2> QED
    BY <1>4, <1>6, <2>2
<1>9. Loop(f)
  <2>1. f = [k \in 0 .. n |-> f[k]]
    BY <1>6
  <2> QED
    BY <1>8, <2>1
<1>10. Loop(all)
  <2> HIDE DEF Loop
  <2> QED
    BY <1>9
<1> HIDE DEF all
<1>11. PICK s : s = all /\ Loop(s)
  BY <1>10
<1>12. \A k \in 0 .. n : s[k] = IF k = 0 THEN start ELSE WalkOn(p, host, s[k - 1])
  BY <1>11
<1>13. s[0] = start /\ \A k \in 1 .. n : s[k] = WalkOn(p, host, s[k - 1])
  <2>1. 0 \in 0 .. n
    BY <1>1
  <2> QED
    BY <1>7, <1>12, <2>1
<1> DEFINE S == {k \in 0 .. n : s[k] \in Walks}
<1>14. 0 \in S
  <2>1. 0 \in 0 .. n
    BY <1>1
  <2> QED
    BY <1>1, <1>13, <2>1
<1>15. ASSUME NEW k \in 0 + 1 .. n, k - 1 \in S PROVE k \in S
  <2>1. k \in 1 .. n /\ k \in 0 .. n /\ s[k - 1] \in Walks
    BY <1>7, <1>15
  <2> QED
    BY <1>3, <1>13, <2>1
<1> HIDE DEF S
<1>16. 0 .. n \subseteq S
  <2>1. 0 \in Int /\ n \in Int
    BY <1>1
  <2> QED
    BY <1>14, <1>15, <2>1, IntervalInduction
<1>17. s \in [0 .. n -> Walks]
  <2>1. s = [k \in 0 .. n |-> s[k]]
    BY <1>11
  <2> QED
    BY <1>16, <2>1 DEF S
<1> QED
  BY <1>2, <1>11, <1>13, <1>17 DEF WalksOn, n, start

LEMMA SkipStays ==
    ASSUME NEW p, NEW s, Skips(s, p), NEW j \in 0 .. 17, s[j].at # "name"
    PROVE  s[17] = s[j]
<1> DEFINE S == {k \in j .. 17 : s[k] = s[j]}
<1>1. j \in S /\ j \in Int /\ 17 \in Int /\ 17 \in j .. 17
  OBVIOUS
<1>2. ASSUME NEW k \in j + 1 .. 17, k - 1 \in S PROVE k \in S
  <2>1. k \in 1 .. 17 /\ k \in j .. 17 /\ s[k - 1] = s[j]
    BY <1>2
  <2>2. s[k] = SkipOn(p, s[k - 1])
    BY <2>1 DEF Skips
  <2>3. s[k] = s[j]
    BY <2>1, <2>2 DEF SkipOn
  <2> QED
    BY <2>1, <2>3
<1> HIDE DEF S
<1>3. j .. 17 \subseteq S
  BY <1>1, <1>2, IntervalInduction
<1> QED
  BY <1>1, <1>3 DEF S

LEMMA SearchStays ==
    ASSUME NEW p, NEW wanted, NEW s, Searches(s, p, wanted),
           \E j \in 0 .. 17 : s[j].at = "end"
    PROVE  s[17].at = "end"
<1>0. PICK j \in 0 .. 17 : s[j].at = "end"
  OBVIOUS
<1> DEFINE S == {k \in j .. 17 : s[k] = s[j]}
<1>1. j \in S /\ j \in Int /\ 17 \in Int /\ 17 \in j .. 17
  OBVIOUS
<1>2. ASSUME NEW k \in j + 1 .. 17, k - 1 \in S PROVE k \in S
  <2>1. k \in 1 .. 17 /\ k \in j .. 17 /\ s[k - 1] = s[j]
    BY <1>2
  <2>2. s[k] = SearchLabel(p, wanted, s[k - 1])
    BY <2>1 DEF Searches
  <2>3. s[k] = s[j]
    BY <1>0, <2>1, <2>2 DEF SearchLabel
  <2> QED
    BY <2>1, <2>3
<1> HIDE DEF S
<1>3. j .. 17 \subseteq S
  BY <1>1, <1>2, IntervalInduction
<1> QED
  BY <1>0, <1>1, <1>3 DEF S

(* Every search for a label is at offset c after n turns.                  *)
AllAt(p, n, c) ==
    \A wanted, s : Searches(s, p, wanted) => s[n] = [offset |-> c, at |-> "name"]

(* There is a label that is the host's but for its case, and is found.     *)
HasHost(p, host) ==
    \E i \in 0 .. Len(p) - 1 :
        /\ AfterLabel(p, i) <= Len(p)
        /\ Lower(Label(p, i)) = host[1]
        /\ HasLabel(p, Label(p, i))

(* After k turns of the walk, with sk what skipping the name goes through: *)
(* the measure that makes it end, ...                                      *)
Ahead(p, w, k) ==
    w.at = "name" => w.cursor <= Len(p) /\ k <= w.depth * (Len(p) + 1) + w.cursor

(* ... where skipping is, until a pointer is met, and where it ends, ...   *)
Together(p, w, sk) ==
    /\ w.at = "name" /\ ~w.jumped =>
           IF w.labels <= 17 THEN sk[w.labels] = [offset |-> w.cursor, at |-> "name"]
           ELSE sk[17].at = "name"
    /\ (w.at = "name" /\ w.jumped) \/ w.at = "end" =>
           \/ sk[17] = [offset |-> w.next, at |-> "end"]
           \/ sk[17].at = "name" /\ w.labels > 16

(* ... and what a name that is the host's so far has.                      *)
Found(p, host, w) ==
    /\ w.at = "name" /\ w.labels = 0 => AllAt(p, w.depth, w.cursor)
    /\ w.at # "none" /\ w.matched /\ w.labels > 0 => HasHost(p, host)

(* What the turns of the walk are.                                         *)
Jumps(p, w) ==
    /\ w.at = "name" /\ w.depth < 16 /\ w.cursor + 1 < Len(p)
    /\ IsPointer(Byte(p, w.cursor)) /\ Pointer(p, w.cursor) < Len(p)
Ends(p, w) ==
    w.at = "name" /\ w.depth < 16 /\ w.cursor < Len(p) /\ Byte(p, w.cursor) = 0
Passes(p, w) ==
    /\ w.at = "name" /\ w.depth < 16 /\ w.cursor < Len(p)
    /\ IsLabel(Byte(p, w.cursor)) /\ AfterLabel(p, w.cursor) <= Len(p)

LEMMA WalkTurnIs ==
    ASSUME NEW p \in Seq(Bytes), NEW host, NEW w \in Walks
    PROVE  \/ WalkOn(p, host, w) = w /\ w.at # "name"
           \/ WalkOn(p, host, w) = Fail(w)
           \/ Jumps(p, w) /\ WalkOn(p, host, w) = Jump(p, w)
           \/ Ends(p, w) /\ WalkOn(p, host, w) = End(w)
           \/ Passes(p, w) /\ WalkOn(p, host, w) = PassLabel(p, host, w)
<1>1. /\ w.cursor \in Nat /\ w.depth \in Nat /\ w.depth <= 16 /\ Len(p) \in Nat
      /\ w.cursor < Len(p) => AfterLabel(p, w.cursor) \in Nat
      /\ w.cursor + 1 < Len(p) => Pointer(p, w.cursor) \in Nat
  BY Lengths, WalkNumbers DEF Walks
<1>2. ~(w.depth >= 16 \/ w.cursor >= Len(p)) => w.depth < 16 /\ w.cursor < Len(p)
  BY <1>1
<1>5. ~(w.cursor + 1 >= Len(p)) => w.cursor + 1 < Len(p)
  BY <1>1
<1>3. w.cursor + 1 < Len(p) /\ ~(Pointer(p, w.cursor) >= Len(p))
      => Pointer(p, w.cursor) < Len(p)
  BY <1>1
<1>4. w.cursor < Len(p) /\ ~(AfterLabel(p, w.cursor) > Len(p))
      => AfterLabel(p, w.cursor) <= Len(p)
  BY <1>1
<1> QED
  BY <1>2, <1>3, <1>4, <1>5 DEF WalkOn, Jumps, Ends, Passes

(* The fields after a turn.                                                *)
LEMMA FailField ==
    ASSUME NEW w \in Walks
    PROVE  Fail(w).at = "none"
BY DEF Fail, Walks

LEMMA EndFields ==
    ASSUME NEW w \in Walks
    PROVE  /\ End(w).at = "end" /\ End(w).labels = w.labels
           /\ End(w).next = IF w.jumped THEN w.next ELSE w.cursor + 1
           /\ End(w).matched => w.matched /\ w.labels = 2
BY DEF End, Walks

LEMMA JumpFields ==
    ASSUME NEW p, NEW w \in Walks
    PROVE  LET v == Jump(p, w)
           IN  /\ v.at = w.at /\ v.labels = w.labels /\ v.jumped /\ v.matched = w.matched
               /\ v.next = IF w.jumped THEN w.next ELSE w.cursor + 2
               /\ v.cursor = Pointer(p, w.cursor) /\ v.depth = w.depth + 1
BY DEF Jump, Walks

LEMMA PassFields ==
    ASSUME NEW p, NEW host, NEW w \in Walks
    PROVE  LET v == PassLabel(p, host, w)
           IN  /\ v.at = w.at /\ v.labels = w.labels + 1 /\ v.jumped = w.jumped
               /\ v.next = w.next
               /\ v.cursor = AfterLabel(p, w.cursor) /\ v.depth = w.depth
               /\ v.matched =>
                    w.matched /\ Lower(Label(p, w.cursor)) = host[w.labels + 1]
BY DEF PassLabel, Walks

LEMMA AheadKept ==
    ASSUME NEW p \in Seq(Bytes), NEW host, NEW w \in Walks, NEW k \in Nat, Ahead(p, w, k)
    PROVE  Ahead(p, WalkOn(p, host, w), k + 1)
<1> DEFINE c == w.cursor
           v == WalkOn(p, host, w)
           L == Len(p)
           m == w.depth * (L + 1)
<1>1. /\ c \in Nat /\ w.depth \in Nat /\ w.depth <= 16 /\ L \in Nat
      /\ c < L => Byte(p, c) \in Nat
      /\ c + 1 < L => Pointer(p, c) \in Nat
  BY Lengths, WalkNumbers DEF Walks
<1>2. m \in Int /\ (w.depth + 1) * (L + 1) = m + L + 1
  <2>1. PICK d \in Int, x \in Int : d = w.depth /\ x = L + 1
    BY <1>1
  <2>2. (d + 1) * x = d * x + x /\ d * x \in Int
    BY <2>1
  <2> QED
    BY <1>1, <2>1, <2>2
<1> HIDE DEF m
<1>3. CASE v.at # "name"
  BY <1>3 DEF Ahead
<1>4. CASE Jumps(p, w) /\ v = Jump(p, w)
  <2>1. v.cursor = Pointer(p, c) /\ v.depth = w.depth + 1
    BY <1>4, JumpFields
  <2>2. k <= m + c /\ c + 1 < L /\ Pointer(p, c) < L
    BY <1>4 DEF Ahead, Jumps, m
  <2>3. k + 1 <= (w.depth + 1) * (L + 1) + Pointer(p, c)
    BY <1>1, <1>2, <2>2
  <2> QED
    BY <1>1, <2>1, <2>2, <2>3 DEF Ahead
<1>5. CASE Passes(p, w) /\ v = PassLabel(p, host, w)
  <2>1. v.cursor = AfterLabel(p, c) /\ v.depth = w.depth
    BY <1>5, PassFields
  <2>2. k <= m + c /\ c < L /\ AfterLabel(p, c) <= L
    BY <1>5 DEF Ahead, Passes, m
  <2>3. AfterLabel(p, c) = c + 1 + Byte(p, c) /\ Byte(p, c) \in Nat
    BY <1>1, <2>2 DEF AfterLabel
  <2>4. k + 1 <= m + AfterLabel(p, c)
    BY <1>1, <1>2, <2>2, <2>3
  <2> QED
    BY <2>1, <2>2, <2>4 DEF Ahead, m
<1>6. CASE v = w /\ w.at # "name"
  BY <1>6 DEF Ahead
<1>7. Fail(w).at # "name" /\ End(w).at # "name"
  BY FailField, EndFields
<1> QED
  BY <1>3, <1>4, <1>5, <1>6, <1>7, WalkTurnIs

LEMMA TogetherKept ==
    ASSUME NEW p \in Seq(Bytes), NEW host, NEW w \in Walks, NEW sk, Skips(sk, p),
           Together(p, w, sk)
    PROVE  Together(p, WalkOn(p, host, w), sk)
<1> DEFINE c == w.cursor
           v == WalkOn(p, host, w)
           n == w.labels
<1>0. IsLabel(Byte(p, c)) => ~IsPointer(Byte(p, c)) /\ Byte(p, c) # 0
  <2>1. \A b \in 1 .. 63 : ~(b >= 192) /\ b # 0
    OBVIOUS
  <2> QED
    BY <2>1 DEF IsLabel, IsPointer
<1>1. c \in Nat /\ n \in Nat /\ w.jumped \in BOOLEAN /\ Len(p) \in Nat
  BY Lengths, WalkNumbers DEF Walks
<1>2. ASSUME w.at = "name", ~w.jumped, n <= 16
      PROVE  /\ sk[n] = [offset |-> c, at |-> "name"]
             /\ sk[n + 1] = SkipOn(p, sk[n]) /\ n + 1 \in 0 .. 17
  <2>1. sk[n] = [offset |-> c, at |-> "name"]
    BY <1>1, <1>2 DEF Together
  <2>2. n + 1 \in 1 .. 17 /\ (n + 1) - 1 = n /\ n + 1 \in 0 .. 17
    <3>1. n \in Int /\ 0 <= n
      BY <1>1
    <3>2. n <= 16
      BY <1>2
    <3> QED
      BY <3>1, <3>2, UpToSixteen
  <2>3. sk[n + 1] = SkipOn(p, sk[n])
    BY <2>2 DEF Skips
  <2> QED
    BY <2>1, <2>2, <2>3
<1>3. ASSUME w.at = "name", ~w.jumped, n > 16
      PROVE  sk[17].at = "name"
  <2>1. CASE n = 17
    <3>1. sk[17] = [offset |-> c, at |-> "name"]
      BY <1>3, <2>1 DEF Together
    <3> QED
      BY <3>1
  <2>2. CASE n > 17
    BY <1>1, <1>3, <2>2 DEF Together
  <2> QED
    BY <1>1, <1>3, <2>1, <2>2
<1>4. CASE Jumps(p, w) /\ v = Jump(p, w)
  <2>1. w.at = "name" /\ c + 1 < Len(p) /\ IsPointer(Byte(p, c))
    BY <1>4 DEF Jumps
  <2>2. v.at = "name" /\ v.labels = n /\ v.jumped
        /\ v.next = IF w.jumped THEN w.next ELSE c + 2
    BY <1>4, <2>1, JumpFields
  <2>3. CASE w.jumped
    BY <2>1, <2>2, <2>3 DEF Together
  <2>4. CASE ~w.jumped /\ n <= 16
    <3>1. sk[n + 1] = [offset |-> c + 2, at |-> "end"]
      <4>1. c < Len(p)
        BY <1>1, <2>1
      <4> QED
        BY <1>1, <1>2, <2>1, <2>4, <4>1 DEF SkipOn
    <3>2. sk[17] = sk[n + 1]
      <4>1. n + 1 \in 0 .. 17
        BY <1>2, <2>1, <2>4
      <4>2. sk[n + 1].at # "name"
        BY <3>1
      <4> QED
        BY <4>1, <4>2, SkipStays
    <3> QED
      BY <2>2, <2>4, <3>1, <3>2 DEF Together
  <2>5. CASE ~w.jumped /\ n > 16
    BY <1>3, <2>1, <2>2, <2>5 DEF Together
  <2> QED
    BY <1>1, <2>3, <2>4, <2>5
<1>5. CASE Ends(p, w) /\ v = End(w)
  <2>1. w.at = "name" /\ c < Len(p) /\ Byte(p, c) = 0
    BY <1>5 DEF Ends
  <2>2. v.at = "end" /\ v.labels = n /\ v.next = IF w.jumped THEN w.next ELSE c + 1
    BY <1>5, EndFields
  <2>3. CASE w.jumped
    BY <2>1, <2>2, <2>3 DEF Together
  <2>4. CASE ~w.jumped /\ n <= 16
    <3>1. sk[n + 1] = [offset |-> c + 1, at |-> "end"]
      BY <1>1, <1>2, <2>1, <2>4 DEF SkipOn, IsPointer
    <3>2. sk[17] = sk[n + 1]
      <4>1. n + 1 \in 0 .. 17
        BY <1>2, <2>1, <2>4
      <4>2. sk[n + 1].at # "name"
        BY <3>1
      <4> QED
        BY <4>1, <4>2, SkipStays
    <3> QED
      BY <2>2, <2>4, <3>1, <3>2 DEF Together
  <2>5. CASE ~w.jumped /\ n > 16
    BY <1>3, <2>1, <2>2, <2>5 DEF Together
  <2> QED
    BY <1>1, <2>3, <2>4, <2>5
<1>6. CASE Passes(p, w) /\ v = PassLabel(p, host, w)
  <2>1. w.at = "name" /\ c < Len(p) /\ IsLabel(Byte(p, c))
    BY <1>6 DEF Passes
  <2>2. v.at = "name" /\ v.labels = n + 1 /\ v.jumped = w.jumped /\ v.next = w.next
        /\ v.cursor = AfterLabel(p, c)
    BY <1>6, <2>1, PassFields
  <2>3. CASE w.jumped
    <3>1. sk[17] = [offset |-> w.next, at |-> "end"] \/ (sk[17].at = "name" /\ n > 16)
      BY <2>1, <2>3 DEF Together
    <3>2. n > 16 => n + 1 > 16
      BY <1>1
    <3> QED
      BY <2>2, <2>3, <3>1, <3>2 DEF Together
  <2>4. CASE ~w.jumped /\ n <= 16
    <3>1. ~IsPointer(Byte(p, c)) /\ Byte(p, c) # 0
      BY <1>0, <2>1
    <3>2. sk[n + 1] = [offset |-> AfterLabel(p, c), at |-> "name"]
      BY <1>1, <1>2, <2>1, <2>4, <3>1 DEF SkipOn
    <3>3. n + 1 <= 17
      BY <1>1, <2>4
    <3> QED
      BY <2>2, <2>4, <3>2, <3>3 DEF Together
  <2>5. CASE ~w.jumped /\ n > 16
    <3>1. ~(n + 1 <= 17)
      BY <1>1, <2>5
    <3> QED
      BY <1>3, <2>1, <2>2, <2>5, <3>1 DEF Together
  <2> QED
    BY <1>1, <2>3, <2>4, <2>5
<1>7. CASE v = Fail(w)
  <2>1. v.at = "none"
    BY <1>7, FailField
  <2> QED
    BY <2>1 DEF Together
<1>8. CASE v = w
  BY <1>8
<1> HIDE DEF v
<1> QED
  BY <1>4, <1>5, <1>6, <1>7, <1>8, WalkTurnIs DEF v

LEMMA FoundKept ==
    ASSUME NEW p \in Seq(Bytes), NEW host, NEW w \in Walks, Found(p, host, w)
    PROVE  Found(p, host, WalkOn(p, host, w))
<1> DEFINE c == w.cursor
           d == w.depth
           v == WalkOn(p, host, w)
<1>0. IsLabel(Byte(p, c)) => ~IsPointer(Byte(p, c)) /\ Byte(p, c) # 0
  <2>1. \A b \in 1 .. 63 : ~(b >= 192) /\ b # 0
    OBVIOUS
  <2> QED
    BY <2>1 DEF IsLabel, IsPointer
<1>1. c \in Nat /\ d \in Nat /\ d <= 16 /\ w.labels \in Nat /\ Len(p) \in Nat
  BY Lengths, WalkNumbers DEF Walks
<1>2. d < 16 => d + 1 \in 1 .. 17 /\ (d + 1) - 1 = d /\ d + 1 \in 0 .. 17
  <2>1. d \in Int /\ 0 <= d
    BY <1>1
  <2> QED
    BY <1>1, <2>1, UpToSixteen
<1>3. CASE Jumps(p, w) /\ v = Jump(p, w)
  <2>1. w.at = "name" /\ d < 16 /\ c + 1 < Len(p) /\ IsPointer(Byte(p, c))
    BY <1>3 DEF Jumps
  <2>2. /\ v.at = w.at /\ v.labels = w.labels /\ v.matched = w.matched
        /\ v.cursor = Pointer(p, c) /\ v.depth = d + 1
    BY <1>3, JumpFields
  <2>3. ASSUME w.labels = 0, NEW wanted, NEW s, Searches(s, p, wanted)
        PROVE  s[d + 1] = [offset |-> Pointer(p, c), at |-> "name"]
    <3>1. s[d] = [offset |-> c, at |-> "name"]
      BY <2>1, <2>3 DEF Found, AllAt
    <3>2. s[d + 1] = SearchLabel(p, wanted, s[d])
      BY <1>2, <2>1, <2>3 DEF Searches
    <3>3. ~(c >= Len(p)) /\ ~(c + 1 >= Len(p))
      BY <1>1, <2>1
    <3> QED
      BY <2>1, <3>1, <3>2, <3>3 DEF SearchLabel
  <2>4. w.labels = 0 => AllAt(p, v.depth, v.cursor)
    BY <2>2, <2>3 DEF AllAt
  <2> HIDE DEF v
  <2> QED
    BY <2>1, <2>2, <2>4 DEF Found, v
<1>4. CASE Ends(p, w) /\ v = End(w)
  <2>1. w.at = "name"
    BY <1>4 DEF Ends
  <2>2. v.at = "end" /\ v.labels = w.labels /\ (v.matched => w.matched)
    BY <1>4, EndFields
  <2> HIDE DEF v
  <2> QED
    BY <2>1, <2>2 DEF Found, v
<1>5. CASE Passes(p, w) /\ v = PassLabel(p, host, w)
  <2>1. w.at = "name" /\ d < 16 /\ c < Len(p) /\ IsLabel(Byte(p, c)) /\ AfterLabel(p, c) <= Len(p)
    BY <1>5 DEF Passes
  <2>2. /\ v.at = w.at /\ v.labels = w.labels + 1
        /\ v.matched => w.matched /\ Lower(Label(p, c)) = host[w.labels + 1]
    BY <1>5, PassFields
  <2>3. ASSUME w.labels = 0, v.matched PROVE HasHost(p, host)
    <3> DEFINE wanted == Label(p, c)
    <3>1. PICK s : Searches(s, p, wanted) /\ (HasLabel(p, wanted) <=> s[17].at = "end")
      BY SearchLoop
    <3>2. s[d] = [offset |-> c, at |-> "name"]
      BY <2>1, <2>3, <3>1 DEF Found, AllAt
    <3>3. s[d + 1] = SearchLabel(p, wanted, s[d])
      BY <1>2, <2>1, <3>1 DEF Searches
    <3>4. ~IsPointer(Byte(p, c)) /\ ~(c >= Len(p)) /\ ~(AfterLabel(p, c) > Len(p))
      <4>1. AfterLabel(p, c) \in Nat
        BY <1>1, <2>1, Lengths
      <4>2. ~(c >= Len(p)) /\ ~(AfterLabel(p, c) > Len(p))
        BY <1>1, <2>1, <4>1
      <4> QED
        BY <1>0, <2>1, <4>2
    <3>5. s[d + 1].at = "end"
      BY <2>1, <3>2, <3>3, <3>4 DEF SearchLabel
    <3>6. s[17].at = "end"
      <4>1. \E n \in 0 .. 17 : s[n].at = "end"
        <5>1. d + 1 \in 0 .. 17
          BY <1>2, <2>1
        <5> QED
          BY <3>5, <5>1
      <4> HIDE DEF wanted
      <4> QED
        BY <3>1, <4>1, SearchStays
    <3>7. Lower(Label(p, c)) = host[1]
      BY <2>2, <2>3
    <3>8. c \in 0 .. Len(p) - 1
      BY <1>1, <2>1
    <3> QED
      BY <2>1, <3>1, <3>6, <3>7, <3>8 DEF HasHost
  <2>4. w.labels > 0 /\ v.matched => HasHost(p, host)
    BY <2>1, <2>2 DEF Found
  <2>5. w.labels = 0 \/ w.labels > 0
    BY <1>1
  <2>6. v.labels # 0
    BY <1>1, <2>2
  <2> HIDE DEF v
  <2> QED
    BY <2>3, <2>4, <2>5, <2>6 DEF Found, v
<1>6. CASE v = Fail(w)
  <2>1. v.at = "none"
    BY <1>6, FailField
  <2> QED
    BY <2>1 DEF Found
<1>7. CASE v = w
  BY <1>7
<1> HIDE DEF v
<1> QED
  BY <1>3, <1>4, <1>5, <1>6, <1>7, WalkTurnIs DEF v

LEMMA WalksAgree ==
    ASSUME NEW p \in Seq(Bytes), NEW host
    PROVE  LET w == MatchesHost(p, host)
               skip == AfterName(p)
           IN  /\ w.at # "name"
               /\ w.at = "end" => \/ skip = [offset |-> w.next, at |-> "end"]
                                  \/ skip.at = "name" /\ w.labels > 16
               /\ w.at = "end" /\ w.matched => HasHost(p, host)
<1> DEFINE n == WalkTurns(p)
           start == [cursor |-> 0, next |-> 0, jumped |-> FALSE, depth |-> 0,
                     labels |-> 0, matched |-> TRUE, at |-> "name"]
<1>1. PICK sk : Skips(sk, p) /\ AfterName(p) = sk[17]
  BY SkipLoop
<1>2. PICK s : WalksOn(s, p, host) /\ MatchesHost(p, host) = s[n]
  BY WalkLoop
<1> DEFINE Inv(w, k) == /\ Ahead(p, w, k) /\ Together(p, w, sk) /\ Found(p, host, w)
                        /\ w.at = "end" /\ w.matched => w.labels > 0
           S == {k \in 0 .. n : Inv(s[k], k)}
<1>3. /\ s[0] = start /\ \A k \in 0 .. n : s[k] \in Walks
      /\ \A k \in 1 .. n : s[k] = WalkOn(p, host, s[k - 1])
  BY <1>2 DEF WalksOn
<1>4. n \in Nat /\ n = 17 * (Len(p) + 1) /\ Len(p) \in Nat
  BY DEF WalkTurns
<1> HIDE DEF n
<1>5. 0 \in S
  <2>1. 0 \in 0 .. n
    BY <1>4
  <2>2. Ahead(p, start, 0)
    BY <1>4 DEF Ahead
  <2>3. Together(p, start, sk)
    <3>1. sk[0] = [offset |-> 0, at |-> "name"]
      BY <1>1 DEF Skips
    <3> QED
      BY <3>1 DEF Together
  <2>4. Found(p, host, start)
    BY DEF Found, AllAt, Searches
  <2> QED
    BY <1>3, <2>1, <2>2, <2>3, <2>4
<1>6. ASSUME NEW k \in 0 + 1 .. n, k - 1 \in S PROVE k \in S
  <2>1. k \in 1 .. n /\ k \in 0 .. n /\ k - 1 \in 0 .. n /\ k - 1 \in Nat /\ (k - 1) + 1 = k
    BY <1>4
  <2> DEFINE w == s[k - 1]
  <2>2. w \in Walks /\ s[k] = WalkOn(p, host, w) /\ Inv(w, k - 1)
    BY <1>3, <1>6, <2>1
  <2> HIDE DEF w
  <2>3. Ahead(p, s[k], k)
    BY <2>1, <2>2, AheadKept
  <2>4. Together(p, s[k], sk)
    BY <1>1, <2>2, TogetherKept
  <2>5. Found(p, host, s[k])
    BY <2>2, FoundKept
  <2>6. s[k].at = "end" /\ s[k].matched => s[k].labels > 0
    <3>1. CASE s[k] = w
      BY <2>2, <3>1
    <3>2. CASE s[k] = Fail(w)
      BY <2>2, <3>2, FailField
    <3>3. CASE Jumps(p, w) /\ s[k] = Jump(p, w)
      <4>1. s[k].at = "name"
        BY <2>2, <3>3, JumpFields DEF Jumps
      <4> QED
        BY <4>1
    <3>4. CASE s[k] = End(w)
      BY <2>2, <3>4, EndFields
    <3>5. CASE Passes(p, w) /\ s[k] = PassLabel(p, host, w)
      <4>1. s[k].at = "name"
        BY <2>2, <3>5, PassFields DEF Passes
      <4> QED
        BY <4>1
    <3> QED
      BY <2>2, <3>1, <3>2, <3>3, <3>4, <3>5, WalkTurnIs
  <2> QED
    BY <2>1, <2>3, <2>4, <2>5, <2>6
<1> HIDE DEF S
<1>7. 0 .. n \subseteq S
  <2>1. 0 \in Int /\ n \in Int
    BY <1>4
  <2> QED
    BY <1>5, <1>6, <2>1, IntervalInduction
<1>8. PICK w \in Walks : w = MatchesHost(p, host) /\ Inv(w, n)
  <2>1. n \in 0 .. n
    BY <1>4
  <2> QED
    BY <1>2, <1>3, <1>7, <2>1 DEF S
<1>9. w.at # "name"
  <2>1. w.depth \in Nat /\ w.depth <= 16 /\ w.cursor \in Nat
    BY WalkNumbers
  <2>2. ASSUME w.cursor <= Len(p), n <= w.depth * (Len(p) + 1) + w.cursor PROVE FALSE
    <3>1. w.depth * (Len(p) + 1) <= 16 * (Len(p) + 1)
      <4>1. \A d \in Nat, x \in Nat : d <= 16 => d * x <= 16 * x
        OBVIOUS
      <4>2. Len(p) + 1 \in Nat
        BY <1>4
      <4> QED
        BY <2>1, <4>1, <4>2
    <3> DEFINE x == Len(p)
               m == w.depth * (x + 1)
    <3>2. /\ x \in Nat /\ n = 17 * (x + 1) /\ n \in Nat /\ m \in Int
          /\ w.cursor \in Nat /\ w.cursor <= x /\ n <= m + w.cursor /\ m <= 16 * (x + 1)
      <4>1. PICK d \in Int, y \in Int : d = w.depth /\ y = x + 1
        BY <1>4, <2>1
      <4> QED
        BY <1>4, <2>1, <2>2, <3>1, <4>1
    <3> HIDE DEF x, m
    <3> QED
      BY <3>2
  <2> QED
    BY <1>8, <2>2 DEF Ahead
<1>10. w.at = "end" => \/ AfterName(p) = [offset |-> w.next, at |-> "end"]
                       \/ AfterName(p).at = "name" /\ w.labels > 16
  BY <1>1, <1>8 DEF Together
<1>11. w.at = "end" /\ w.matched => HasHost(p, host)
  BY <1>8 DEF Found
<1> QED
  BY <1>8, <1>9, <1>10, <1>11

LEMMA AskedStays == NamesSpec => [](asked \in NameInputs)
<1>1. asked \in NameInputs /\ [NamesNext]_asked => (asked \in NameInputs)'
  BY DEF NamesNext
<1> QED
  BY <1>1, PTL DEF NamesSpec, NamesInit

(* The walks over a name agree on every packet, however long and whatever  *)
(* its bytes, and the one that follows pointers ends on every packet       *)
(* (mdns.rs 42-112, 586-648).                                              *)
THEOREM NamesAgree == NamesSpec => []NameWalksAgree
<1>1. asked \in NameInputs => NameWalksAgree
  <2> SUFFICES ASSUME asked \in NameInputs PROVE NameWalksAgree
    OBVIOUS
  <2>1. asked.packet \in Seq(Bytes)
    BY NameAssumption
  <2> QED
    BY <2>1, WalksAgree DEF NameWalksAgree, HasHost
<1> QED
  BY <1>1, AskedStays, PTL
=============================================================================
