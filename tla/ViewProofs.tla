---------------------------- MODULE ViewProofs -----------------------------
(***************************************************************************)
(* What the views of the data promise: the chart of the web page, and the  *)
(* algorithms between a measurement and what is seen of it.                *)
(*                                                                         *)
(* Dashboard: for any number of points and events, any room in an          *)
(* answer and any number of attempts.  Algorithms: for every history, bus, *)
(* packet, day, host name and age.                                         *)
(***************************************************************************)
EXTENDS Dashboard, Algorithms, DataLemmas,
        FiniteSetTheorems, SequenceTheorems, FunctionTheorems

----------------------------------------------------------------------------
(* Dashboard.                                                              *)

Rising(s) ==
    /\ s \in Seq(Nat)
    /\ \A i, j \in DOMAIN s : i < j => s[i] < s[j]

(* Numbers as they come to the source: one that is not late is greater     *)
(* than all before it.                                                     *)
Numbered(s) ==
    /\ s \in Seq(Nat)
    /\ Range(s) \subseteq 1 .. top
    /\ \A i, j \in DOMAIN s : i < j /\ s[j] \notin late => s[i] < s[j]

SourceNumbers ==
    /\ srcCollecting \in BOOLEAN
    /\ top \in 0 .. MaxSeq
    /\ srcNext \in 1 .. top + 1
    /\ Numbered(srcPoints)

(* What a request brought of the history, however long ago: up to any of   *)
(* its points it has all that the source still has and that an answer had  *)
(* room for.                                                               *)
Snapshot(s) ==
    /\ Numbered(s)
    /\ \A m \in Range(s), n \in Range(srcPoints) :
           n <= m /\ n \notin late => n \in Range(s) \union left

UnderWay ==
    /\ load.at = "served" => Snapshot(load.answer)
    /\ poll.at = "history served" => Snapshot(poll.answer)
    /\ poll.at = "status served" => poll.answer \in BOOLEAN
    /\ toggle \in [at : {"idle", "waiting", "asked", "served", "retry"},
                   value : BOOLEAN, attempt : 0 .. Attempts]
    /\ collecting \in BOOLEAN

InOrder(s) ==
    \A i, j \in DOMAIN s : i < j /\ s[i] # Live /\ s[j] # Live => s[i] < s[j]

(* No point on the chart is beyond lastHistorySeq, unless the load brought *)
(* numbers that go back.                                                   *)
ChartPoints ==
    /\ chart \in Seq(Nat) /\ Range(chart) \subseteq 0 .. MaxSeq
    /\ lastHistorySeq \in 0 .. top
    /\ ~mixed => InOrder(chart) /\ \A n \in Range(chart) : n <= lastHistorySeq

(* Since the load: as long as the mark is to come there is no live sample, *)
(* and then the mark is there.                                             *)
Marks ==
    /\ {sessionGapPending, pendingSessionBoundary} \subseteq BOOLEAN
    /\ sinceLoad =>
         IF sessionGapPending \/ pendingSessionBoundary
         THEN Live \notin Range(chart)
         ELSE /\ sessionBoundary \in 1 .. Len(chart)
              /\ \A i \in DOMAIN chart : chart[i] = Live => sessionBoundary <= i

IInv == SourceNumbers /\ UnderWay /\ ChartPoints /\ Marks /\ NothingSkipped
        /\ DashboardTypeOK

----------------------------------------------------------------------------
(* Sequences.                                                              *)

LEMMA RangeIn ==
    ASSUME NEW S, NEW s \in Seq(S)
    PROVE  /\ DOMAIN s = 1 .. Len(s) /\ Len(s) \in Nat
           /\ Range(s) \in SUBSET S
           /\ \A i \in DOMAIN s : s[i] \in Range(s)
           /\ s # <<>> => Len(s) > 0 /\ Last(s) = s[Len(s)] /\ Last(s) \in Range(s)
BY DEF Range, Last

LEMMA EmptyRange == Range(<<>>) = {} /\ <<>> \in Seq(Nat) /\ Len(<<>>) = 0
BY DEF Range

LEMMA OneElement ==
    ASSUME NEW n \in Nat
    PROVE  /\ <<n>> \in Seq(Nat) /\ Len(<<n>>) = 1 /\ <<n>> # <<>>
           /\ <<n>>[1] = n /\ Range(<<n>>) = {n}
BY DEF Range

LEMMA LastIsGreatest ==
    ASSUME NEW s, Rising(s), s # <<>>
    PROVE  Last(s) \in Range(s) /\ \A n \in Range(s) : n <= Last(s)
<1>1. Len(s) \in DOMAIN s /\ Last(s) = s[Len(s)] /\ DOMAIN s = 1 .. Len(s)
  BY DEF Rising, Last
<1>2. \A i \in DOMAIN s : s[i] \in Nat /\ (i < Len(s) => s[i] < s[Len(s)])
  BY <1>1 DEF Rising
<1>3. \A i \in DOMAIN s : s[i] <= s[Len(s)]
  BY <1>1, <1>2
<1> QED
  BY <1>1, <1>3 DEF Range

LEMMA Joined ==
    ASSUME NEW s \in Seq(Nat), NEW t \in Seq(Nat)
    PROVE  /\ s \o t \in Seq(Nat) /\ Len(s \o t) = Len(s) + Len(t)
           /\ Len(s) \in Nat /\ Len(t) \in Nat
           /\ DOMAIN s = 1 .. Len(s) /\ DOMAIN t = 1 .. Len(t)
           /\ DOMAIN (s \o t) = 1 .. Len(s) + Len(t)
           /\ \A i \in 1 .. Len(s) : (s \o t)[i] = s[i]
           /\ \A i \in Len(s) + 1 .. Len(s) + Len(t) :
                 i - Len(s) \in 1 .. Len(t) /\ (s \o t)[i] = t[i - Len(s)]
           /\ Range(s \o t) = Range(s) \union Range(t)
<1>1. /\ s \o t \in Seq(Nat) /\ Len(s \o t) = Len(s) + Len(t)
      /\ Len(s) \in Nat /\ Len(t) \in Nat
      /\ DOMAIN s = 1 .. Len(s) /\ DOMAIN t = 1 .. Len(t)
      /\ DOMAIN (s \o t) = 1 .. Len(s) + Len(t)
  OBVIOUS
<1>2. /\ \A i \in 1 .. Len(s) : (s \o t)[i] = s[i]
      /\ \A i \in 1 .. Len(t) : (s \o t)[Len(s) + i] = t[i]
      /\ \A i \in Len(s) + 1 .. Len(s) + Len(t) :
            i - Len(s) \in 1 .. Len(t) /\ (s \o t)[i] = t[i - Len(s)]
  BY <1>1
<1>3. ASSUME NEW n \in Range(s) PROVE n \in Range(s \o t)
  BY <1>1, <1>2 DEF Range
<1>4. ASSUME NEW n \in Range(t) PROVE n \in Range(s \o t)
  <2>1. PICK i \in 1 .. Len(t) : n = t[i]
    BY <1>1 DEF Range
  <2>2. Len(s) + i \in DOMAIN (s \o t) /\ (s \o t)[Len(s) + i] = n
    BY <1>1, <1>2, <2>1
  <2> QED
    BY <2>2 DEF Range
<1>5. ASSUME NEW n \in Range(s \o t) PROVE n \in Range(s) \union Range(t)
  <2>1. PICK i \in DOMAIN (s \o t) : n = (s \o t)[i]
    BY DEF Range
  <2>2. CASE i <= Len(s)
    BY <1>1, <1>2, <2>1, <2>2 DEF Range
  <2>3. CASE i > Len(s)
    BY <1>1, <1>2, <2>1, <2>3 DEF Range
  <2> QED
    BY <1>1, <2>1, <2>2, <2>3
<1> QED
  BY <1>1, <1>2, <1>3, <1>4, <1>5

LEMMA OrderJoined ==
    ASSUME NEW s \in Seq(Nat), NEW t \in Seq(Nat), InOrder(s), InOrder(t),
           \A m \in Range(s), n \in Range(t) : m # Live /\ n # Live => m < n
    PROVE  InOrder(s \o t)
<1> DEFINE u == s \o t
<1>1. /\ Len(s) \in Nat /\ Len(t) \in Nat
      /\ DOMAIN s = 1 .. Len(s) /\ DOMAIN t = 1 .. Len(t)
      /\ DOMAIN u = 1 .. Len(s) + Len(t)
      /\ \A i \in 1 .. Len(s) : u[i] = s[i]
      /\ \A i \in Len(s) + 1 .. Len(s) + Len(t) :
            i - Len(s) \in 1 .. Len(t) /\ u[i] = t[i - Len(s)]
  BY Joined
<1> HIDE DEF u
<1> SUFFICES ASSUME NEW i \in DOMAIN u, NEW j \in DOMAIN u, i < j,
                    u[i] # Live, u[j] # Live
             PROVE  u[i] < u[j]
  BY DEF InOrder, u
<1>2. CASE j <= Len(s)
  <2>1. i \in 1 .. Len(s) /\ j \in 1 .. Len(s)
    BY <1>1, <1>2
  <2>2. i \in DOMAIN s /\ j \in DOMAIN s /\ u[i] = s[i] /\ u[j] = s[j]
    BY <1>1, <2>1
  <2> QED
    BY <2>2 DEF InOrder
<1>3. CASE i > Len(s)
  <2>1. i \in Len(s) + 1 .. Len(s) + Len(t) /\ j \in Len(s) + 1 .. Len(s) + Len(t)
    BY <1>1, <1>3
  <2>2. i - Len(s) < j - Len(s)
    BY <1>1, <2>1
  <2>3. /\ i - Len(s) \in DOMAIN t /\ j - Len(s) \in DOMAIN t
        /\ u[i] = t[i - Len(s)] /\ u[j] = t[j - Len(s)]
    BY <1>1, <2>1
  <2> QED
    BY <2>2, <2>3 DEF InOrder
<1>4. CASE i <= Len(s) /\ j > Len(s)
  <2>1. i \in 1 .. Len(s) /\ j \in Len(s) + 1 .. Len(s) + Len(t)
    BY <1>1, <1>4
  <2>2. i \in DOMAIN s /\ j - Len(s) \in DOMAIN t /\ u[i] = s[i] /\ u[j] = t[j - Len(s)]
    BY <1>1, <2>1
  <2>3. s[i] \in Range(s) /\ t[j - Len(s)] \in Range(t)
    BY <2>2 DEF Range
  <2> QED
    BY <2>2, <2>3
<1> QED
  BY <1>1, <1>2, <1>3, <1>4

(* What a sequence at some of its places is.                               *)
LEMMA SievedPlaces ==
    ASSUME NEW s \in Seq(Nat), NEW I \in SUBSET DOMAIN s
    PROVE  /\ Sieved(s, I) \in Seq(Nat)
           /\ Range(Sieved(s, I)) = {s[i] : i \in I}
           /\ \E at \in [DOMAIN Sieved(s, I) -> I] :
                /\ \A j \in DOMAIN Sieved(s, I) : Sieved(s, I)[j] = s[at[j]]
                /\ \A j, k \in DOMAIN Sieved(s, I) : j < k => at[j] < at[k]
<1> DEFINE t == Sieved(s, I)
<1>1. t \in Seq(Nat) /\ \E at : Positions(at, t, s, I, Len(s))
  BY SievedElements
<1> HIDE DEF t
<1>2. PICK at : Positions(at, t, s, I, Len(s))
  BY <1>1
<1>3. DOMAIN t = 1 .. Len(t) /\ I \cap 1 .. Len(s) = I
  BY <1>1
<1>4. /\ at \in [DOMAIN t -> I]
      /\ \A j \in DOMAIN t : t[j] = s[at[j]]
      /\ \A j, k \in DOMAIN t : j < k => at[j] < at[k]
      /\ \A i \in I : \E j \in DOMAIN t : at[j] = i
  BY <1>2, <1>3 DEF Positions
<1>5. Range(t) = {s[i] : i \in I}
  BY <1>4 DEF Range
<1> QED
  BY <1>1, <1>4, <1>5 DEF t

(* What a merge pushes.                                                    *)
LEMMA NewPoints ==
    ASSUME NEW s, Numbered(s)
    PROVE  /\ Rising(New(s))
           /\ Range(New(s)) \subseteq {n \in Range(s) : n > lastHistorySeq}
           /\ \A n \in Range(s) : n > lastHistorySeq /\ n \notin late => n \in Range(New(s))
<1> DEFINE I == {i \in DOMAIN s : /\ s[i] > lastHistorySeq
                                  /\ \A j \in 1 .. (i - 1) : s[j] < s[i]}
           t == Sieved(s, I)
<1>1. s \in Seq(Nat) /\ DOMAIN s = 1 .. Len(s) /\ Len(s) \in Nat /\ I \in SUBSET DOMAIN s
  BY DEF Numbered
<1>2. /\ \A i \in I : s[i] > lastHistorySeq /\ \A j \in 1 .. (i - 1) : s[j] < s[i]
      /\ \A i \in DOMAIN s : s[i] > lastHistorySeq /\ s[i] \notin late => i \in I
  <2>1. ASSUME NEW i \in DOMAIN s, s[i] > lastHistorySeq, s[i] \notin late PROVE i \in I
    <3>1. ASSUME NEW j \in 1 .. (i - 1) PROVE s[j] < s[i]
      <4>1. j \in DOMAIN s /\ j < i
        BY <1>1
      <4> QED
        BY <2>1, <4>1 DEF Numbered
    <3> QED
      BY <2>1, <3>1
  <2> QED
    BY <2>1
<1> HIDE DEF I
<1>3. /\ t \in Seq(Nat) /\ Range(t) = {s[i] : i \in I}
      /\ \E at \in [DOMAIN t -> I] :
           /\ \A j \in DOMAIN t : t[j] = s[at[j]]
           /\ \A j, k \in DOMAIN t : j < k => at[j] < at[k]
  BY <1>1, SievedPlaces
<1>4. New(s) = t
  BY DEF New, I
<1> HIDE DEF t
<1>5. PICK at \in [DOMAIN t -> I] :
           /\ \A j \in DOMAIN t : t[j] = s[at[j]]
           /\ \A j, k \in DOMAIN t : j < k => at[j] < at[k]
  BY <1>3
<1>6. \A j, k \in DOMAIN t : j < k => t[j] < t[k]
  <2> SUFFICES ASSUME NEW j \in DOMAIN t, NEW k \in DOMAIN t, j < k PROVE t[j] < t[k]
    OBVIOUS
  <2>1. at[j] \in DOMAIN s /\ at[k] \in I /\ at[j] < at[k] /\ at[k] \in DOMAIN s
    BY <1>1, <1>5
  <2>2. at[j] \in 1 .. (at[k] - 1)
    BY <1>1, <2>1
  <2> QED
    BY <1>2, <1>5, <2>1, <2>2
<1>7. ASSUME NEW n \in Range(s), n > lastHistorySeq, n \notin late PROVE n \in Range(t)
  <2>1. PICK i \in DOMAIN s : n = s[i]
    BY DEF Range
  <2> QED
    BY <1>2, <1>3, <1>7, <2>1
<1>8. ASSUME NEW n \in Range(t) PROVE n \in Range(s) /\ n > lastHistorySeq
  BY <1>1, <1>2, <1>3 DEF Range
<1> QED
  BY <1>3, <1>4, <1>6, <1>7, <1>8 DEF Rising

----------------------------------------------------------------------------
(* What the source does to answers under way.                              *)

LEMMA SnapshotStays ==
    ASSUME NEW s, Snapshot(s), top \in Nat, top' \in Nat, top <= top',
           late \subseteq late', left \subseteq left',
           \A n \in Range(srcPoints)' :
               n \in Range(srcPoints) \/ n \in late' \/ n > top
    PROVE  Snapshot(s)'
<1>1. Numbered(s)'
  BY DEF Snapshot, Numbered
<1>2. ASSUME NEW m \in Range(s), NEW n \in Range(srcPoints)', n <= m, n \notin late'
      PROVE  n \in Range(s) \union left'
  <2>1. m \in 1 .. top
    BY DEF Snapshot, Numbered
  <2>2. CASE n > top
    <3>1. n \in Nat \/ n \notin Nat
      OBVIOUS
    <3> QED
      BY <1>2, <2>1, <2>2
  <2> QED
    BY <1>2, <2>2 DEF Snapshot
<1> QED
  BY <1>1, <1>2 DEF Snapshot

LEMMA InitHolds == Init => IInv
<1> SUFFICES ASSUME Init PROVE IInv
  OBVIOUS
<1>1. PICK n \in 0 .. (MaxSeq - 1) :
          /\ srcPoints = [i \in 1 .. n |-> i] /\ top = n
          /\ srcNext \in {n + 1} \union (IF origin = "server" THEN {1} ELSE {})
  BY DEF Init
<1>2. SourceNumbers
  <2>1. srcPoints \in Seq(Nat) /\ DOMAIN srcPoints = 1 .. n
    BY <1>1
  <2>2. Numbered(srcPoints)
    BY <1>1, <2>1 DEF Numbered, Range
  <2> QED
    BY <1>1, <2>2, SeqAssumption DEF SourceNumbers, Init
<1>3. UnderWay
  <2>1. NoToggle \in [at : {"idle", "waiting", "asked", "served", "retry"},
                      value : BOOLEAN, attempt : 0 .. Attempts]
    BY AttemptsAssumption DEF NoToggle
  <2>2. load.at = "asked" /\ poll.at = "idle" /\ toggle = NoToggle /\ collecting = FALSE
    BY DEF Init, At, Idle
  <2> QED
    BY <2>1, <2>2 DEF UnderWay
<1>4. chart = <<>> /\ lastHistorySeq = 0 /\ Range(chart) = {}
  BY EmptyRange DEF Init
<1>5. ChartPoints
  BY <1>1, <1>4, SeqAssumption DEF ChartPoints, InOrder
<1>6. Marks
  BY DEF Init, Marks
<1>7. DashboardTypeOK
  BY <1>4, SeqAssumption, AttemptsAssumption DEF Init, DashboardTypeOK, At, Idle, NoToggle
<1>8. NothingSkipped
  BY <1>1, <1>2, <1>4 DEF NothingSkipped, SourceNumbers, Numbered
<1> QED
  BY <1>2, <1>3, <1>5, <1>6, <1>7, <1>8 DEF IInv

(* Steps that take no point from one place to another.                     *)

LEMMA SourceStays ==
    ASSUME SourceNumbers, UNCHANGED <<srcPoints, top, late>>,
           srcCollecting' \in BOOLEAN, srcNext' \in 1 .. top + 1
    PROVE  SourceNumbers'
BY DEF SourceNumbers, Numbered

LEMMA SameSource ==
    ASSUME UNCHANGED <<srcPoints, top, late, left>>
    PROVE  \A s : Snapshot(s)' <=> Snapshot(s)
BY DEF Snapshot, Numbered

LEMMA ChartStays ==
    ASSUME ChartPoints, Marks, NothingSkipped,
           UNCHANGED <<lastHistorySeq, sessionGapPending, shown, mixed, sinceLoad, taken>>,
           UNCHANGED <<srcPoints, top, late>>, left \subseteq left'
    PROVE  ChartPoints' /\ Marks' /\ NothingSkipped'
<1>1. ChartPoints' /\ Marks'
  BY DEF ChartPoints, Marks, InOrder, shown
<1>2. NothingSkipped'
  BY DEF NothingSkipped, OnChart, shown
<1> QED
  BY <1>1, <1>2

\* What the steps of requests, failures and buttons leave alone.
Points0 == <<srcPoints, top, late, left, taken, lastHistorySeq, sessionGapPending,
             shown, mixed, sinceLoad>>

ControlStep ==
    \/ DeviceRestarts \/ OtherClient \/ LoadFails
    \/ PollStarts \/ ServeStatus \/ PollFails
    \/ Click \/ Ask \/ ServeToggle \/ ToggleDone \/ AttemptFails
    \/ ClickClear \/ ClearFails

LEMMA ToggleKeeps ==
    ASSUME IInv, ControlStep
    PROVE  /\ srcCollecting' \in BOOLEAN /\ collecting' \in BOOLEAN
           /\ toggle' \in [at : {"idle", "waiting", "asked", "served", "retry"},
                           value : BOOLEAN, attempt : 0 .. Attempts]
<1>1. /\ srcCollecting \in BOOLEAN /\ collecting \in BOOLEAN /\ toggle.value \in BOOLEAN
      /\ toggle \in [at : {"idle", "waiting", "asked", "served", "retry"},
                     value : BOOLEAN, attempt : 0 .. Attempts]
  BY DEF IInv, SourceNumbers, UnderWay
<1>2. /\ Attempts \in Nat /\ {0, 1} \subseteq 0 .. Attempts
      /\ toggle.attempt \in 0 .. Attempts
      /\ toggle.attempt < Attempts => toggle.attempt + 1 \in 0 .. Attempts
  BY <1>1, AttemptsAssumption
<1>3. CASE OtherClient
  BY <1>1, <1>3 DEF OtherClient, page
<1>4. CASE Click
  BY <1>1, <1>2, <1>4 DEF Click, source, page
<1>5. CASE ServeToggle
  BY <1>1, <1>5 DEF ServeToggle, page
<1>6. CASE Ask
  BY <1>1, <1>6 DEF Ask, source, page
<1>7. CASE ToggleDone
  BY <1>1, <1>2, <1>7 DEF ToggleDone, NoToggle, source
<1>8. CASE AttemptFails
  <2>1. NoToggle \in [at : {"idle", "waiting", "asked", "served", "retry"},
                      value : BOOLEAN, attempt : 0 .. Attempts]
    BY <1>2 DEF NoToggle
  <2>2. CASE toggle.attempt < Attempts
    <3>1. toggle' = [toggle EXCEPT !.at = "retry", !.attempt = toggle.attempt + 1]
          /\ UNCHANGED <<collecting, srcCollecting>>
      BY <1>8, <2>2 DEF AttemptFails, source
    <3> QED
      BY <1>1, <1>2, <2>2, <3>1
  <2>3. CASE ~(toggle.attempt < Attempts)
    BY <1>1, <1>8, <2>1, <2>3 DEF AttemptFails, source
  <2> QED
    BY <2>2, <2>3
<1>9. CASE DeviceRestarts \/ LoadFails \/ PollStarts \/ ServeStatus \/ PollFails
           \/ ClickClear \/ ClearFails
  BY <1>1, <1>9 DEF DeviceRestarts, LoadFails, PollStarts, ServeStatus, PollFails,
              ClickClear, ClearFails, source, page
<1> QED
  BY <1>3, <1>4, <1>5, <1>6, <1>7, <1>8, <1>9 DEF ControlStep

LEMMA ControlKeeps == ASSUME IInv, ControlStep PROVE IInv'
<1>1. UNCHANGED Points0 /\ srcNext' \in 1 .. top + 1
  <2>1. UNCHANGED Points0 /\ (UNCHANGED srcNext \/ srcNext' = 1)
    BY DEF ControlStep, DeviceRestarts, OtherClient, LoadFails, PollStarts, ServeStatus,
           PollFails, Click, Ask, ServeToggle, ToggleDone, AttemptFails, ClickClear,
           ClearFails, Points0, source, numbering, page
  <2> QED
    BY <2>1 DEF IInv, SourceNumbers
<1>2. \A s : Snapshot(s)' <=> Snapshot(s)
  BY <1>1, SameSource DEF Points0
<1>3. /\ load'.at \in {"asked", "served", "idle"}
      /\ load'.at = "served" => Snapshot(load'.answer)
  <2>1. CASE LoadFails
    BY <2>1 DEF LoadFails, Idle, At
  <2>2. CASE UNCHANGED load
    BY <2>2 DEF IInv, DashboardTypeOK, UnderWay
  <2> QED
    BY <2>1, <2>2 DEF ControlStep, DeviceRestarts, OtherClient, PollStarts, ServeStatus,
       PollFails, Click, Ask, ServeToggle, ToggleDone, AttemptFails, ClickClear, ClearFails
<1>4. /\ poll'.at \in {"idle", "status asked", "status served",
                       "history asked", "history served"}
      /\ poll'.at = "history served" => Snapshot(poll'.answer)
      /\ poll'.at = "status served" => poll'.answer \in BOOLEAN
  <2>1. CASE ServeStatus
    BY <2>1 DEF ServeStatus, At, IInv, SourceNumbers
  <2>2. CASE PollStarts
    BY <2>2 DEF PollStarts, At
  <2>3. CASE PollFails
    BY <2>3 DEF PollFails, Idle, At
  <2>4. CASE UNCHANGED poll
    BY <2>4 DEF IInv, DashboardTypeOK, UnderWay
  <2> QED
    BY <2>1, <2>2, <2>3, <2>4 DEF ControlStep, DeviceRestarts, OtherClient, LoadFails,
       Click, Ask, ServeToggle, ToggleDone, AttemptFails, ClickClear, ClearFails
<1>5. UnderWay'
  BY <1>2, <1>3, <1>4, ToggleKeeps DEF UnderWay
<1>6. SourceNumbers'
  BY <1>1, ToggleKeeps, SourceStays DEF IInv, Points0
<1>7. ChartPoints' /\ Marks' /\ NothingSkipped'
  BY <1>1, ChartStays DEF IInv, Points0
<1>8. DashboardTypeOK'
  <2>1. toggle'.at \in {"idle", "waiting", "asked", "served", "retry"}
        /\ toggle'.attempt \in 0 .. Attempts
    BY ToggleKeeps
  <2> QED
    BY <1>1, <1>3, <1>4, <2>1 DEF IInv, DashboardTypeOK, Points0, shown
<1> QED
  BY <1>5, <1>6, <1>7, <1>8 DEF IInv

----------------------------------------------------------------------------
(* Answers.                                                                *)

LEMMA AnswerIsSnapshot ==
    ASSUME SourceNumbers, NEW answer \in Answers, LeftOut(answer),
           UNCHANGED <<srcPoints, top, late>>
    PROVE  Snapshot(answer)'
<1> DEFINE s == srcPoints
<1>1. s \in Seq(Nat) /\ DOMAIN s = 1 .. Len(s) /\ Len(s) \in Nat /\ Numbered(s)
  BY DEF SourceNumbers, Numbered
<1>2. PICK I \in Kept(s) : answer = Sieved(s, I)
  BY DEF Answers
<1>3. I \in SUBSET DOMAIN s
  BY <1>2 DEF Kept
<1> HIDE DEF s
<1>4. /\ answer \in Seq(Nat) /\ Range(answer) = {s[i] : i \in I}
      /\ \E at \in [DOMAIN answer -> I] :
           /\ \A j \in DOMAIN answer : answer[j] = s[at[j]]
           /\ \A j, k \in DOMAIN answer : j < k => at[j] < at[k]
  <2>1. /\ Sieved(s, I) \in Seq(Nat) /\ Range(Sieved(s, I)) = {s[i] : i \in I}
        /\ \E at \in [DOMAIN Sieved(s, I) -> I] :
             /\ \A j \in DOMAIN Sieved(s, I) : Sieved(s, I)[j] = s[at[j]]
             /\ \A j, k \in DOMAIN Sieved(s, I) : j < k => at[j] < at[k]
    BY <1>1, <1>3, SievedPlaces
  <2> QED
    BY <1>2, <2>1
<1>5. PICK at \in [DOMAIN answer -> I] :
           /\ \A j \in DOMAIN answer : answer[j] = s[at[j]]
           /\ \A j, k \in DOMAIN answer : j < k => at[j] < at[k]
  BY <1>4
<1>6. Numbered(answer)
  <2>1. Range(answer) \subseteq Range(s)
    BY <1>3, <1>4 DEF Range
  <2>2. ASSUME NEW i \in DOMAIN answer, NEW j \in DOMAIN answer, i < j, answer[j] \notin late
        PROVE  answer[i] < answer[j]
    <3>1. at[i] \in DOMAIN s /\ at[j] \in DOMAIN s /\ at[i] < at[j]
      BY <1>3, <1>5, <2>2
    <3>2. answer[i] = s[at[i]] /\ answer[j] = s[at[j]]
      BY <1>5, <2>2
    <3> QED
      BY <1>1, <2>2, <3>1, <3>2 DEF Numbered
  <2> QED
    BY <1>1, <1>4, <2>1, <2>2 DEF Numbered
<1>7. Numbered(answer)'
  BY <1>6 DEF Numbered
<1>8. \A n \in Range(srcPoints)' : n \in Range(answer) \union left'
  BY DEF LeftOut
<1> QED
  BY <1>7, <1>8 DEF Snapshot

LEMMA ServedKeeps == ASSUME IInv, ServeLoad \/ ServeHistory PROVE IInv'
<1>1. PICK answer \in Answers :
        /\ LeftOut(answer)
        /\ \/ load' = At("served", answer) /\ UNCHANGED poll
           \/ poll' = At("history served", answer) /\ UNCHANGED load
  BY DEF ServeLoad, ServeHistory
<1>2. /\ UNCHANGED <<srcPoints, srcNext, srcCollecting, top, late, toggle, collecting>>
      /\ UNCHANGED <<lastHistorySeq, sessionGapPending, shown, mixed, sinceLoad, taken>>
      /\ UNCHANGED <<srcPoints, top, late>> /\ left \subseteq left'
  BY <1>1 DEF ServeLoad, ServeHistory, source, numbering, page, LeftOut
<1>3. Snapshot(answer)'
  BY <1>1, <1>2, AnswerIsSnapshot DEF IInv
<1>4. \A s : Snapshot(s) => Snapshot(s)'
  BY <1>2 DEF Snapshot, Numbered
<1>5. /\ load'.at \in {"asked", "served", "idle"}
      /\ load'.at = "served" => Snapshot(load.answer)'
      /\ poll'.at \in {"idle", "status asked", "status served",
                       "history asked", "history served"}
      /\ poll'.at = "history served" => Snapshot(poll.answer)'
      /\ poll'.at = "status served" => poll'.answer \in BOOLEAN
  <2>1. CASE load' = At("served", answer) /\ UNCHANGED poll
    BY <1>3, <1>4, <2>1 DEF IInv, UnderWay, DashboardTypeOK, At
  <2>2. CASE poll' = At("history served", answer) /\ UNCHANGED load
    BY <1>3, <1>4, <2>2 DEF IInv, UnderWay, DashboardTypeOK, At
  <2> QED
    BY <1>1, <2>1, <2>2
<1>6. SourceNumbers' /\ UnderWay'
  <2>1. SourceNumbers'
    BY <1>2, SourceStays DEF IInv, SourceNumbers
  <2> QED
    BY <1>2, <1>5, <2>1 DEF IInv, UnderWay
<1>7. ChartPoints' /\ Marks' /\ NothingSkipped'
  BY <1>2, ChartStays DEF IInv
<1>8. DashboardTypeOK'
  BY <1>2, <1>5 DEF IInv, DashboardTypeOK, shown
<1> QED
  BY <1>6, <1>7, <1>8 DEF IInv

----------------------------------------------------------------------------
(* What goes on the chart.                                                 *)

LEMMA MarksPushed ==
    ASSUME chart \in Seq(Nat), Marks, UNCHANGED sinceLoad,
           NEW t \in Seq(Nat), NEW mark \in BOOLEAN, Pushed(t, mark),
           \/ mark = (sessionGapPending \/ pendingSessionBoundary) /\ sessionGapPending' = FALSE
           \/ /\ mark = pendingSessionBoundary /\ UNCHANGED sessionGapPending
              /\ Live \notin Range(t)
    PROVE  Marks'
<1> DEFINE u == chart \o t
<1>1. /\ Len(chart) \in Nat /\ Len(t) \in Nat /\ Len(u) = Len(chart) + Len(t)
      /\ DOMAIN chart = 1 .. Len(chart) /\ DOMAIN u = 1 .. Len(u)
      /\ \A i \in 1 .. Len(chart) : u[i] = chart[i]
      /\ Range(u) = Range(chart) \union Range(t)
  BY Joined
<1>2. t # <<>> => Len(t) > 0
  BY <1>1
<1>3. /\ chart' = u
      /\ sessionBoundary' = IF mark /\ t # <<>> THEN Len(chart) + 1 ELSE sessionBoundary
      /\ pendingSessionBoundary' = (mark /\ t = <<>>)
  BY DEF Pushed
<1> HIDE DEF u
<1>4. {sessionGapPending, pendingSessionBoundary}' \subseteq BOOLEAN
  BY <1>3 DEF Marks
<1>5. ASSUME sinceLoad, sessionGapPending' \/ pendingSessionBoundary'
      PROVE  Live \notin Range(chart)'
  <2>1. CASE t = <<>>
    BY <1>1, <1>3, <1>5, <2>1, EmptyRange DEF Marks
  <2>2. CASE t # <<>>
    <3>1. sessionGapPending /\ Live \notin Range(t)
      BY <1>3, <1>5, <2>2
    <3> QED
      BY <1>1, <1>3, <1>5, <3>1 DEF Marks
  <2> QED
    BY <2>1, <2>2
<1>6. ASSUME sinceLoad, ~sessionGapPending', ~pendingSessionBoundary'
      PROVE  /\ sessionBoundary' \in 1 .. Len(chart')
             /\ \A i \in DOMAIN chart' : chart'[i] = Live => sessionBoundary' <= i
  <2>1. CASE mark
    <3>1. t # <<>> /\ sessionBoundary' = Len(chart) + 1 /\ Len(t) > 0
      BY <1>2, <1>3, <1>6, <2>1
    <3>2. Live \notin Range(chart)
      BY <1>6, <2>1 DEF Marks
    <3>3. \A i \in 1 .. Len(chart) : u[i] # Live
      BY <1>1, <3>2 DEF Range
    <3> QED
      BY <1>1, <1>3, <3>1, <3>3
  <2>2. CASE ~mark
    <3>1. ~sessionGapPending /\ ~pendingSessionBoundary /\ UNCHANGED sessionBoundary
      BY <1>3, <1>6, <2>2 DEF Marks
    <3>2. /\ sessionBoundary \in 1 .. Len(chart)
          /\ \A i \in DOMAIN chart : chart[i] = Live => sessionBoundary <= i
      BY <1>6, <3>1 DEF Marks
    <3>3. ASSUME NEW i \in 1 .. Len(u), u[i] = Live PROVE sessionBoundary <= i
      <4>1. CASE i <= Len(chart)
        <5>1. i \in DOMAIN chart /\ chart[i] = Live
          BY <1>1, <3>3, <4>1
        <5> QED
          BY <3>2, <5>1
      <4>2. CASE i > Len(chart)
        BY <1>1, <3>2, <4>2
      <4> QED
        BY <1>1, <4>1, <4>2
    <3>4. sessionBoundary \in 1 .. Len(u)
      BY <1>1, <3>2
    <3> QED
      BY <1>1, <1>3, <3>1, <3>3, <3>4
  <2> QED
    BY <2>1, <2>2
<1> QED
  BY <1>4, <1>5, <1>6 DEF Marks

LEMMA StatusKeeps == ASSUME IInv, StatusApplied PROVE IInv'
<1>1. /\ UNCHANGED <<srcPoints, srcNext, srcCollecting, top, late, toggle, load>>
      /\ UNCHANGED <<lastHistorySeq, mixed, sinceLoad, taken, left>>
      /\ collecting' \in BOOLEAN
      /\ poll'.at \in {"idle", "history asked"}
  <2>1. UNCHANGED <<srcPoints, srcNext, srcCollecting, top, late, toggle, load,
                    lastHistorySeq, mixed, sinceLoad, taken, left>>
    BY DEF StatusApplied, source, numbering
  <2>2. collecting' \in BOOLEAN
    BY DEF StatusApplied, IInv, UnderWay
  <2>3. poll' = At("idle", None) \/ poll' = At("history asked", None)
    BY DEF StatusApplied, Idle
  <2>4. CASE poll' = At("idle", None)
    BY <2>1, <2>2, <2>4 DEF At
  <2>5. CASE poll' = At("history asked", None)
    BY <2>1, <2>2, <2>5 DEF At
  <2> QED
    BY <2>3, <2>4, <2>5
<1>2. \A s : Snapshot(s)' <=> Snapshot(s)
  BY <1>1, SameSource
<1>3. UnderWay' /\ SourceNumbers'
  <2>1. SourceNumbers'
    BY <1>1, SourceStays DEF IInv, SourceNumbers
  <2> QED
    BY <1>1, <1>2, <2>1 DEF IInv, UnderWay
<1>4. ChartPoints' /\ Marks' /\ NothingSkipped' /\ Range(chart)' \subseteq 0 .. MaxSeq
  <2>1. CASE UNCHANGED <<sessionGapPending, shown>>
    BY <1>1, <2>1, ChartStays DEF IInv, ChartPoints
  <2>2. CASE /\ sessionGapPending' = FALSE
             /\ \E t \in {<<>>, <<Live>>} :
                   Pushed(t, sessionGapPending \/ pendingSessionBoundary)
    <3> DEFINE mark == sessionGapPending \/ pendingSessionBoundary
    <3>1. PICK t \in {<<>>, <<Live>>} : Pushed(t, mark)
      BY <2>2
    <3>2. mark \in BOOLEAN /\ chart \in Seq(Nat) /\ chart' = chart \o t
      BY <3>1 DEF IInv, Marks, ChartPoints, Pushed
    <3>3. t \in Seq(Nat) /\ Range(t) \subseteq {Live} /\ Live = 0
      BY EmptyRange, OneElement DEF Live
    <3>4. Marks'
      <4> HIDE DEF mark
      <4>1. mark = (sessionGapPending \/ pendingSessionBoundary)
        BY DEF mark
      <4> QED
        BY <1>1, <2>2, <3>1, <3>2, <3>3, <4>1, MarksPushed DEF IInv
    <3>5. Range(chart)' = Range(chart) \union Range(t) /\ chart' \in Seq(Nat)
      BY <3>2, <3>3, Joined
    <3>6. InOrder(chart) => InOrder(chart)'
      <4>1. InOrder(t)
        BY <3>3 DEF InOrder, Range
      <4> QED
        BY <3>2, <3>3, <4>1, OrderJoined DEF InOrder
    <3>7. Range(chart)' \subseteq 0 .. MaxSeq /\ MaxSeq \in Nat
      BY <3>3, <3>5, SeqAssumption DEF IInv, ChartPoints
    <3>8. ChartPoints'
      <4>1. lastHistorySeq \in Nat /\ UNCHANGED <<lastHistorySeq, mixed, top>>
        <5>1. top \in Nat /\ lastHistorySeq \in 0 .. top
          BY DEF IInv, ChartPoints, SourceNumbers
        <5>2. lastHistorySeq \in Nat
          BY <5>1
        <5>3. UNCHANGED <<lastHistorySeq, mixed, top>>
          BY <1>1
        <5> QED
          BY <5>2, <5>3
      <4>2. ~mixed => \A n \in Range(chart)' : n <= lastHistorySeq
        BY <3>3, <3>5, <4>1 DEF IInv, ChartPoints
      <4>3. ~mixed => InOrder(chart)'
        BY <3>6 DEF IInv, ChartPoints
      <4> QED
        BY <3>5, <3>7, <4>1, <4>2, <4>3 DEF IInv, ChartPoints
    <3>9. NothingSkipped'
      BY <1>1, <3>5 DEF IInv, NothingSkipped, OnChart
    <3> QED
      BY <3>4, <3>7, <3>8, <3>9
  <2> QED
    BY <2>1, <2>2 DEF StatusApplied
<1>5. DashboardTypeOK'
  BY <1>1, <1>4 DEF IInv, DashboardTypeOK
<1> QED
  BY <1>3, <1>4, <1>5 DEF IInv

LEMMA MergeKeeps == ASSUME IInv, MergeApplied PROVE IInv'
<1> DEFINE new == New(poll.answer)
<1>1. Pushed(new, pendingSessionBoundary)
  BY DEF MergeApplied
<1>2. lastHistorySeq' = IF new = <<>> THEN lastHistorySeq ELSE Last(new)
  BY DEF MergeApplied
<1>3. UNCHANGED <<srcPoints, srcNext, srcCollecting, top, late, toggle, load,
                  collecting, sessionGapPending, mixed, sinceLoad, taken, left>>
      /\ poll' = At("idle", None)
  BY DEF MergeApplied, source, numbering, Idle
<1>4. Snapshot(poll.answer)
  BY DEF IInv, UnderWay, MergeApplied
<1>5. /\ Rising(new)
      /\ Range(new) \subseteq {n \in Range(poll.answer) : n > lastHistorySeq}
      /\ \A n \in Range(poll.answer) : n > lastHistorySeq /\ n \notin late => n \in Range(new)
  BY <1>4, NewPoints DEF Snapshot
<1> HIDE DEF new
<1>6. /\ top \in Nat /\ MaxSeq \in Nat /\ top <= MaxSeq /\ lastHistorySeq \in 0 .. top
      /\ chart \in Seq(Nat) /\ Live = 0 /\ new \in Seq(Nat)
  BY <1>5, SeqAssumption DEF IInv, SourceNumbers, ChartPoints, Live, Rising
<1>7. Range(new) \subseteq 1 .. top /\ Live \notin Range(new)
  BY <1>4, <1>5, <1>6 DEF Snapshot, Numbered
<1>8. new # <<>> => Last(new) \in Range(new) /\ \A n \in Range(new) : n <= Last(new)
  BY <1>5, LastIsGreatest
<1>9. chart' = chart \o new /\ chart' \in Seq(Nat)
      /\ Range(chart)' = Range(chart) \union Range(new)
  BY <1>1, <1>6, Joined DEF Pushed
<1>10. /\ lastHistorySeq' \in 0 .. top /\ lastHistorySeq' >= lastHistorySeq
       /\ \A n \in Range(new) : n <= lastHistorySeq'
  <2>1. CASE new = <<>>
    BY <1>2, <1>6, <2>1, EmptyRange
  <2>2. CASE new # <<>>
    <3>1. Last(new) \in 1 .. top /\ Last(new) > lastHistorySeq
      BY <1>5, <1>7, <1>8, <2>2
    <3> QED
      BY <1>2, <1>6, <1>8, <2>2, <3>1
  <2> QED
    BY <2>1, <2>2
<1>11. Marks'
  <2>1. pendingSessionBoundary \in BOOLEAN /\ Marks
    BY DEF IInv, Marks
  <2> QED
    BY <1>1, <1>3, <1>6, <1>7, <2>1, MarksPushed
<1>12. Range(chart)' \subseteq 0 .. MaxSeq
  BY <1>6, <1>7, <1>9 DEF IInv, ChartPoints
<1>13. ChartPoints'
  <2>1. InOrder(new)
    BY <1>5 DEF InOrder, Rising
  <2>2. ~mixed => InOrder(chart \o new)
    <3>1. ~mixed => InOrder(chart) /\ \A m \in Range(chart), n \in Range(new) : m < n
      <4>1. \A n \in Range(new) : n \in Nat /\ n > lastHistorySeq
        BY <1>5, <1>7
      <4>2. ~mixed => InOrder(chart) /\ \A m \in Range(chart) : m \in Nat /\ m <= lastHistorySeq
        BY <1>12 DEF IInv, ChartPoints
      <4> QED
        BY <1>6, <4>1, <4>2
    <3> QED
      BY <1>6, <2>1, <3>1, OrderJoined
  <2>3. ~mixed => InOrder(chart)'
    BY <1>9, <2>2 DEF InOrder
  <2>4. ~mixed => \A n \in Range(chart)' : n <= lastHistorySeq'
    <3>1. ~mixed => \A n \in Range(chart) : n \in Nat /\ n <= lastHistorySeq
      BY DEF IInv, ChartPoints
    <3>2. lastHistorySeq \in Nat /\ lastHistorySeq' \in Nat
      BY <1>6, <1>10
    <3> QED
      BY <1>9, <1>10, <3>1, <3>2
  <2>5. UNCHANGED <<mixed, top>>
    BY <1>3
  <2> QED
    BY <1>9, <1>10, <1>12, <2>3, <2>4, <2>5 DEF ChartPoints
<1>14. NothingSkipped'
  <2> SUFFICES ASSUME NEW n \in Range(srcPoints)', n <= lastHistorySeq', n \notin late'
               PROVE  n \in (OnChart \union left \union taken)'
    BY DEF NothingSkipped
  <2>1. n \in Range(srcPoints) /\ n \notin late /\ n \in 1 .. top
    BY <1>3 DEF IInv, SourceNumbers, Numbered
  <2>2. OnChart' = OnChart \union Range(new)
    BY <1>7, <1>9 DEF OnChart
  <2>3. CASE n <= lastHistorySeq
    BY <1>3, <2>1, <2>2, <2>3 DEF IInv, NothingSkipped
  <2>4. CASE n > lastHistorySeq
    <3>1. new # <<>>
      BY <1>2, <1>6, <2>1, <2>4
    <3>2. lastHistorySeq' \in Range(poll.answer)
      BY <1>2, <1>5, <1>8, <3>1
    <3>3. n \in Range(poll.answer) \union left
      BY <1>4, <2>1, <3>2 DEF Snapshot
    <3> QED
      BY <1>3, <1>5, <2>1, <2>2, <2>4, <3>3
  <2> QED
    BY <1>6, <2>1, <2>3, <2>4
<1>15. UnderWay' /\ SourceNumbers'
  <2>1. SourceNumbers'
    BY <1>3, SourceStays DEF IInv, SourceNumbers
  <2>2. \A s : Snapshot(s)' <=> Snapshot(s)
    BY <1>3, SameSource
  <2>3. poll'.at = "idle"
    BY <1>3 DEF At
  <2>4. load.at = "served" => Snapshot(load.answer)'
    BY <1>3, <2>2 DEF IInv, UnderWay
  <2> QED
    BY <1>3, <2>1, <2>3, <2>4 DEF IInv, UnderWay
<1>16. DashboardTypeOK'
  <2>1. poll'.at = "idle"
    BY <1>3 DEF At
  <2>2. lastHistorySeq' \in 0 .. MaxSeq
    BY <1>6, <1>10
  <2> QED
    BY <1>3, <1>12, <2>1, <2>2 DEF IInv, DashboardTypeOK
<1> QED
  BY <1>11, <1>13, <1>14, <1>15, <1>16 DEF IInv

LEMMA LoadKeeps == ASSUME IInv, LoadApplied PROVE IInv'
<1> DEFINE s == load.answer
<1>1. /\ chart' = s /\ sessionGapPending' = TRUE /\ load' = At("idle", None)
      /\ lastHistorySeq' = IF s = <<>> THEN lastHistorySeq ELSE Last(s)
      /\ mixed' = ~Rises(s) /\ sinceLoad' = TRUE
      /\ taken' = IF s = <<>> THEN taken \union OnChart ELSE taken
  BY DEF LoadApplied, Loaded, Idle
<1>2. UNCHANGED <<srcPoints, srcNext, srcCollecting, top, late, toggle, poll,
                  collecting, sessionBoundary, pendingSessionBoundary, left>>
  BY DEF LoadApplied, source, numbering
<1>3. Snapshot(s)
  BY DEF IInv, UnderWay, LoadApplied
<1> HIDE DEF s
<1>4. /\ top \in Nat /\ MaxSeq \in Nat /\ top <= MaxSeq /\ lastHistorySeq \in 0 .. top
      /\ s \in Seq(Nat) /\ Range(s) \subseteq 1 .. top /\ Live \notin Range(s)
  BY <1>3, SeqAssumption DEF IInv, SourceNumbers, ChartPoints, Live, Snapshot, Numbered
<1>5. s # <<>> => Last(s) \in Range(s)
  BY <1>4, RangeIn
<1>6. lastHistorySeq' \in 0 .. top
  BY <1>1, <1>4, <1>5
<1>7. Rises(s) => Rising(s)
  BY <1>4 DEF Rises, Rising
<1>8. ChartPoints'
  <2>1. Range(chart)' \subseteq 0 .. MaxSeq /\ chart' \in Seq(Nat)
    BY <1>1, <1>4
  <2>2. Rises(s) => InOrder(s)
    BY DEF Rises, InOrder
  <2>3. Rises(s) => InOrder(chart)'
    BY <1>1, <2>2 DEF InOrder
  <2>4. Rises(s) => \A n \in Range(s) : n <= lastHistorySeq'
    BY <1>1, <1>7, EmptyRange, LastIsGreatest
  <2>5. UNCHANGED top
    BY <1>2
  <2> QED
    BY <1>1, <1>6, <2>1, <2>3, <2>4, <2>5 DEF ChartPoints
<1>9. Marks'
  <2>1. Live \notin Range(chart)' /\ sessionGapPending' = TRUE
    BY <1>1, <1>4
  <2>2. {sessionGapPending, pendingSessionBoundary}' \subseteq BOOLEAN
    BY <1>1, <1>2 DEF IInv, Marks
  <2> QED
    BY <2>1, <2>2 DEF Marks
<1>10. NothingSkipped'
  <2> SUFFICES ASSUME NEW n \in Range(srcPoints)', n <= lastHistorySeq', n \notin late'
               PROVE  n \in (OnChart \union left \union taken)'
    BY DEF NothingSkipped
  <2>1. n \in Range(srcPoints) /\ n \notin late /\ n \in 1 .. top
    BY <1>2 DEF IInv, SourceNumbers, Numbered
  <2>2. CASE s = <<>>
    BY <1>1, <1>2, <2>1, <2>2 DEF IInv, NothingSkipped
  <2>3. CASE s # <<>>
    <3>1. lastHistorySeq' \in Range(s)
      BY <1>1, <1>5, <2>3
    <3>2. n \in Range(s) \union left
      BY <1>3, <2>1, <3>1 DEF Snapshot
    <3> QED
      BY <1>1, <1>2, <1>4, <2>3, <3>2 DEF OnChart
  <2> QED
    BY <2>2, <2>3
<1>11. UnderWay' /\ SourceNumbers'
  <2>1. SourceNumbers'
    BY <1>2, SourceStays DEF IInv, SourceNumbers
  <2>2. \A t : Snapshot(t)' <=> Snapshot(t)
    BY <1>2, SameSource
  <2>3. load'.at = "idle"
    BY <1>1 DEF At
  <2>4. poll.at = "history served" => Snapshot(poll.answer)'
    BY <1>2, <2>2 DEF IInv, UnderWay
  <2> QED
    BY <1>2, <2>1, <2>3, <2>4 DEF IInv, UnderWay
<1>12. DashboardTypeOK'
  <2>1. load'.at = "idle"
    BY <1>1 DEF At
  <2>2. lastHistorySeq' \in 0 .. MaxSeq
    BY <1>4, <1>6
  <2> QED
    BY <1>2, <1>8, <2>1, <2>2 DEF IInv, DashboardTypeOK, ChartPoints
<1> QED
  BY <1>8, <1>9, <1>10, <1>11, <1>12 DEF IInv

----------------------------------------------------------------------------
(* Points that come and go at the source, and a clear.                     *)

LEMMA NumbersChange ==
    ASSUME IInv, SourceNumbers', top <= top', late \subseteq late',
           UNCHANGED <<page, load, poll, toggle, left, taken>>,
           \A n \in Range(srcPoints)' :
               n \in Range(srcPoints) \/ n \in late' \/ n > top
    PROVE  IInv'
<1>1. top \in Nat /\ top' \in Nat /\ lastHistorySeq \in 0 .. top /\ left \subseteq left'
  BY SeqAssumption DEF IInv, SourceNumbers, ChartPoints
<1>2. UNCHANGED <<collecting, lastHistorySeq, sessionGapPending, chart, sessionBoundary,
                  pendingSessionBoundary, mixed, sinceLoad>>
  BY DEF page, shown
<1>3. \A s : Snapshot(s) => Snapshot(s)'
  BY <1>1, SnapshotStays
<1>4. UnderWay'
  <2>1. load.at = "served" => Snapshot(load.answer)'
    BY <1>3 DEF IInv, UnderWay
  <2>2. poll.at = "history served" => Snapshot(poll.answer)'
    BY <1>3 DEF IInv, UnderWay
  <2> QED
    BY <1>2, <2>1, <2>2 DEF IInv, UnderWay
<1>5. ChartPoints'
  <2>1. lastHistorySeq \in 0 .. top'
    BY <1>1
  <2> QED
    BY <1>2, <2>1 DEF IInv, ChartPoints, InOrder
<1>6. Marks'
  BY <1>2 DEF IInv, Marks
<1>7. NothingSkipped'
  <2> SUFFICES ASSUME NEW n \in Range(srcPoints)', n <= lastHistorySeq', n \notin late'
               PROVE  n \in (OnChart \union left \union taken)'
    BY DEF NothingSkipped
  <2>1. n \in 1 .. top'
    BY DEF SourceNumbers, Numbered
  <2>2. ~(n > top)
    BY <1>1, <1>2, <2>1
  <2>3. n \in Range(srcPoints) /\ n \notin late
    BY <2>2
  <2> QED
    BY <1>2, <2>3 DEF IInv, NothingSkipped, OnChart
<1>8. DashboardTypeOK'
  BY <1>2 DEF IInv, DashboardTypeOK
<1> QED
  BY <1>4, <1>5, <1>6, <1>7, <1>8 DEF IInv

LEMMA PointComes ==
    ASSUME IInv, NEW p \in 1 .. top', srcPoints' = Append(srcPoints, p),
           p \in late' \/ p > top, late \subseteq late', top <= top', top' \in 0 .. MaxSeq,
           srcNext' \in 1 .. top' + 1,
           UNCHANGED <<srcCollecting, page, load, poll, toggle, left, taken>>
    PROVE  IInv'
<1> DEFINE s == srcPoints
           t == <<p>>
<1>1. srcPoints' = Append(s, p) /\ UNCHANGED srcCollecting
  OBVIOUS
<1>2. /\ top \in Nat /\ MaxSeq \in Nat /\ top' \in Nat
      /\ s \in Seq(Nat) /\ Range(s) \subseteq 1 .. top /\ p \in Nat
      /\ \A i, j \in DOMAIN s : i < j /\ s[j] \notin late => s[i] < s[j]
      /\ srcCollecting \in BOOLEAN
  BY SeqAssumption DEF IInv, SourceNumbers, Numbered
<1> HIDE DEF s
<1>3. /\ top <= top' /\ late \subseteq late' /\ top' \in 0 .. MaxSeq
      /\ srcNext' \in 1 .. top' + 1 /\ p \in 1 .. top'
      /\ p \in late' \/ p > top
  OBVIOUS
<1>4. t \in Seq(Nat) /\ Len(t) = 1 /\ t[1] = p /\ Range(t) = {p}
  BY <1>2, OneElement
<1>5. Append(s, p) = s \o t
  BY <1>2
<1> HIDE DEF t
<1> DEFINE u == s \o t
<1>6. /\ u \in Seq(Nat) /\ Len(u) = Len(s) + 1 /\ Len(s) \in Nat
      /\ DOMAIN s = 1 .. Len(s) /\ DOMAIN u = 1 .. Len(s) + 1
      /\ \A i \in 1 .. Len(s) : u[i] = s[i]
      /\ u[Len(s) + 1] = p
      /\ Range(u) = Range(s) \union {p}
  <2>1. /\ u \in Seq(Nat) /\ Len(u) = Len(s) + Len(t) /\ Len(s) \in Nat
        /\ DOMAIN s = 1 .. Len(s) /\ DOMAIN u = 1 .. Len(s) + Len(t)
        /\ \A i \in 1 .. Len(s) : u[i] = s[i]
        /\ \A i \in Len(s) + 1 .. Len(s) + Len(t) :
              i - Len(s) \in 1 .. Len(t) /\ u[i] = t[i - Len(s)]
        /\ Range(u) = Range(s) \union Range(t)
    BY <1>2, <1>4, Joined
  <2> HIDE DEF u
  <2>2. Len(s) + 1 \in Len(s) + 1 .. Len(s) + Len(t) /\ (Len(s) + 1) - Len(s) = 1
    BY <1>4, <2>1
  <2>3. u[Len(s) + 1] = p
    BY <1>4, <2>1, <2>2
  <2> QED
    BY <1>4, <2>1, <2>3
<1> HIDE DEF u
<1>7. srcPoints' = u
  BY <1>1, <1>5 DEF u
<1>8. Numbered(srcPoints)'
  <2>1. ASSUME NEW i \in DOMAIN u, NEW j \in DOMAIN u, i < j, u[j] \notin late'
        PROVE  u[i] < u[j]
    <3>1. CASE j <= Len(s)
      <4>1. i \in DOMAIN s /\ j \in DOMAIN s /\ u[i] = s[i] /\ u[j] = s[j]
        BY <1>6, <2>1, <3>1
      <4>2. s[j] \notin late
        BY <1>3, <2>1, <4>1
      <4> QED
        BY <1>2, <2>1, <4>1, <4>2
    <3>2. CASE j = Len(s) + 1
      <4>1. i \in DOMAIN s /\ u[i] = s[i] /\ u[j] = p
        BY <1>6, <2>1, <3>2
      <4>2. s[i] \in 1 .. top
        BY <1>2, <4>1 DEF Range
      <4>3. p > top
        BY <1>3, <2>1, <4>1
      <4> QED
        BY <1>2, <4>1, <4>2, <4>3
    <3> QED
      BY <1>6, <3>1, <3>2
  <2>2. Range(u) \subseteq 1 .. top'
    BY <1>2, <1>3, <1>6
  <2> QED
    BY <1>6, <1>7, <2>1, <2>2 DEF Numbered
<1>9. SourceNumbers'
  BY <1>1, <1>2, <1>3, <1>8 DEF SourceNumbers
<1>10. \A n \in Range(srcPoints)' : n \in Range(s) \/ n \in late' \/ n > top
  BY <1>3, <1>6, <1>7
<1> QED
  BY <1>1, <1>3, <1>9, <1>10, NumbersChange DEF s

LEMMA SampleKeeps == ASSUME IInv, Sample PROVE IInv'
<1>1. /\ srcPoints' = Append(srcPoints, srcNext) /\ srcNext' = srcNext + 1
      /\ srcNext <= MaxSeq
      /\ IF srcNext > top THEN top' = srcNext /\ UNCHANGED late
         ELSE late' = late \union {srcNext} /\ UNCHANGED top
      /\ UNCHANGED <<srcCollecting, page, load, poll, toggle, left, taken>>
  BY DEF Sample
<1>2. top \in Nat /\ MaxSeq \in Nat /\ top <= MaxSeq /\ srcNext \in 1 .. top + 1
  BY SeqAssumption DEF IInv, SourceNumbers
<1>3. /\ top <= top' /\ late \subseteq late' /\ top' \in 0 .. MaxSeq
      /\ srcNext' \in 1 .. top' + 1 /\ srcNext \in 1 .. top'
      /\ srcNext \in late' \/ srcNext > top
  <2>1. CASE srcNext > top
    BY <1>1, <1>2, <2>1
  <2>2. CASE ~(srcNext > top)
    BY <1>1, <1>2, <2>2
  <2> QED
    BY <2>1, <2>2
<1> QED
  BY <1>1, <1>3, PointComes

LEMMA LateKeeps == ASSUME IInv, LatePacket PROVE IInv'
<1>1. PICK n \in 1 .. (srcNext - 1) :
        /\ srcPoints' = Append(srcPoints, n) /\ late' = late \union {n}
        /\ UNCHANGED <<srcNext, top>>
        /\ UNCHANGED <<srcCollecting, page, load, poll, toggle, left, taken>>
  BY DEF LatePacket
<1>2. top \in Nat /\ top \in 0 .. MaxSeq /\ srcNext \in 1 .. top + 1
  BY SeqAssumption DEF IInv, SourceNumbers
<1>3. /\ n \in 1 .. top' /\ n \in late' /\ late \subseteq late' /\ top <= top'
      /\ top' \in 0 .. MaxSeq /\ srcNext' \in 1 .. top' + 1
  BY <1>1, <1>2
<1> QED
  BY <1>1, <1>3, PointComes

LEMMA ForgetKeeps == ASSUME IInv, Forget PROVE IInv'
<1> DEFINE s == srcPoints
           t == Tail(s)
<1>1. /\ s # <<>> /\ srcPoints' = t
      /\ UNCHANGED <<srcCollecting, srcNext, top, late>>
      /\ UNCHANGED <<page, load, poll, toggle, left, taken>>
  BY DEF Forget
<1>2. /\ top \in Nat /\ s \in Seq(Nat) /\ Range(s) \subseteq 1 .. top
      /\ \A i, j \in DOMAIN s : i < j /\ s[j] \notin late => s[i] < s[j]
  BY SeqAssumption DEF IInv, SourceNumbers, Numbered
<1>3. /\ t \in Seq(Nat) /\ Len(s) \in Nat /\ DOMAIN s = 1 .. Len(s)
      /\ DOMAIN t = 1 .. Len(s) - 1
      /\ \A i \in 1 .. Len(s) - 1 : i + 1 \in DOMAIN s /\ t[i] = s[i + 1]
  BY <1>1, <1>2
<1> HIDE DEF t
<1>4. Range(t) \subseteq Range(s)
  BY <1>3 DEF Range
<1>5. ASSUME NEW i \in DOMAIN t, NEW j \in DOMAIN t, i < j, t[j] \notin late
      PROVE  t[i] < t[j]
  <2>1. /\ i + 1 \in DOMAIN s /\ t[i] = s[i + 1] /\ j + 1 \in DOMAIN s /\ t[j] = s[j + 1]
        /\ i + 1 < j + 1
    BY <1>3, <1>5
  <2> QED
    BY <1>2, <1>5, <2>1
<1>6. Numbered(t)
  BY <1>2, <1>3, <1>4, <1>5 DEF Numbered
<1>7. Numbered(srcPoints)'
  BY <1>1, <1>6 DEF Numbered
<1>8. SourceNumbers'
  BY <1>1, <1>7 DEF IInv, SourceNumbers
<1>9. top <= top' /\ late \subseteq late'
  BY <1>1, <1>2
<1>10. \A n \in Range(srcPoints)' : n \in Range(srcPoints) \/ n \in late' \/ n > top
  BY <1>1, <1>4
<1> QED
  BY <1>1, <1>8, <1>9, <1>10, NumbersChange

LEMMA ClearServedKeeps == ASSUME IInv, ServeClear PROVE IInv'
<1>1. /\ srcPoints' = <<>> /\ (srcNext' = 1 \/ UNCHANGED srcNext)
      /\ UNCHANGED <<srcCollecting, top, late>>
      /\ UNCHANGED <<page, load, poll, toggle, left, taken>>
  BY DEF ServeClear
<1>2. top \in Nat /\ srcNext \in 1 .. top + 1
  BY SeqAssumption DEF IInv, SourceNumbers
<1>3. Range(srcPoints)' = {} /\ srcPoints' \in Seq(Nat) /\ DOMAIN srcPoints' = {}
  BY <1>1, EmptyRange
<1>4. Numbered(srcPoints)'
  BY <1>3 DEF Numbered
<1>5. SourceNumbers'
  BY <1>1, <1>2, <1>4 DEF IInv, SourceNumbers
<1>6. top <= top' /\ late \subseteq late'
  BY <1>1, <1>2
<1> QED
  BY <1>1, <1>3, <1>5, <1>6, NumbersChange

LEMMA ClearAppliedKeeps == ASSUME IInv, ClearApplied PROVE IInv'
<1>1. /\ chart' = <<>> /\ taken' = taken \union OnChart
      /\ mixed' = FALSE /\ sinceLoad' = FALSE
      /\ UNCHANGED <<srcPoints, srcNext, srcCollecting, top, late>>
      /\ UNCHANGED <<load, poll, toggle, left>>
      /\ UNCHANGED <<collecting, lastHistorySeq, sessionGapPending, pendingSessionBoundary>>
  BY DEF ClearApplied, source, numbering
<1>2. Range(chart)' = {} /\ chart' \in Seq(Nat) /\ DOMAIN chart' = {}
  BY <1>1, EmptyRange
<1>3. SourceNumbers'
  BY <1>1, SourceStays DEF IInv, SourceNumbers
<1>4. UnderWay'
  <2>1. \A s : Snapshot(s)' <=> Snapshot(s)
    BY <1>1, SameSource
  <2>2. load.at = "served" => Snapshot(load.answer)'
    BY <1>1, <2>1 DEF IInv, UnderWay
  <2>3. poll.at = "history served" => Snapshot(poll.answer)'
    BY <1>1, <2>1 DEF IInv, UnderWay
  <2> QED
    BY <1>1, <2>2, <2>3 DEF IInv, UnderWay
<1>5. ChartPoints'
  BY <1>1, <1>2 DEF IInv, ChartPoints, InOrder
<1>6. Marks'
  BY <1>1 DEF IInv, Marks
<1>7. NothingSkipped'
  BY <1>1 DEF IInv, NothingSkipped
<1>8. DashboardTypeOK'
  BY <1>1, <1>2 DEF IInv, DashboardTypeOK
<1> QED
  BY <1>3, <1>4, <1>5, <1>6, <1>7, <1>8 DEF IInv

LEMMA StutterKeeps == ASSUME IInv, UNCHANGED vars PROVE IInv'
<1>1. /\ UNCHANGED <<srcPoints, srcNext, srcCollecting, top, late>>
      /\ UNCHANGED <<page, load, poll, toggle, left, taken>>
  BY DEF vars, source, numbering
<1>2. SourceNumbers'
  BY <1>1, SourceStays DEF IInv, SourceNumbers
<1>3. top <= top' /\ late \subseteq late'
  BY <1>1, SeqAssumption DEF IInv, SourceNumbers
<1> QED
  BY <1>1, <1>2, <1>3, NumbersChange

LEMMA NextKeeps == IInv /\ [Next]_vars => IInv'
<1> SUFFICES ASSUME IInv, [Next]_vars PROVE IInv'
  OBVIOUS
<1>1. CASE Sample
  BY <1>1, SampleKeeps
<1>2. CASE Forget \/ LatePacket
  BY <1>2, ForgetKeeps, LateKeeps
<1>3. CASE ServeLoad \/ ServeHistory
  BY <1>3, ServedKeeps
<1>4. CASE LoadApplied
  BY <1>4, LoadKeeps
<1>5. CASE StatusApplied
  BY <1>5, StatusKeeps
<1>6. CASE MergeApplied
  BY <1>6, MergeKeeps
<1>7. CASE ServeClear
  BY <1>7, ClearServedKeeps
<1>8. CASE ClearApplied
  BY <1>8, ClearAppliedKeeps
<1>9. CASE ControlStep
  BY <1>9, ControlKeeps
<1>10. CASE UNCHANGED vars
  BY <1>10, StutterKeeps
<1> QED
  BY <1>1, <1>2, <1>3, <1>4, <1>5, <1>6, <1>7, <1>8, <1>9, <1>10 DEF Next, ControlStep

LEMMA Inductive == Spec => []IInv
<1> QED
  BY InitHolds, NextKeeps, PTL DEF Spec

(* With any number of points and of things that happen, and whatever an    *)
(* answer has room for, the points of the history are on the chart in the  *)
(* order of their numbers and once each, live samples between them or not, *)
(* unless what was loaded goes back itself (dashboard.ts 79-109, 121-132). *)
THEOREM DashboardChart == Spec => []ChartInv
<1>1. IInv => ChartInv
  BY DEF IInv, ChartPoints, InOrder, ChartInv, PointsOnceInOrder
<1> QED
  BY <1>1, Inductive, PTL

(* From the load until a clear no live sample is on the chart before the   *)
(* mark of the session (dashboard.ts 209-213, charts.ts 145-156).          *)
THEOREM DashboardBoundary == Spec => []LiveAfterBoundary
<1>1. IInv => LiveAfterBoundary
  <2> SUFFICES ASSUME IInv, sinceLoad, NEW i \in DOMAIN chart, chart[i] = Live
               PROVE  sessionBoundary \in 1 .. i
    BY DEF LiveAfterBoundary
  <2>1. chart[i] \in Range(chart) /\ DOMAIN chart = 1 .. Len(chart) /\ Len(chart) \in Nat
    BY RangeIn DEF IInv, ChartPoints
  <2>2. /\ sessionBoundary \in 1 .. Len(chart)
        /\ \A j \in DOMAIN chart : chart[j] = Live => sessionBoundary <= j
    BY <2>1 DEF IInv, Marks
  <2> QED
    BY <2>1, <2>2
<1> QED
  BY <1>1, Inductive, PTL

(* With any number of points, whatever an answer has room for and however  *)
(* often the numbers go back: up to the last point merged, every one that  *)
(* the source still has and that came after no greater number is on the    *)
(* chart, was left out of an answer, or was taken off again (dashboard.ts  *)
(* 93, 126-130).                                                           *)
THEOREM DashboardNothingSkipped == Spec => []NothingSkipped
<1>1. IInv => NothingSkipped
  BY DEF IInv
<1> QED
  BY <1>1, Inductive, PTL

----------------------------------------------------------------------------
(* Algorithms: what they are applied to stays.                             *)

LEMMA InputStays == AlgorithmsSpec => [](input \in Inputs)
<1>1. input \in Inputs /\ [AlgorithmsNext]_input => (input \in Inputs)'
  BY DEF AlgorithmsNext
<1> QED
  BY <1>1, PTL DEF AlgorithmsSpec, AlgorithmsInit

LEMMA MinOfTwo ==
    ASSUME NEW a \in Nat, NEW b \in Nat
    PROVE  Min({a, b}) = IF a <= b THEN a ELSE b
<1> DEFINE m == IF a <= b THEN a ELSE b
<1>1. {a, b} \in SUBSET Nat /\ m \in {a, b} /\ \A k \in {a, b} : m <= k
  OBVIOUS
<1>2. PICK x \in {a, b} : x = Min({a, b}) /\ \A k \in {a, b} : x <= k
  BY <1>1 DEF Min
<1> QED
  BY <1>1, <1>2

----------------------------------------------------------------------------
(* Downsampling and gap marks.                                             *)

LEMMA NextBlock ==
    ASSUME NEW x \in Nat, NEW d \in Nat, NEW b \in Nat \ {0}, d >= b
    PROVE  (x + d) \div b >= x \div b + 1
<1>1. (x + b) \div b = x \div b + 1
  OBVIOUS
<1>2. (x + b) \div b <= (x + d) \div b
  OBVIOUS
<1>3. x \div b \in Int /\ (x + d) \div b \in Int
  OBVIOUS
<1> QED
  BY <1>1, <1>2, <1>3

(* No bucket is empty: between the first and the last point they share the *)
(* others.                                                                 *)
LEMMA BucketsShare ==
    ASSUME NEW n \in Nat, NEW b \in Nat \ {0}, n - 2 >= b
    PROVE  /\ \A i \in Nat : Bucket(i, n, b) \in Nat /\ Bucket(i + 1, n, b) >= Bucket(i, n, b) + 1
           /\ Bucket(0, n, b) = 1
           /\ Bucket(b, n, b) = n - 1
<1> DEFINE d == n - 2
<1>1. d \in Nat /\ d >= b
  OBVIOUS
<1>2. ASSUME NEW i \in Nat
      PROVE  Bucket(i, n, b) \in Nat /\ Bucket(i + 1, n, b) >= Bucket(i, n, b) + 1
  <2>1. i * d \in Nat /\ (i + 1) * d = i * d + d
    BY <1>1
  <2>2. PICK x \in Nat : x = i * d
    BY <2>1
  <2>3. (x + d) \div b >= x \div b + 1
    BY <1>1, NextBlock
  <2>4. x \div b \in Nat /\ (x + d) \div b \in Int
    BY <1>1
  <2>5. Bucket(i, n, b) = x \div b + 1 /\ Bucket(i + 1, n, b) = (x + d) \div b + 1
    BY <2>1, <2>2 DEF Bucket
  <2> QED
    BY <2>3, <2>4, <2>5
<1>3. Bucket(0, n, b) = 1
  BY DEF Bucket
<1>4. Bucket(b, n, b) = n - 1
  <2>1. (b * d) \div b = d
    BY <1>1
  <2> QED
    BY <2>1 DEF Bucket
<1> QED
  BY <1>2, <1>3, <1>4

(* The point of a bucket is in it, whatever the areas are.                 *)
LEMMA LargestInBucket ==
    ASSUME NEW r, NEW a, NEW n \in Nat, NEW b \in Nat \ {0}, n - 2 >= b, NEW i \in Nat
    PROVE  Largest(r, a, i, n, b) \in Bucket(i, n, b) .. Bucket(i + 1, n, b) - 1
<1> DEFINE from == Bucket(i, n, b)
           upto == Bucket(i + 1, n, b)
           C    == IF i + 1 < b THEN upto .. (Bucket(i + 2, n, b) - 1) ELSE {}
           V    == from .. upto - 1
           Turn(j, v) == IF Area(r, a, j - 1, C) > Area(r, a, v, C) THEN j - 1 ELSE v
           Loop(h) == h = [j \in from .. upto |-> IF j = from THEN from ELSE Turn(j, h[j - 1])]
           st == [j \in from + 1 .. upto |-> [v \in V |-> Turn(j, v)]]
           best == CHOOSE h : Loop(h)
<1>1. from \in Int /\ upto \in Int /\ from < upto /\ from \in V
  <2>1. from \in Nat /\ upto >= from + 1 /\ i + 1 \in Nat
    BY BucketsShare
  <2>2. upto \in Nat
    BY <2>1, BucketsShare
  <2> HIDE DEF from, upto
  <2> QED
    BY <2>1, <2>2
<1>2. Largest(r, a, i, n, b) = best[upto]
  BY DEF Largest
<1> HIDE DEF from, upto, C
<1>3. ASSUME NEW j \in from + 1 .. upto, NEW v \in V PROVE Turn(j, v) \in V
  BY <1>1
<1> HIDE DEF Turn
<1>4. st \in [from + 1 .. upto -> [V -> V]]
  BY <1>3
<1>5. \A j \in from + 1 .. upto : \A v \in V : st[j][v] = Turn(j, v)
  OBVIOUS
<1> HIDE DEF V, st
<1>6. PICK g : Turns(g, V, from, from, upto, st)
  <2>1. from <= upto
    BY <1>1
  <2> QED
    BY <1>1, <1>4, <2>1, Recursion
<1>7. Loop(g)
  <2>1. /\ g \in [from .. upto -> V] /\ g[from] = from
        /\ \A j \in from + 1 .. upto : g[j] = st[j][g[j - 1]]
    BY <1>6 DEF Turns
  <2>2. \A j \in from .. upto : g[j] = IF j = from THEN from ELSE Turn(j, g[j - 1])
    <3> SUFFICES ASSUME NEW j \in from .. upto, j # from PROVE g[j] = Turn(j, g[j - 1])
      BY <2>1
    <3>1. j \in from + 1 .. upto /\ j - 1 \in from .. upto
      BY <1>1
    <3>2. g[j - 1] \in V
      BY <2>1, <3>1
    <3> QED
      BY <1>5, <2>1, <3>1, <3>2
  <2>3. g = [j \in from .. upto |-> g[j]]
    BY <2>1
  <2> QED
    BY <2>2, <2>3
<1>8. Loop(best)
  <2> HIDE DEF Loop
  <2> QED
    BY <1>7
<1> HIDE DEF best
<1>9. PICK h : h = best /\ Loop(h)
  BY <1>8
<1>10. \A j \in from .. upto : h[j] = IF j = from THEN from ELSE Turn(j, h[j - 1])
  BY <1>9
<1> DEFINE S == {j \in from .. upto : h[j] \in V}
<1>11. from \in S
  BY <1>1, <1>10
<1>12. ASSUME NEW j \in from + 1 .. upto, j - 1 \in S PROVE j \in S
  <2>1. j \in from .. upto /\ j # from /\ h[j - 1] \in V
    BY <1>1, <1>12
  <2>2. h[j] = Turn(j, h[j - 1])
    BY <1>10, <2>1
  <2>3. Turn(j, h[j - 1]) \in V
    BY <1>3, <2>1
  <2> QED
    BY <2>1, <2>2, <2>3
<1> HIDE DEF S
<1>13. from .. upto \subseteq S
  BY <1>1, <1>11, <1>12, IntervalInduction
<1>14. h[upto] \in V
  <2>1. upto \in from .. upto
    BY <1>1
  <2> QED
    BY <1>13, <2>1 DEF S
<1> QED
  BY <1>2, <1>9, <1>14 DEF V, from, upto

(* What lttb_indices returns: indices from the first to the last, rising.  *)
Spans(sel, n, m) ==
    /\ sel \in [1 .. m -> 0 .. n - 1] /\ Len(sel) = m
    /\ sel[1] = 0 /\ sel[m] = n - 1
    /\ \A i \in 1 .. m - 1 : sel[i] < sel[i + 1]

LEMMA LttbSpans ==
    ASSUME NEW r, NEW n \in Nat \ {0}, Len(r) = n, NEW k \in Nat, k >= 2
    PROVE  Spans(LttbIndices(r, k), n, IF n <= k THEN n ELSE k)
<1>1. CASE n <= k
  <2>1. LttbIndices(r, k) = [i \in 1 .. n |-> i - 1]
    BY <1>1 DEF LttbIndices
  <2> DEFINE f == [i \in 1 .. n |-> i - 1]
  <2>2. f \in [1 .. n -> 0 .. n - 1] /\ Len(f) = n /\ \A i \in 1 .. n : f[i] = i - 1
    OBVIOUS
  <2>3. 1 \in 1 .. n /\ n \in 1 .. n /\ 1 - 1 = 0
        /\ \A i \in 1 .. n - 1 : i \in 1 .. n /\ i + 1 \in 1 .. n /\ i - 1 < (i + 1) - 1
    OBVIOUS
  <2> HIDE DEF f
  <2>4. f[1] = 0 /\ f[n] = n - 1 /\ \A i \in 1 .. n - 1 : f[i] < f[i + 1]
    BY <2>2, <2>3
  <2>5. Spans(f, n, n)
    BY <2>2, <2>4 DEF Spans
  <2> QED
    BY <1>1, <2>1, <2>5 DEF f
<1>2. CASE n > k
  <2> DEFINE b == k - 2
             Turn(i, v) == Largest(r, v, i - 1, n, b)
             Loop(h) == h = [i \in 0 .. b |-> IF i = 0 THEN 0 ELSE Turn(i, h[i - 1])]
             st == [i \in 0 + 1 .. b |-> [v \in Nat |-> Turn(i, v)]]
             chosen == CHOOSE h : Loop(h)
             f == [i \in 1 .. k |-> IF i = k THEN n - 1 ELSE chosen[i - 1]]
  <2>1. b \in Nat /\ n - 2 >= b /\ k = b + 2 /\ n > k
    BY <1>2
  <2>2. LttbIndices(r, k) = f
    BY <1>2 DEF LttbIndices
  <2> HIDE DEF b
  <2>3. ASSUME NEW i \in 1 .. b, NEW v
        PROVE  Turn(i, v) \in Bucket(i - 1, n, b) .. Bucket(i, n, b) - 1
    <3>1. i - 1 \in Nat /\ (i - 1) + 1 = i /\ b \in Nat \ {0}
      BY <2>1
    <3> QED
      BY <2>1, <3>1, LargestInBucket
  <2>4. ASSUME NEW i \in 1 .. b, NEW v PROVE Turn(i, v) \in Nat
    <3>1. i - 1 \in Nat /\ (i - 1) + 1 = i /\ b \in Nat \ {0}
      BY <2>1
    <3>2. Bucket(i - 1, n, b) \in Nat
      BY <2>1, <3>1, BucketsShare
    <3> HIDE DEF Turn
    <3> QED
      BY <2>3, <3>2
  <2> HIDE DEF Turn
  <2>5. st \in [0 + 1 .. b -> [Nat -> Nat]]
    BY <2>1, <2>4
  <2>6. \A i \in 1 .. b : \A v \in Nat : st[i][v] = Turn(i, v)
    BY <2>1
  <2> HIDE DEF st
  <2>7. PICK g : Turns(g, Nat, 0, 0, b, st)
    <3>1. 0 \in Int /\ 0 \in Nat /\ b \in Int /\ 0 <= b
      BY <2>1
    <3> QED
      BY <2>5, <3>1, Recursion
  <2>8. Loop(g)
    <3>1. /\ g \in [0 .. b -> Nat] /\ g[0] = 0
          /\ \A i \in 1 .. b : g[i] = st[i][g[i - 1]]
      BY <2>1, <2>7 DEF Turns
    <3>2. \A i \in 0 .. b : g[i] = IF i = 0 THEN 0 ELSE Turn(i, g[i - 1])
      <4> SUFFICES ASSUME NEW i \in 0 .. b, i # 0 PROVE g[i] = Turn(i, g[i - 1])
        BY <3>1
      <4>1. i \in 1 .. b /\ i - 1 \in 0 .. b
        BY <2>1
      <4>2. g[i - 1] \in Nat
        BY <3>1, <4>1
      <4> QED
        BY <2>6, <3>1, <4>1, <4>2
    <3>3. g = [i \in 0 .. b |-> g[i]]
      BY <3>1
    <3> QED
      BY <3>2, <3>3
  <2>9. Loop(chosen)
    <3> HIDE DEF Loop
    <3> QED
      BY <2>8
  <2> HIDE DEF chosen
  <2>10. PICK c : c = chosen /\ Loop(c)
    BY <2>9
  <2>11. c[0] = 0 /\ \A i \in 1 .. b : c[i] = Turn(i, c[i - 1])
    <3>1. \A i \in 0 .. b : c[i] = IF i = 0 THEN 0 ELSE Turn(i, c[i - 1])
      BY <2>10
    <3>2. 0 \in 0 .. b /\ \A i \in 1 .. b : i \in 0 .. b /\ i # 0
      BY <2>1
    <3> QED
      BY <3>1, <3>2
  <2>12. \A i \in 1 .. b : c[i] \in Bucket(i - 1, n, b) .. Bucket(i, n, b) - 1
    BY <2>3, <2>11
  <2>13. f = [i \in 1 .. k |-> IF i = k THEN n - 1 ELSE c[i - 1]]
    BY <2>10
  <2> HIDE DEF f
  <2>14. f[k] = n - 1 /\ (\A i \in 1 .. k - 1 : f[i] = c[i - 1]) /\ Len(f) = k
    BY <2>1, <2>13
  <2>15. b = 0 => Bucket(b, n, b) = Bucket(b, n, b)
    OBVIOUS
  <2>16. \A i \in 0 .. b : c[i] \in 0 .. n - 2
         /\ (i < b => c[i] < c[i + 1])
    <3>1. CASE b = 0
      <4>1. \A i \in 0 .. b : i = 0 /\ ~(i < b)
        BY <3>1
      <4> QED
        BY <2>1, <2>11, <4>1
    <3>2. CASE b # 0
      <4> DEFINE B(i) == Bucket(i, n, b)
      <4>1. b \in Nat \ {0} /\ n - 2 >= b
        BY <2>1, <3>2
      <4>2. (\A i \in Nat : B(i) \in Nat /\ B(i + 1) >= B(i) + 1) /\ B(0) = 1 /\ B(b) = n - 1
        BY <4>1, BucketsShare
      <4>3. \A i \in 1 .. b : c[i] \in B(i - 1) .. B(i) - 1
        BY <2>12
      <4> HIDE DEF B
      <4> DEFINE S == {i \in 0 .. b : \A j \in 0 .. i : B(j) <= B(i)}
      <4>4. 0 \in S
        <5>1. \A j \in 0 .. 0 : j = 0
          OBVIOUS
        <5> QED
          BY <4>1, <4>2, <5>1
      <4>5. ASSUME NEW i \in 0 + 1 .. b, i - 1 \in S PROVE i \in S
        <5>1. i - 1 \in Nat /\ i \in Nat /\ (i - 1) + 1 = i /\ i \in 0 .. b
          BY <4>1
        <5>2. ASSUME NEW j \in 0 .. i PROVE B(j) <= B(i)
          <6>1. CASE j = i
            BY <4>2, <5>1, <6>1
          <6>2. CASE j # i
            <7>1. j \in 0 .. i - 1
              BY <6>2
            <7>2. B(j) <= B(i - 1)
              BY <4>5, <7>1
            <7>3. B(i) >= B(i - 1) + 1 /\ B(i - 1) \in Nat /\ B(i) \in Nat /\ B(j) \in Nat
              <8>1. j \in Nat
                OBVIOUS
              <8>2. B((i - 1) + 1) >= B(i - 1) + 1
                BY <4>2, <5>1
              <8> QED
                BY <4>2, <5>1, <8>1, <8>2
            <7> QED
              BY <7>2, <7>3
          <6> QED
            BY <6>1, <6>2
        <5> QED
          BY <5>1, <5>2
      <4> HIDE DEF S
      <4>6. 0 .. b \subseteq S
        BY <4>1, <4>4, <4>5, IntervalInduction
      <4>7. \A j \in 0 .. b : B(j) <= n - 1 /\ B(j) \in Nat
        <5> SUFFICES ASSUME NEW j \in 0 .. b PROVE B(j) <= B(b) /\ B(j) \in Nat
          BY <4>2
        <5>1. b \in S /\ j \in Nat
          BY <4>1, <4>6
        <5> QED
          BY <4>2, <5>1 DEF S
      <4>8. ASSUME NEW i \in 0 .. b PROVE c[i] \in 0 .. n - 2
        <5>1. CASE i = 0
          BY <2>1, <2>11, <5>1
        <5>2. CASE i # 0
          <6>1. i \in 1 .. b /\ i - 1 \in 0 .. b
            BY <4>1, <5>2
          <6>2. c[i] \in B(i - 1) .. B(i) - 1 /\ B(i) <= n - 1 /\ B(i) \in Nat /\ B(i - 1) \in Nat
            BY <4>3, <4>7, <6>1
          <6> QED
            BY <6>2
        <5> QED
          BY <5>1, <5>2
      <4>9. ASSUME NEW i \in 0 .. b, i < b PROVE c[i] < c[i + 1]
        <5>1. i + 1 \in 1 .. b /\ (i + 1) - 1 = i /\ B(i) \in Nat /\ B(i + 1) \in Nat
          BY <4>1, <4>7, <4>9
        <5>2. c[i + 1] >= B(i) /\ c[i + 1] \in Int
          BY <4>3, <5>1
        <5>3. CASE i = 0
          <6>1. c[i] = 0 /\ B(i) = 1
            BY <2>11, <4>2, <5>3
          <6> QED
            BY <5>2, <6>1
        <5>4. CASE i # 0
          <6>0. i \in 1 .. b /\ i - 1 \in 0 .. b
            BY <4>1, <5>4
          <6>1. c[i] \in B(i - 1) .. B(i) - 1 /\ B(i - 1) \in Nat
            BY <4>3, <4>7, <6>0
          <6> QED
            BY <5>1, <5>2, <6>1
        <5> QED
          BY <5>3, <5>4
      <4> QED
        BY <4>8, <4>9
    <3> QED
      BY <3>1, <3>2
  <2>17. f \in [1 .. k -> 0 .. n - 1]
    <3>1. ASSUME NEW i \in 1 .. k PROVE f[i] \in 0 .. n - 1
      <4>1. CASE i = k
        BY <2>1, <2>14, <4>1
      <4>2. CASE i # k
        <5>1. i \in 1 .. k - 1 /\ i - 1 \in 0 .. b
          BY <2>1, <4>2
        <5>2. f[i] \in 0 .. n - 2
          BY <2>14, <2>16, <5>1
        <5> QED
          BY <5>2
      <4> QED
        BY <4>1, <4>2
    <3> QED
      BY <2>13, <3>1
  <2>18. f[1] = 0
    BY <2>1, <2>11, <2>14
  <2>19. ASSUME NEW i \in 1 .. k - 1 PROVE f[i] < f[i + 1]
    <3>1. i - 1 \in 0 .. b /\ f[i] = c[i - 1]
      BY <2>1, <2>14
    <3>2. CASE i + 1 = k
      <4>1. c[i - 1] \in 0 .. n - 2
        BY <2>16, <3>1
      <4> QED
        BY <2>1, <2>14, <3>1, <3>2, <4>1
    <3>3. CASE i + 1 # k
      <4>1. i + 1 \in 1 .. k - 1 /\ (i + 1) - 1 = (i - 1) + 1 /\ i - 1 < b
        BY <2>1, <3>3
      <4> QED
        BY <2>14, <2>16, <3>1, <4>1
    <3> QED
      BY <3>2, <3>3
  <2> QED
    BY <1>2, <2>2, <2>14, <2>17, <2>18, <2>19 DEF Spans
<1> QED
  BY <1>1, <1>2

LEMMA SpansRises ==
    ASSUME NEW sel, NEW n \in Nat, NEW m \in Nat, Spans(sel, n, m),
           NEW i \in 1 .. m, NEW j \in 1 .. m, i <= j
    PROVE  sel[i] <= sel[j]
<1> DEFINE S == {k \in i .. m : sel[i] <= sel[k]}
<1>1. \A k \in 1 .. m : sel[k] \in Int
  BY DEF Spans
<1>2. i \in S
  BY <1>1
<1>3. ASSUME NEW k \in i + 1 .. m, k - 1 \in S PROVE k \in S
  <2>1. k - 1 \in 1 .. m - 1 /\ k - 1 \in 1 .. m /\ k \in 1 .. m /\ (k - 1) + 1 = k
    BY <1>3
  <2>2. sel[k - 1] < sel[k]
    BY <2>1 DEF Spans
  <2>3. sel[i] <= sel[k - 1]
    BY <1>3
  <2> QED
    BY <1>1, <2>1, <2>2, <2>3
<1> HIDE DEF S
<1>4. i .. m \subseteq S
  BY <1>2, <1>3, IntervalInduction
<1> QED
  BY <1>4 DEF S

(* Every pair of records in a row lies between two points in a row, and    *)
(* between no others.                                                      *)
OnlyBetween(sel, m, k, i) ==
    /\ k \in sel[i - 1] .. sel[i] - 1
    /\ \A j \in 2 .. m : k \in sel[j - 1] .. sel[j] - 1 => j = i

LEMMA OneBetween ==
    ASSUME NEW sel, NEW n \in Nat, NEW m \in Nat \ {0}, Spans(sel, n, m),
           NEW k \in 0 .. n - 2
    PROVE  \E i \in 2 .. m : OnlyBetween(sel, m, k, i)
<1> DEFINE S == {i \in 1 .. m : sel[i] > k}
<1>1. (\A i \in 1 .. m : sel[i] \in Int) /\ sel[1] = 0 /\ sel[m] = n - 1 /\ 1 \in 1 .. m
      /\ m \in 1 .. m
  BY DEF Spans
<1>2. S \in SUBSET Nat /\ m \in S /\ 1 \notin S
  BY <1>1
<1>3. PICK i \in S : \A j \in S : i <= j
  <2> HIDE DEF S
  <2> QED
    BY <1>2, Least
<1>4. i \in 2 .. m /\ i - 1 \in 1 .. m /\ i - 1 \notin S
  <2>1. i \in 1 .. m /\ i # 1
    BY <1>2, <1>3
  <2>2. i - 1 \notin S
    <3> HIDE DEF S
    <3> QED
      BY <1>3, <2>1
  <2> QED
    BY <2>1, <2>2
<1>5. k \in sel[i - 1] .. sel[i] - 1
  BY <1>1, <1>3, <1>4
<1>6. ASSUME NEW j \in 2 .. m, k \in sel[j - 1] .. sel[j] - 1 PROVE j = i
  <2>1. j \in 1 .. m /\ j - 1 \in 1 .. m
    OBVIOUS
  <2>2. sel[j - 1] <= k /\ k < sel[j]
    BY <1>1, <1>6, <2>1
  <2>3. j \in S
    BY <2>1, <2>2
  <2>4. i <= j
    BY <1>3, <2>3
  <2>5. CASE i < j
    <3>1. i <= j - 1 /\ i \in 1 .. m
      BY <1>4, <2>5
    <3>2. sel[i] <= sel[j - 1]
      BY <2>1, <3>1, SpansRises
    <3> QED
      BY <1>1, <1>3, <2>1, <2>2, <3>1, <3>2
  <2> QED
    BY <1>4, <2>4, <2>5
<1> QED
  BY <1>4, <1>5, <1>6 DEF OnlyBetween

LEMMA HistoryInput ==
    ASSUME input \in Inputs, input.kind = "history"
    PROVE  /\ Len(input.records) \in Nat \ {0}
           /\ input.threshold \in Nat
           /\ Spans(Selected, Len(input.records), Min({Len(input.records), input.threshold}))
<1>1. WellFormed(input)
  BY InputAssumption
<1>2. /\ input.records \in Seq([uptime : Int, temp : Int, received : Int])
      /\ input.records # <<>> /\ input.threshold \in Nat /\ input.threshold >= 2
  BY <1>1 DEF WellFormed
<1>3. Len(input.records) \in Nat \ {0}
  BY <1>2
<1>4. PICK n \in Nat \ {0} : n = Len(input.records)
  BY <1>3
<1>5. PICK k \in Nat : k = input.threshold
  BY <1>2
<1>6. Spans(LttbIndices(input.records, k), n, IF n <= k THEN n ELSE k)
  BY <1>2, <1>4, <1>5, LttbSpans
<1>7. Min({n, k}) = IF n <= k THEN n ELSE k
  BY MinOfTwo
<1> QED
  BY <1>2, <1>3, <1>4, <1>5, <1>6, <1>7 DEF Selected

(* Downsampling keeps as many records as asked for, in order, none twice,  *)
(* with the first and the last, whatever the temperatures (store.rs        *)
(* 444-503).                                                               *)
LEMMA DownsamplingSpans == AlgorithmsSpec => []LttbSpansHistory
<1>1. input \in Inputs => LttbSpansHistory
  <2> SUFFICES ASSUME input \in Inputs, input.kind = "history"
               PROVE  LET n == Len(input.records)
                      IN  /\ Len(Selected) = Min({n, input.threshold})
                          /\ Selected[1] = 0 /\ Last(Selected) = n - 1
                          /\ \A i \in 1..(Len(Selected) - 1) : Selected[i] < Selected[i + 1]
    BY DEF LttbSpansHistory
  <2>1. Spans(Selected, Len(input.records), Min({Len(input.records), input.threshold}))
    BY HistoryInput
  <2> QED
    BY <2>1 DEF Spans, Last
<1> QED
  BY <1>1, InputStays, PTL

(* Every real gap is marked at exactly one of the points that are left     *)
(* (store.rs 155, 209-222).                                                *)
LEMMA GapsMarkedOnce == AlgorithmsSpec => []EveryGapMarkedOnce
<1>1. input \in Inputs => EveryGapMarkedOnce
  <2> SUFFICES ASSUME input \in Inputs, input.kind = "history",
                      NEW k \in 0 .. Len(input.records) - 2, Late(input.records, k)
               PROVE  Cardinality({i \in 2..Len(Selected) :
                                    /\ GapBefore(input.records, Selected, i)
                                    /\ k \in Selected[i - 1]..(Selected[i] - 1)}) = 1
    BY DEF EveryGapMarkedOnce
  <2> DEFINE n == Len(input.records)
             m == Min({n, input.threshold})
             M == {i \in 2..Len(Selected) :
                     /\ GapBefore(input.records, Selected, i)
                     /\ k \in Selected[i - 1]..(Selected[i] - 1)}
  <2>1. n \in Nat \ {0} /\ Spans(Selected, n, m) /\ input.threshold \in Nat
    BY HistoryInput
  <2>2. Len(Selected) = m
    BY <2>1 DEF Spans
  <2>3. m \in Nat \ {0}
    <3>1. m \in Nat
      BY <2>1, MinOfTwo
    <3>2. WellFormed(input)
      BY InputAssumption
    <3>3. input.threshold >= 2
      BY <3>2 DEF WellFormed
    <3> QED
      BY <2>1, <3>1, <3>3, MinOfTwo
  <2> HIDE DEF m, n
  <2>4. PICK i \in 2 .. m : /\ k \in Selected[i - 1] .. Selected[i] - 1
                            /\ \A j \in 2 .. m : k \in Selected[j - 1] .. Selected[j] - 1 => j = i
    <3>1. k \in 0 .. n - 2
      BY DEF n
    <3>2. \E i \in 2 .. m : OnlyBetween(Selected, m, k, i)
      BY <2>1, <2>3, <3>1, OneBetween
    <3> QED
      BY <3>2 DEF OnlyBetween
  <2>5. GapBefore(input.records, Selected, i)
    BY <2>3, <2>4 DEF GapBefore
  <2>6. M = {i}
    BY <2>2, <2>4, <2>5
  <2> QED
    BY <2>6, FS_Singleton
<1> QED
  BY <1>1, InputStays, PTL

(* For every history, threshold and temperatures, what is left of the      *)
(* history goes from the first record to the last, in order and none       *)
(* twice, with every real gap marked at exactly one point (store.rs 155,   *)
(* 163-222, 444-503).                                                      *)
THEOREM DownsamplingKeeps == AlgorithmsSpec => []DownsamplingInv
BY DownsamplingSpans, GapsMarkedOnce, PTL DEF DownsamplingInv

----------------------------------------------------------------------------
(* The search of the one-wire bus.                                         *)

Roms(w) == [1 .. w -> {0, 1}]

\* d and e begin with the same b bits.
Agree(d, e, b) == \A c \in 1 .. b : d[c] = e[c]

\* The order in which the search finds the devices.
Earlier(d, e, w) == \E b \in 1 .. w : Agree(d, e, b - 1) /\ d[b] = 0 /\ e[b] = 1
UpToRom(bus, e, w) == {d \in bus : d = e \/ Earlier(d, e, w)}

\* Where e takes 0, and a device with the same bits before takes 1.
Fork(bus, e, b) == e[b] = 0 /\ \E d \in bus : Agree(d, e, b - 1) /\ d[b] = 1

LEMMA FirstDifference ==
    ASSUME NEW w \in Nat, NEW d \in Roms(w), NEW e \in Roms(w), d # e
    PROVE  Earlier(d, e, w) \/ Earlier(e, d, w)
<1> DEFINE D == {b \in 1 .. w : d[b] # e[b]}
<1>1. D \in SUBSET Nat /\ D # {}
  <2>1. d = [b \in 1 .. w |-> d[b]] /\ e = [b \in 1 .. w |-> e[b]]
    BY DEF Roms
  <2> QED
    BY <2>1
<1>2. PICK b \in D : \A c \in D : b <= c
  <2> HIDE DEF D
  <2> QED
    BY <1>1, Least
<1>3. b \in 1 .. w /\ d[b] # e[b] /\ \A c \in 1 .. b - 1 : d[c] = e[c]
  <2>1. b \in 1 .. w /\ d[b] # e[b]
    OBVIOUS
  <2>2. ASSUME NEW c \in 1 .. b - 1 PROVE d[c] = e[c]
    <3>1. c \in 1 .. w /\ c \notin D
      <4>1. c < b /\ c \in Nat
        BY <2>1
      <4> HIDE DEF D
      <4> QED
        BY <1>2, <2>1, <4>1
    <3> QED
      BY <3>1
  <2> QED
    BY <2>1, <2>2
<1>4. d[b] \in {0, 1} /\ e[b] \in {0, 1}
  BY <1>3 DEF Roms
<1>5. Agree(d, e, b - 1) /\ Agree(e, d, b - 1)
  BY <1>3 DEF Agree
<1> QED
  BY <1>3, <1>4, <1>5 DEF Earlier

LEMMA NotBothEarlier ==
    ASSUME NEW w \in Nat, NEW d, NEW e, Earlier(d, e, w)
    PROVE  ~Earlier(e, d, w) /\ d # e
<1>1. PICK b \in 1 .. w : Agree(d, e, b - 1) /\ d[b] = 0 /\ e[b] = 1
  BY DEF Earlier
<1>2. ASSUME NEW c \in 1 .. w, Agree(e, d, c - 1), e[c] = 0, d[c] = 1 PROVE FALSE
  <2>1. CASE c < b
    <3>1. c \in 1 .. b - 1
      BY <2>1
    <3> QED
      BY <1>1, <1>2, <3>1 DEF Agree
  <2>2. CASE c > b
    <3>1. b \in 1 .. c - 1
      BY <2>2
    <3> QED
      BY <1>1, <1>2, <3>1 DEF Agree
  <2>3. CASE c = b
    BY <1>1, <1>2, <2>3
  <2> QED
    BY <2>1, <2>2, <2>3
<1> QED
  BY <1>1, <1>2 DEF Earlier

(* A pass.                                                                 *)
PassStates(bus, w) == [ok : BOOLEAN, alive : SUBSET bus, next : 0 .. w, rom : Roms(w)]

LEMMA ReadBitType ==
    ASSUME NEW w \in Nat, NEW bus, NEW last, NEW rom,
           NEW p \in PassStates(bus, w), NEW b \in 1 .. w
    PROVE  ReadBit(p, b, last, rom) \in PassStates(bus, w)
<1> DEFINE id  == \A d \in p.alive : d[b] = 1
           cmp == \A d \in p.alive : d[b] = 0
           one == IF ~id /\ ~cmp THEN Direction(b, last, rom) ELSE id
           v == IF one THEN 1 ELSE 0
           q == [ok |-> TRUE, alive |-> {d \in p.alive : d[b] = v},
                 next |-> IF ~id /\ ~cmp /\ ~one THEN b ELSE p.next,
                 rom |-> [p.rom EXCEPT ![b] = v]]
<1>1. p = [ok |-> p.ok, alive |-> p.alive, next |-> p.next, rom |-> p.rom]
      /\ p.alive \subseteq bus /\ p.next \in 0 .. w /\ p.rom \in Roms(w)
  BY DEF PassStates
<1>2. ReadBit(p, b, last, rom) \in {q, [p EXCEPT !.ok = FALSE]}
  BY DEF ReadBit
<1>3. [p EXCEPT !.ok = FALSE] \in PassStates(bus, w)
  BY DEF PassStates
<1>4. v \in {0, 1}
  OBVIOUS
<1> HIDE DEF v
<1>5. q.next \in 0 .. w
  BY <1>1
<1>6. [p.rom EXCEPT ![b] = v] \in Roms(w)
  BY <1>1, <1>4 DEF Roms
<1> HIDE DEF id, cmp, one
<1>7. q \in PassStates(bus, w)
  BY <1>1, <1>5, <1>6 DEF PassStates
<1> QED
  BY <1>2, <1>3, <1>7

BitsOf(s, bus, last, rom, w) ==
    /\ s \in [0 .. w -> PassStates(bus, w)]
    /\ s[0] = [ok |-> TRUE, alive |-> bus, next |-> 0, rom |-> rom]
    /\ \A b \in 1 .. w : s[b] = ReadBit(s[b - 1], b, last, rom)

LEMMA PassBits ==
    ASSUME NEW w \in Nat, NEW bus, NEW last, NEW rom \in Roms(w)
    PROVE  \E s : BitsOf(s, bus, last, rom, w) /\ Pass(bus, last, rom) = s[w]
<1> DEFINE V == PassStates(bus, w)
           Turn(b, p) == ReadBit(p, b, last, rom)
           start == [ok |-> TRUE, alive |-> bus, next |-> 0, rom |-> rom]
           st == [b \in 0 + 1 .. w |-> [p \in V |-> Turn(b, p)]]
           Loop(s) == s = [b \in 0 .. w |-> IF b = 0 THEN start ELSE Turn(b, s[b - 1])]
           all == CHOOSE s : Loop(s)
<1>1. start \in V
  BY DEF PassStates
<1>2. \A b \in 1 .. w : \A p \in V : Turn(b, p) \in V
  BY ReadBitType
<1>3. Len(rom) = w
  BY DEF Roms
<1>4. Pass(bus, last, rom) = all[w]
  BY <1>3 DEF Pass
<1> HIDE DEF V, Turn, start
<1>5. st \in [0 + 1 .. w -> [V -> V]] /\ \A b \in 1 .. w : \A p \in V : st[b][p] = Turn(b, p)
  BY <1>2
<1> HIDE DEF st
<1>6. PICK g : Turns(g, V, start, 0, w, st)
  <2>1. 0 \in Int /\ w \in Int /\ 0 <= w
    OBVIOUS
  <2> QED
    BY <1>1, <1>5, <2>1, Recursion
<1>7. Loop(g)
  <2>1. g \in [0 .. w -> V] /\ g[0] = start /\ \A b \in 1 .. w : g[b] = st[b][g[b - 1]]
    BY <1>6 DEF Turns
  <2>2. \A b \in 0 .. w : g[b] = IF b = 0 THEN start ELSE Turn(b, g[b - 1])
    <3> SUFFICES ASSUME NEW b \in 0 .. w, b # 0 PROVE g[b] = Turn(b, g[b - 1])
      BY <2>1
    <3>1. b \in 1 .. w /\ b - 1 \in 0 .. w
      OBVIOUS
    <3>2. g[b - 1] \in V
      BY <2>1, <3>1
    <3> QED
      BY <1>5, <2>1, <3>1, <3>2
  <2>3. g = [b \in 0 .. w |-> g[b]]
    BY <2>1
  <2> QED
    BY <2>2, <2>3
<1>8. Loop(all)
  <2> HIDE DEF Loop
  <2> QED
    BY <1>7
<1> HIDE DEF all
<1>9. PICK s : s = all /\ Loop(s)
  BY <1>8
<1>10. s[0] = start /\ \A b \in 1 .. w : s[b] = Turn(b, s[b - 1])
  <2>1. \A b \in 0 .. w : s[b] = IF b = 0 THEN start ELSE Turn(b, s[b - 1])
    BY <1>9
  <2>2. 0 \in 0 .. w /\ \A b \in 1 .. w : b \in 0 .. w /\ b # 0
    OBVIOUS
  <2> QED
    BY <2>1, <2>2
<1> DEFINE S == {b \in 0 .. w : s[b] \in V}
<1>11. 0 \in S
  BY <1>1, <1>10
<1>12. ASSUME NEW b \in 0 + 1 .. w, b - 1 \in S PROVE b \in S
  <2>1. b \in 1 .. w /\ b \in 0 .. w /\ s[b - 1] \in V
    BY <1>12
  <2> QED
    BY <1>2, <1>10, <2>1
<1> HIDE DEF S
<1>13. 0 .. w \subseteq S
  BY <1>11, <1>12, IntervalInduction
<1>14. s \in [0 .. w -> V]
  <2>1. s = [b \in 0 .. w |-> s[b]]
    BY <1>9
  <2> QED
    BY <1>13, <2>1 DEF S
<1> QED
  BY <1>4, <1>9, <1>10, <1>14 DEF BitsOf, V, Turn, start

(* What b bits of a pass have led to.                                      *)
ReadSoFar(bus, rom, last, p, b) ==
    /\ p.ok
    /\ p.alive = {d \in bus : Agree(d, p.rom, b)} /\ p.alive # {}
    /\ p.next \in 0 .. b
    /\ \A c \in 1 .. b : c < last => p.rom[c] = rom[c]
    /\ last \in 1 .. b => p.rom[last] = 1
    /\ \A c \in last + 1 .. b :
           p.rom[c] = 1 => \A d \in bus : Agree(d, p.rom, c - 1) => d[c] = 1
    /\ p.next = 0 \/ Fork(bus, p.rom, p.next)
    /\ \A c \in p.next + 1 .. b : ~Fork(bus, p.rom, c)

(* A bit is turned back at a fork of the pass before.                      *)
Turned(bus, rom, last) == last = 0 \/ (rom \in bus /\ Fork(bus, rom, last))

LEMMA BitKeeps ==
    ASSUME NEW w \in Nat, NEW bus \in SUBSET Roms(w), NEW rom \in Roms(w),
           NEW last \in 0 .. w, Turned(bus, rom, last),
           NEW b \in 1 .. w, NEW p \in PassStates(bus, w),
           ReadSoFar(bus, rom, last, p, b - 1)
    PROVE  ReadSoFar(bus, rom, last, ReadBit(p, b, last, rom), b)
<1> DEFINE id  == \A d \in p.alive : d[b] = 1
           cmp == \A d \in p.alive : d[b] = 0
           one == IF ~id /\ ~cmp THEN Direction(b, last, rom) ELSE id
           v == IF one THEN 1 ELSE 0
           next == IF ~id /\ ~cmp /\ ~one THEN b ELSE p.next
           prom == [p.rom EXCEPT ![b] = v]
           q == [ok |-> TRUE, alive |-> {d \in p.alive : d[b] = v},
                 next |-> next, rom |-> prom]
<1>1. /\ p.ok /\ p.alive = {d \in bus : Agree(d, p.rom, b - 1)} /\ p.alive # {}
      /\ p.next \in 0 .. b - 1 /\ p.rom \in Roms(w)
  BY DEF ReadSoFar, PassStates
<1>2. \A d \in bus : d[b] \in {0, 1}
  BY DEF Roms
<1>3. ~(id /\ cmp)
  BY <1>1
<1>4. ReadBit(p, b, last, rom) = q
  BY <1>1, <1>3 DEF ReadBit
<1>5. /\ v \in {0, 1}
      /\ \E d \in p.alive : d[b] = v
      /\ (v = 0 /\ ~cmp) <=> (~id /\ ~cmp /\ ~one)
  <2>1. v \in {0, 1} /\ (v = 1 <=> one)
    OBVIOUS
  <2>2. \E d \in p.alive : d[b] = v
    <3>1. CASE id
      <4>1. v = 1
        BY <1>3, <3>1
      <4> QED
        BY <1>1, <3>1, <4>1
    <3>2. CASE cmp
      <4>1. v = 0
        BY <1>3, <3>2
      <4> QED
        BY <1>1, <3>2, <4>1
    <3>3. CASE ~id /\ ~cmp
      <4>1. (\E d \in p.alive : d[b] = 0) /\ (\E d \in p.alive : d[b] = 1)
        BY <1>1, <1>2, <3>3
      <4> HIDE DEF v
      <4> QED
        BY <2>1, <4>1
    <3> QED
      BY <3>1, <3>2, <3>3
  <2>3. (v = 0 /\ ~cmp) <=> (~id /\ ~cmp /\ ~one)
    BY <2>1
  <2> QED
    BY <2>1, <2>2, <2>3
<1>6. id \/ cmp \/ (one <=> Direction(b, last, rom))
  OBVIOUS
<1>7. (id => v = 1) /\ (cmp => v = 0)
  BY <1>3
<1>71. ~id /\ ~cmp => (v = 1 <=> Direction(b, last, rom))
  OBVIOUS
<1>72. v = 1 /\ ~Direction(b, last, rom) => id
  OBVIOUS
<1> HIDE DEF v
<1>8. /\ prom \in Roms(w) /\ prom[b] = v
      /\ \A c \in 1 .. b - 1 : prom[c] = p.rom[c]
  BY <1>1, <1>5 DEF Roms
<1>9. next = IF v = 0 /\ ~cmp THEN b ELSE p.next
  BY <1>5
<1> HIDE DEF prom, next
<1>10. \A d : \A c \in 0 .. b - 1 : Agree(d, prom, c) <=> Agree(d, p.rom, c)
  <2> SUFFICES ASSUME NEW d, NEW c \in 0 .. b - 1
               PROVE  Agree(d, prom, c) <=> Agree(d, p.rom, c)
    OBVIOUS
  <2>1. \A x \in 1 .. c : x \in 1 .. b - 1
    OBVIOUS
  <2> QED
    BY <1>8, <2>1 DEF Agree
<1>11. \A d : Agree(d, prom, b) <=> Agree(d, p.rom, b - 1) /\ d[b] = v
  <2> SUFFICES ASSUME NEW d PROVE Agree(d, prom, b) <=> Agree(d, p.rom, b - 1) /\ d[b] = v
    OBVIOUS
  <2>1. 1 .. b = (1 .. b - 1) \cup {b}
    OBVIOUS
  <2> QED
    BY <1>8, <2>1 DEF Agree
<1>12. \A c \in 1 .. b - 1 : Fork(bus, prom, c) <=> Fork(bus, p.rom, c)
  <2> SUFFICES ASSUME NEW c \in 1 .. b - 1 PROVE Fork(bus, prom, c) <=> Fork(bus, p.rom, c)
    OBVIOUS
  <2>1. c - 1 \in 0 .. b - 1
    OBVIOUS
  <2> QED
    BY <1>8, <1>10, <2>1 DEF Fork
<1>13. Fork(bus, prom, b) <=> v = 0 /\ ~cmp
  <2>1. Fork(bus, prom, b) <=> v = 0 /\ \E d \in bus : Agree(d, p.rom, b - 1) /\ d[b] = 1
    <3>1. b - 1 \in 0 .. b - 1
      OBVIOUS
    <3> QED
      BY <1>8, <1>10, <3>1 DEF Fork
  <2>2. (\E d \in bus : Agree(d, p.rom, b - 1) /\ d[b] = 1) <=> ~cmp
    BY <1>1, <1>2
  <2> QED
    BY <2>1, <2>2
<1>14. q.alive = {d \in bus : Agree(d, prom, b)} /\ q.alive # {}
  BY <1>1, <1>5, <1>11
<1>15. next \in 0 .. b
  BY <1>1, <1>9
<1>16. b < last => v = rom[b]
  <2> SUFFICES ASSUME b < last PROVE v = rom[b]
    OBVIOUS
  <2>1. rom \in bus
    BY DEF Turned
  <2>2. Agree(rom, p.rom, b - 1)
    BY DEF ReadSoFar, Agree
  <2>3. rom \in p.alive
    BY <1>1, <2>1, <2>2
  <2>4. CASE id
    BY <1>7, <2>3, <2>4
  <2>5. CASE cmp
    BY <1>7, <2>3, <2>5
  <2>6. CASE ~id /\ ~cmp
    <3>1. v = 1 <=> rom[b] = 1
      BY <1>71, <2>6 DEF Direction
    <3> QED
      BY <1>2, <1>5, <2>1, <3>1
  <2> QED
    BY <2>4, <2>5, <2>6
<1>17. b = last => v = 1
  <2> SUFFICES ASSUME b = last PROVE v = 1
    OBVIOUS
  <2>1. rom \in bus /\ rom[b] = 0 /\ \E d \in bus : Agree(d, rom, b - 1) /\ d[b] = 1
    BY DEF Turned, Fork
  <2>2. \A c \in 1 .. b - 1 : p.rom[c] = rom[c]
    BY DEF ReadSoFar
  <2>3. Agree(rom, p.rom, b - 1) /\ \A d : Agree(d, rom, b - 1) => Agree(d, p.rom, b - 1)
    BY <2>2 DEF Agree
  <2>4. ~id /\ ~cmp
    BY <1>1, <2>1, <2>3
  <2>5. Direction(b, last, rom)
    BY DEF Direction
  <2> QED
    BY <1>71, <2>4, <2>5
<1>18. b > last /\ v = 1 => id
  <2>1. b > last => ~Direction(b, last, rom)
    BY DEF Direction
  <2> QED
    BY <1>72, <2>1
<1>19. \A c \in 1 .. b : c \in 1 .. b - 1 \/ c = b
  OBVIOUS
<1>20. \A c \in 1 .. b : c < last => prom[c] = rom[c]
  BY <1>8, <1>16, <1>19 DEF ReadSoFar
<1>21. last \in 1 .. b => prom[last] = 1
  BY <1>8, <1>17, <1>19 DEF ReadSoFar
<1>22. ASSUME NEW c \in last + 1 .. b, prom[c] = 1, NEW d \in bus, Agree(d, prom, c - 1)
       PROVE  d[c] = 1
  <2>1. CASE c = b
    <3>1. Agree(d, p.rom, b - 1) /\ b - 1 \in 0 .. b - 1
      BY <1>10, <1>22, <2>1
    <3> QED
      BY <1>1, <1>8, <1>18, <1>22, <2>1, <3>1
  <2>2. CASE c # b
    <3>1. c \in last + 1 .. b - 1 /\ c \in 1 .. b - 1 /\ c - 1 \in 0 .. b - 1
      BY <2>2
    <3>2. p.rom[c] = 1 /\ Agree(d, p.rom, c - 1)
      BY <1>8, <1>10, <1>22, <3>1
    <3> QED
      BY <3>1, <3>2 DEF ReadSoFar
  <2> QED
    BY <2>1, <2>2
<1>23. next = 0 \/ Fork(bus, prom, next)
  <2>1. CASE v = 0 /\ ~cmp
    BY <1>9, <1>13, <2>1
  <2>2. CASE ~(v = 0 /\ ~cmp)
    <3>1. next = p.next /\ (p.next = 0 \/ p.next \in 1 .. b - 1)
      BY <1>1, <1>9, <2>2
    <3>2. p.next = 0 \/ Fork(bus, p.rom, p.next)
      BY DEF ReadSoFar
    <3> QED
      BY <1>12, <3>1, <3>2
  <2> QED
    BY <2>1, <2>2
<1>24. ASSUME NEW c \in next + 1 .. b PROVE ~Fork(bus, prom, c)
  <2>1. CASE v = 0 /\ ~cmp
    <3>1. next = b
      BY <1>9, <2>1
    <3> QED
      BY <1>24, <3>1
  <2>2. CASE ~(v = 0 /\ ~cmp)
    <3>1. next = p.next
      BY <1>9, <2>2
    <3>2. CASE c = b
      BY <1>13, <2>2, <3>2
    <3>3. CASE c # b
      <4>1. c \in p.next + 1 .. b - 1 /\ c \in 1 .. b - 1
        BY <1>1, <3>1, <3>3
      <4> QED
        BY <1>12, <4>1 DEF ReadSoFar
    <3> QED
      BY <3>2, <3>3
  <2> QED
    BY <2>1, <2>2
<1>25. q.ok /\ q.next = next /\ q.rom = prom
  OBVIOUS
<1> HIDE DEF q
<1>26. ReadSoFar(bus, rom, last, q, b)
  BY <1>14, <1>15, <1>20, <1>21, <1>22, <1>23, <1>24, <1>25 DEF ReadSoFar
<1> QED
  BY <1>4, <1>26

(* What a pass over a bus with devices comes to: it ends at a device, ...  *)
LEMMA PassFinds ==
    ASSUME NEW w \in Nat, NEW bus \in SUBSET Roms(w), bus # {}, NEW rom \in Roms(w),
           NEW last \in 0 .. w, Turned(bus, rom, last)
    PROVE  LET p == Pass(bus, last, rom)
           IN  /\ p \in PassStates(bus, w) /\ ReadSoFar(bus, rom, last, p, w)
               /\ p.rom \in bus
<1>1. PICK s : BitsOf(s, bus, last, rom, w) /\ Pass(bus, last, rom) = s[w]
  BY PassBits
<1> DEFINE S == {b \in 0 .. w : ReadSoFar(bus, rom, last, s[b], b)}
<1>2. 0 \in S
  <2>1. s[0] = [ok |-> TRUE, alive |-> bus, next |-> 0, rom |-> rom] /\ 0 \in 0 .. w
    BY <1>1 DEF BitsOf
  <2>2. \A d : Agree(d, rom, 0)
    BY DEF Agree
  <2>3. {d \in bus : Agree(d, rom, 0)} = bus
    BY <2>2
  <2>4. 1 .. 0 = {} /\ 0 + 1 .. 0 = {} /\ last + 1 .. 0 = {} /\ 0 \in 0 .. 0
    OBVIOUS
  <2>5. ReadSoFar(bus, rom, last, s[0], 0)
    BY <2>1, <2>3, <2>4 DEF ReadSoFar
  <2> QED
    BY <2>1, <2>5
<1>3. ASSUME NEW b \in 0 + 1 .. w, b - 1 \in S PROVE b \in S
  <2>1. b \in 1 .. w /\ b \in 0 .. w /\ b - 1 \in 0 .. w
    OBVIOUS
  <2>2. s[b - 1] \in PassStates(bus, w) /\ s[b] = ReadBit(s[b - 1], b, last, rom)
    BY <1>1, <2>1 DEF BitsOf
  <2>3. ReadSoFar(bus, rom, last, s[b - 1], b - 1)
    BY <1>3
  <2>4. ReadSoFar(bus, rom, last, s[b], b)
    BY <2>1, <2>2, <2>3, BitKeeps
  <2> QED
    BY <2>1, <2>4
<1> HIDE DEF S
<1>4. 0 .. w \subseteq S
  BY <1>2, <1>3, IntervalInduction
<1>5. w \in 0 .. w
  OBVIOUS
<1>6. ReadSoFar(bus, rom, last, s[w], w) /\ s[w] \in PassStates(bus, w)
  BY <1>1, <1>4, <1>5 DEF S, BitsOf
<1>7. s[w].rom \in bus
  <2>1. PICK d \in bus : Agree(d, s[w].rom, w)
    BY <1>6 DEF ReadSoFar
  <2>2. d \in Roms(w) /\ s[w].rom \in Roms(w)
    BY <1>6 DEF PassStates
  <2>3. d = s[w].rom
    <3>1. \A c \in 1 .. w : d[c] = s[w].rom[c]
      BY <2>1 DEF Agree
    <3> QED
      BY <2>2, <3>1 DEF Roms
  <2> QED
    BY <2>1, <2>3
<1> QED
  BY <1>1, <1>6, <1>7

(* ... and over an empty bus, it fails.                                    *)
LEMMA PassOfNone ==
    ASSUME NEW w \in Nat \ {0}, NEW rom \in Roms(w), NEW last
    PROVE  ~Pass({}, last, rom).ok
<1>1. PICK s : BitsOf(s, {}, last, rom, w) /\ Pass({}, last, rom) = s[w]
  BY PassBits
<1>2. w \in 1 .. w /\ w - 1 \in 0 .. w
  OBVIOUS
<1>3. s[w] = ReadBit(s[w - 1], w, last, rom) /\ s[w - 1] \in PassStates({}, w)
  BY <1>1, <1>2 DEF BitsOf
<1>4. s[w - 1].alive = {}
  BY <1>3 DEF PassStates
<1>5. s[w] = [s[w - 1] EXCEPT !.ok = FALSE]
  BY <1>3, <1>4 DEF ReadBit
<1> QED
  BY <1>1, <1>3, <1>5 DEF PassStates

LEMMA EarlierStill ==
    ASSUME NEW w \in Nat, NEW d, NEW e, NEW f, Earlier(d, e, w), Earlier(e, f, w)
    PROVE  Earlier(d, f, w)
<1>1. PICK b \in 1 .. w : Agree(d, e, b - 1) /\ d[b] = 0 /\ e[b] = 1
  BY DEF Earlier
<1>2. PICK c \in 1 .. w : Agree(e, f, c - 1) /\ e[c] = 0 /\ f[c] = 1
  BY DEF Earlier
<1>3. CASE b < c
  <2>1. b \in 1 .. c - 1 /\ \A x \in 1 .. b - 1 : x \in 1 .. c - 1
    BY <1>3
  <2>2. Agree(d, f, b - 1) /\ f[b] = 1
    BY <1>1, <1>2, <2>1 DEF Agree
  <2> QED
    BY <1>1, <2>2 DEF Earlier
<1>4. CASE c < b
  <2>1. c \in 1 .. b - 1 /\ \A x \in 1 .. c - 1 : x \in 1 .. b - 1
    BY <1>4
  <2>2. Agree(d, f, c - 1) /\ d[c] = 0
    BY <1>1, <1>2, <2>1 DEF Agree
  <2> QED
    BY <1>2, <2>2 DEF Earlier
<1>5. b # c
  BY <1>1, <1>2
<1> QED
  BY <1>3, <1>4, <1>5

(* A pass finds the device next in order to the one found before, ...      *)
LEMMA PassIsNext ==
    ASSUME NEW w \in Nat, NEW bus \in SUBSET Roms(w), NEW rom \in bus,
           NEW last \in 1 .. w, Fork(bus, rom, last),
           \A c \in last + 1 .. w : ~Fork(bus, rom, c),
           NEW p, ReadSoFar(bus, rom, last, p, w), p.rom \in bus
    PROVE  /\ UpToRom(bus, p.rom, w) = UpToRom(bus, rom, w) \cup {p.rom}
           /\ p.rom \notin UpToRom(bus, rom, w)
<1> DEFINE new == p.rom
<1>1. /\ \A c \in 1 .. w : c < last => new[c] = rom[c]
      /\ new[last] = 1 /\ rom[last] = 0
      /\ \A c \in last + 1 .. w : new[c] = 1 => \A d \in bus : Agree(d, new, c - 1) => d[c] = 1
  BY DEF ReadSoFar, Fork
<1> HIDE DEF new
<1>2. Earlier(rom, new, w)
  <2>1. Agree(rom, new, last - 1)
    <3>1. \A c \in 1 .. last - 1 : c \in 1 .. w /\ c < last
      OBVIOUS
    <3> QED
      BY <1>1, <3>1 DEF Agree
  <2> QED
    BY <1>1, <2>1 DEF Earlier
<1>3. new \notin UpToRom(bus, rom, w)
  BY <1>2, NotBothEarlier DEF UpToRom
<1>4. ASSUME NEW d \in bus, Earlier(d, new, w) PROVE d = rom \/ Earlier(d, rom, w)
  <2>1. PICK c \in 1 .. w : Agree(d, new, c - 1) /\ d[c] = 0 /\ new[c] = 1
    BY <1>4 DEF Earlier
  <2>2. c <= last
    <3> SUFFICES ASSUME c > last PROVE FALSE
      OBVIOUS
    <3>1. c \in last + 1 .. w
      OBVIOUS
    <3> QED
      BY <1>1, <2>1, <3>1
  <2>3. Agree(d, rom, c - 1)
    <3>1. \A x \in 1 .. c - 1 : x \in 1 .. w /\ x < last
      BY <2>2
    <3> QED
      BY <1>1, <2>1, <3>1 DEF Agree
  <2>4. CASE c < last
    <3>1. rom[c] = 1
      BY <1>1, <2>1, <2>4
    <3> QED
      BY <2>1, <2>3, <3>1 DEF Earlier
  <2>5. CASE c = last
    <3>1. ASSUME Earlier(rom, d, w) PROVE FALSE
      <4>1. PICK x \in 1 .. w : Agree(rom, d, x - 1) /\ rom[x] = 0 /\ d[x] = 1
        BY <3>1 DEF Earlier
      <4>2. x > last
        <5> SUFFICES ASSUME x <= last PROVE FALSE
          OBVIOUS
        <5>1. x = last \/ x \in 1 .. last - 1
          OBVIOUS
        <5> QED
          BY <2>1, <2>3, <2>5, <4>1, <5>1 DEF Agree
      <4>3. x \in last + 1 .. w /\ Agree(d, rom, x - 1)
        BY <4>1, <4>2 DEF Agree
      <4> QED
        BY <4>1, <4>3 DEF Fork
    <3>2. d \in Roms(w) /\ rom \in Roms(w)
      OBVIOUS
    <3> QED
      BY <3>1, <3>2, FirstDifference
  <2> QED
    BY <2>2, <2>4, <2>5
<1>5. ASSUME NEW d \in bus, d = rom \/ Earlier(d, rom, w) PROVE Earlier(d, new, w)
  BY <1>2, <1>5, EarlierStill
<1>6. UpToRom(bus, new, w) = UpToRom(bus, rom, w) \cup {new}
  BY <1>4, <1>5 DEF UpToRom, new
<1> QED
  BY <1>3, <1>6 DEF new

(* ... the first pass the first of all, ...                                *)
LEMMA PassIsFirst ==
    ASSUME NEW w \in Nat, NEW bus, NEW rom, NEW p, ReadSoFar(bus, rom, 0, p, w),
           p.rom \in bus
    PROVE  UpToRom(bus, p.rom, w) = {p.rom}
<1>1. ASSUME NEW d \in bus, Earlier(d, p.rom, w) PROVE FALSE
  <2>1. PICK c \in 1 .. w : Agree(d, p.rom, c - 1) /\ d[c] = 0 /\ p.rom[c] = 1
    BY <1>1 DEF Earlier
  <2>2. c \in 0 + 1 .. w
    OBVIOUS
  <2> QED
    BY <2>1, <2>2 DEF ReadSoFar
<1> QED
  BY <1>1 DEF UpToRom

(* ... and a pass that took 0 at no fork the last.                         *)
LEMMA PassIsLast ==
    ASSUME NEW w \in Nat, NEW bus \in SUBSET Roms(w), NEW rom \in bus,
           \A c \in 1 .. w : ~Fork(bus, rom, c)
    PROVE  UpToRom(bus, rom, w) = bus
<1> SUFFICES ASSUME NEW d \in bus, d # rom PROVE Earlier(d, rom, w)
  BY DEF UpToRom
<1>1. ASSUME Earlier(rom, d, w) PROVE FALSE
  <2>1. PICK c \in 1 .. w : Agree(rom, d, c - 1) /\ rom[c] = 0 /\ d[c] = 1
    BY <1>1 DEF Earlier
  <2>2. Agree(d, rom, c - 1)
    BY <2>1 DEF Agree
  <2> QED
    BY <2>1, <2>2 DEF Fork
<1>2. d \in Roms(w) /\ rom \in Roms(w)
  OBVIOUS
<1> QED
  BY <1>1, <1>2, FirstDifference

(* What k turns of the loop over the passes have led to.                   *)
ScanStates(w) == [found : Seq(Roms(w)), rom : Roms(w), last : 0 .. w, done : BOOLEAN]

Scanned(bus, w, s, k) ==
    /\ s.found \in Seq(bus) /\ IsInjective(s.found) /\ Len(s.found) <= MaxRoms
    /\ ~s.done => Len(s.found) = k
    /\ ~s.done /\ k = 0 => s.last = 0
    /\ ~s.done /\ k # 0 =>
           /\ s.last # 0 /\ s.rom \in bus /\ Fork(bus, s.rom, s.last)
           /\ \A c \in s.last + 1 .. w : ~Fork(bus, s.rom, c)
           /\ Range(s.found) = UpToRom(bus, s.rom, w)
    /\ s.done => Range(s.found) = bus \/ Len(s.found) = MaxRoms

LEMMA Appends ==
    ASSUME NEW T, NEW s \in Seq(T), IsInjective(s), NEW e \in T, e \notin Range(s)
    PROVE  /\ Append(s, e) \in Seq(T) /\ IsInjective(Append(s, e))
           /\ Len(Append(s, e)) = Len(s) + 1
           /\ Range(Append(s, e)) = Range(s) \cup {e}
<1> DEFINE n == Len(s)
           t == Append(s, e)
<1>1. /\ t \in Seq(T) /\ Len(t) = n + 1 /\ n \in Nat
      /\ DOMAIN t = 1 .. n + 1 /\ DOMAIN s = 1 .. n
      /\ \A i \in 1 .. n : t[i] = s[i]
      /\ t[n + 1] = e
  OBVIOUS
<1> HIDE DEF t, n
<1>2. 1 .. n + 1 = (1 .. n) \cup {n + 1}
  BY <1>1
<1>3. Range(t) = Range(s) \cup {e}
  <2>1. \A i \in 1 .. n : t[i] \in Range(s)
    BY <1>1 DEF Range
  <2>2. ASSUME NEW x \in Range(s) PROVE x \in Range(t)
    <3>1. PICK i \in 1 .. n : x = s[i]
      BY <1>1 DEF Range
    <3> QED
      BY <1>1, <1>2, <3>1 DEF Range
  <2>3. e \in Range(t)
    BY <1>1, <1>2 DEF Range
  <2>4. Range(t) \subseteq Range(s) \cup {e}
    BY <1>1, <1>2, <2>1 DEF Range
  <2> QED
    BY <2>2, <2>3, <2>4
<1>4. IsInjective(t)
  <2> SUFFICES ASSUME NEW i \in 1 .. n + 1, NEW j \in 1 .. n + 1, t[i] = t[j] PROVE i = j
    BY <1>1 DEF IsInjective
  <2>1. CASE i \in 1 .. n /\ j \in 1 .. n
    BY <1>1, <2>1 DEF IsInjective
  <2>2. CASE i = n + 1 /\ j \in 1 .. n
    <3>1. e = s[j] /\ s[j] \in Range(s)
      BY <1>1, <2>2 DEF Range
    <3> QED
      BY <3>1
  <2>3. CASE j = n + 1 /\ i \in 1 .. n
    <3>1. e = s[i] /\ s[i] \in Range(s)
      BY <1>1, <2>3 DEF Range
    <3> QED
      BY <3>1
  <2> QED
    BY <1>2, <2>1, <2>2, <2>3
<1> QED
  BY <1>1, <1>3, <1>4 DEF t, n

LEMMA TurnKeeps ==
    ASSUME NEW w \in Nat \ {0}, NEW bus \in SUBSET Roms(w), NEW k \in Nat,
           NEW s \in ScanStates(w), Scanned(bus, w, s, k)
    PROVE  Scanned(bus, w, SearchOn(bus, s), k + 1)
<1> DEFINE p == Pass(bus, s.last, s.rom)
           t == SearchOn(bus, s)
           on == [found |-> Append(s.found, p.rom), rom |-> p.rom,
                  last |-> p.next, done |-> p.next = 0]
           stop == [s EXCEPT !.done = TRUE]
<1>1. /\ s.found \in Seq(Roms(w)) /\ s.rom \in Roms(w) /\ s.last \in 0 .. w
      /\ s.done \in BOOLEAN
      /\ stop.found = s.found /\ stop.done
  BY DEF ScanStates
<1>2. /\ on.found = Append(s.found, p.rom) /\ on.rom = p.rom
      /\ on.last = p.next /\ (on.done <=> p.next = 0)
  OBVIOUS
<1>3. t = IF s.done THEN s
          ELSE IF ~p.ok \/ Len(s.found) = MaxRoms THEN stop ELSE on
  BY DEF SearchOn
<1> HIDE DEF p, t, on, stop
<1>4. s.found \in Seq(bus) /\ IsInjective(s.found) /\ Len(s.found) <= MaxRoms
      /\ Len(s.found) \in Nat /\ MaxRoms \in Nat
  BY ConstantsAssumption DEF Scanned
<1>5. CASE s.done
  BY <1>3, <1>5 DEF Scanned, t
<1>6. ASSUME ~s.done PROVE Turned(bus, s.rom, s.last)
  BY <1>6 DEF Scanned, Turned
<1>7. CASE ~s.done /\ bus = {}
  <2>1. ~p.ok
    BY <1>1, <1>7, PassOfNone DEF p
  <2>2. t = stop
    BY <1>3, <1>7, <2>1
  <2>3. Range(s.found) = bus
    <3>1. \A i \in DOMAIN s.found : s.found[i] \in bus
      BY <1>4
    <3> QED
      BY <1>7, <3>1 DEF Range
  <2> QED
    BY <1>1, <1>4, <2>2, <2>3 DEF Scanned, t
<1>8. CASE ~s.done /\ bus # {} /\ Len(s.found) = MaxRoms
  <2>1. t = stop
    BY <1>3, <1>8
  <2> QED
    BY <1>1, <1>4, <1>8, <2>1 DEF Scanned, t
<1>9. CASE ~s.done /\ bus # {} /\ Len(s.found) # MaxRoms
  <2>1. ReadSoFar(bus, s.rom, s.last, p, w) /\ p.rom \in bus /\ p \in PassStates(bus, w)
    BY <1>1, <1>6, <1>9, PassFinds DEF p
  <2>2. t = on
    BY <1>3, <1>9, <2>1 DEF ReadSoFar
  <2>3. /\ UpToRom(bus, p.rom, w) = Range(s.found) \cup {p.rom}
        /\ p.rom \notin Range(s.found)
    <3>1. CASE k = 0
      <4>1. s.last = 0 /\ Len(s.found) = 0
        BY <1>9, <3>1 DEF Scanned
      <4>2. Range(s.found) = {}
        BY <1>4, <4>1 DEF Range
      <4>3. ReadSoFar(bus, s.rom, 0, p, w)
        BY <2>1, <4>1
      <4> QED
        BY <2>1, <4>2, <4>3, PassIsFirst
    <3>2. CASE k # 0
      <4>1. /\ s.last \in 1 .. w /\ s.rom \in bus /\ Fork(bus, s.rom, s.last)
            /\ \A c \in s.last + 1 .. w : ~Fork(bus, s.rom, c)
            /\ Range(s.found) = UpToRom(bus, s.rom, w)
        BY <1>1, <1>9, <3>2 DEF Scanned
      <4> QED
        BY <2>1, <4>1, PassIsNext
    <3> QED
      BY <3>1, <3>2
  <2>4. /\ on.found \in Seq(bus) /\ IsInjective(on.found)
        /\ Len(on.found) = Len(s.found) + 1
        /\ Range(on.found) = UpToRom(bus, p.rom, w)
    BY <1>2, <1>4, <2>1, <2>3, Appends
  <2>5. Len(s.found) = k /\ Len(on.found) <= MaxRoms
    BY <1>4, <1>9, <2>4 DEF Scanned
  <2>6. /\ p.next = 0 \/ Fork(bus, p.rom, p.next)
        /\ \A c \in p.next + 1 .. w : ~Fork(bus, p.rom, c)
    BY <2>1 DEF ReadSoFar
  <2>7. p.next = 0 => Range(on.found) = bus
    <3> SUFFICES ASSUME p.next = 0 PROVE Range(on.found) = bus
      OBVIOUS
    <3>1. \A c \in 1 .. w : ~Fork(bus, p.rom, c)
      BY <2>6
    <3> QED
      BY <2>1, <2>4, <3>1, PassIsLast
  <2>8. Scanned(bus, w, on, k + 1)
    <3>1. k + 1 # 0 /\ Len(on.found) = k + 1
      BY <1>4, <2>4, <2>5
    <3> QED
      BY <1>2, <2>1, <2>4, <2>5, <2>6, <2>7, <3>1 DEF Scanned
  <2> QED
    BY <2>2, <2>8 DEF t
<1> QED
  BY <1>1, <1>5, <1>7, <1>8, <1>9

LEMMA TurnType ==
    ASSUME NEW w \in Nat \ {0}, NEW bus \in SUBSET Roms(w), NEW s \in ScanStates(w)
    PROVE  SearchOn(bus, s) \in ScanStates(w)
<1> DEFINE p == Pass(bus, s.last, s.rom)
           on == [found |-> Append(s.found, p.rom), rom |-> p.rom,
                  last |-> p.next, done |-> p.next = 0]
           stop == [s EXCEPT !.done = TRUE]
<1>1. s.found \in Seq(Roms(w)) /\ s.rom \in Roms(w) /\ s.last \in 0 .. w
  BY DEF ScanStates
<1>2. p \in PassStates(bus, w)
  <2>1. PICK b : BitsOf(b, bus, s.last, s.rom, w) /\ p = b[w]
    BY <1>1, PassBits
  <2>2. w \in 0 .. w
    OBVIOUS
  <2> QED
    BY <2>1, <2>2 DEF BitsOf
<1>3. SearchOn(bus, s) \in {s, stop, on}
  BY DEF SearchOn
<1>4. stop \in ScanStates(w)
  BY DEF ScanStates
<1> HIDE DEF p
<1>5. p.rom \in Roms(w) /\ p.next \in 0 .. w
  BY <1>2 DEF PassStates
<1>6. on \in ScanStates(w)
  BY <1>1, <1>5 DEF ScanStates
<1> QED
  BY <1>3, <1>4, <1>6

LEMMA ScanFinds ==
    ASSUME NEW w \in Nat \ {0}, NEW bus \in SUBSET Roms(w)
    PROVE  LET found == ScanRoms(bus, w)
           IN  /\ found \in Seq(bus) /\ IsInjective(found) /\ Len(found) <= MaxRoms
               /\ Range(found) = bus \/ Len(found) = MaxRoms
<1> DEFINE V == ScanStates(w)
           n == MaxRoms + 1
           start == [found |-> <<>>, rom |-> [i \in 1 .. w |-> 0], last |-> 0,
                     done |-> FALSE]
           st == [k \in 0 + 1 .. n |-> [s \in V |-> SearchOn(bus, s)]]
           Loop(s) == s = [k \in 0 .. MaxRoms + 1 |->
                              IF k = 0 THEN start ELSE SearchOn(bus, s[k - 1])]
           all == CHOOSE s : Loop(s)
<1>1. n \in Nat /\ n = MaxRoms + 1
  BY ConstantsAssumption
<1>2. start \in V
  <2>1. [i \in 1 .. w |-> 0] \in Roms(w)
    BY DEF Roms
  <2>2. <<>> \in Seq(Roms(w)) /\ 0 \in 0 .. w
    OBVIOUS
  <2> QED
    BY <2>1, <2>2 DEF ScanStates
<1>3. Scanned(bus, w, start, 0)
  BY ConstantsAssumption DEF Scanned, IsInjective
<1>4. \A s \in V : SearchOn(bus, s) \in V
  BY TurnType
<1>5. ScanRoms(bus, w) = all[MaxRoms + 1].found
  BY DEF ScanRoms
<1> HIDE DEF V, start
<1>6. st \in [0 + 1 .. n -> [V -> V]] /\ \A k \in 1 .. n : \A s \in V : st[k][s] = SearchOn(bus, s)
  BY <1>4
<1> HIDE DEF st
<1>7. PICK g : Turns(g, V, start, 0, n, st)
  <2>1. 0 \in Int /\ n \in Int /\ 0 <= n
    BY <1>1
  <2> QED
    BY <1>2, <1>6, <2>1, Recursion
<1>8. Loop(g)
  <2>1. g \in [0 .. n -> V] /\ g[0] = start /\ \A k \in 1 .. n : g[k] = st[k][g[k - 1]]
    BY <1>7 DEF Turns
  <2>2. \A k \in 0 .. n : g[k] = IF k = 0 THEN start ELSE SearchOn(bus, g[k - 1])
    <3> SUFFICES ASSUME NEW k \in 0 .. n, k # 0 PROVE g[k] = SearchOn(bus, g[k - 1])
      BY <2>1
    <3>1. k \in 1 .. n /\ k - 1 \in 0 .. n
      BY <1>1
    <3>2. g[k - 1] \in V
      BY <2>1, <3>1
    <3> QED
      BY <1>6, <2>1, <3>1, <3>2
  <2>3. g = [k \in 0 .. n |-> g[k]]
    BY <2>1
  <2> QED
    BY <2>2, <2>3
<1>9. Loop(all)
  <2> HIDE DEF Loop
  <2> QED
    BY <1>8
<1> HIDE DEF all
<1> HIDE DEF n
<1>10. \A k \in 0 .. n : all[k] = IF k = 0 THEN start ELSE SearchOn(bus, all[k - 1])
  BY <1>9 DEF n
<1> DEFINE S == {k \in 0 .. n : all[k] \in V /\ Scanned(bus, w, all[k], k)}
<1>11. 0 \in S
  <2>1. 0 \in 0 .. n /\ all[0] = start
    BY <1>1, <1>10
  <2> QED
    BY <1>2, <1>3, <2>1
<1>12. ASSUME NEW k \in 0 + 1 .. n, k - 1 \in S PROVE k \in S
  <2>1. k \in 0 .. n /\ k # 0 /\ k - 1 \in Nat /\ (k - 1) + 1 = k
    BY <1>1
  <2>2. all[k] = SearchOn(bus, all[k - 1])
    BY <1>10, <2>1
  <2>3. all[k - 1] \in V /\ Scanned(bus, w, all[k - 1], k - 1)
    BY <1>12
  <2>4. all[k] \in V
    BY <1>4, <2>2, <2>3
  <2>5. Scanned(bus, w, all[k], k)
    BY <2>1, <2>2, <2>3, TurnKeeps DEF V
  <2> QED
    BY <2>1, <2>4, <2>5
<1> HIDE DEF S
<1>13. 0 .. n \subseteq S
  <2>1. 0 \in Int /\ n \in Int
    BY <1>1
  <2> QED
    BY <1>11, <1>12, <2>1, IntervalInduction
<1>14. all[n] \in V /\ Scanned(bus, w, all[n], n)
  <2>1. n \in 0 .. n
    BY <1>1
  <2> QED
    BY <1>13, <2>1 DEF S
<1>15. all[n].done
  <2>1. all[n].done \in BOOLEAN /\ MaxRoms \in Nat
    BY <1>14, ConstantsAssumption DEF V, ScanStates
  <2> QED
    BY <1>1, <1>14, <2>1 DEF Scanned
<1> QED
  BY <1>1, <1>5, <1>14, <1>15 DEF Scanned

(* The search for the probes finds every device on the one-wire bus, each  *)
(* once, and with more than there is room for as many as fit, whatever the *)
(* identifiers are and however long (sensor.rs 194-270).                   *)
THEOREM SearchComplete == AlgorithmsSpec => []SearchFindsAll
<1>1. input \in Inputs => SearchFindsAll
  <2> SUFFICES ASSUME input \in Inputs, input.kind = "bus"
               PROVE  LET found == ScanRoms(input.bus, input.width)
                      IN  /\ IsInjective(found)
                          /\ Range(found) \subseteq input.bus
                          /\ Len(found) = Min({MaxRoms, Cardinality(input.bus)})
    BY DEF SearchFindsAll
  <2> DEFINE w == input.width
             bus == input.bus
             found == ScanRoms(bus, w)
             n == Len(found)
  <2>1. WellFormed(input)
    BY InputAssumption
  <2>2. w \in Nat \ {0} /\ bus \in SUBSET Roms(w) /\ IsFiniteSet(bus)
    BY <2>1 DEF WellFormed, Roms
  <2>3. /\ found \in Seq(bus) /\ IsInjective(found) /\ n <= MaxRoms
        /\ Range(found) = bus \/ n = MaxRoms
    BY <2>2, ScanFinds
  <2> HIDE DEF found
  <2>4. n \in Nat /\ DOMAIN found = 1 .. n /\ found \in [1 .. n -> bus]
    BY <2>3
  <2>5. Range(found) \subseteq bus
    BY <2>4 DEF Range
  <2>6. found \in Injection(1 .. n, bus)
    BY <2>3, <2>4 DEF Injection
  <2>7. Cardinality(1 .. n) = n
    BY <2>4, FS_Interval
  <2>8. Cardinality(bus) \in Nat
    BY <2>2, FS_CardinalityType
  <2>9. n <= Cardinality(bus) /\ (Range(found) = bus => n = Cardinality(bus))
    <3>1. /\ Cardinality(1 .. n) <= Cardinality(bus)
          /\ Cardinality(1 .. n) = Cardinality(bus) <=> found \in Surjection(1 .. n, bus)
      BY <2>2, <2>6, FS_Injection
    <3>2. Range(found) = bus => found \in Surjection(1 .. n, bus)
      BY <2>4 DEF Surjection, Range
    <3> QED
      BY <2>7, <3>1, <3>2
  <2>10. n = Min({MaxRoms, Cardinality(bus)})
    <3> DEFINE c == Cardinality(bus)
    <3>1. MaxRoms \in Nat
      BY ConstantsAssumption
    <3>2. Min({MaxRoms, c}) = IF MaxRoms <= c THEN MaxRoms ELSE c
      BY <2>8, <3>1, MinOfTwo
    <3>3. n = c \/ n = MaxRoms
      BY <2>3, <2>9
    <3> HIDE DEF c, n
    <3> QED
      BY <2>3, <2>4, <2>8, <2>9, <3>1, <3>2, <3>3 DEF c
  <2> QED
    BY <2>3, <2>5, <2>10 DEF found
<1> QED
  BY <1>1, InputStays, PTL

----------------------------------------------------------------------------
(* The poll interval, temperatures and flags.                              *)

LEMMA FloorMonotone ==
    ASSUME NEW a \in Int, NEW b \in Int, NEW d \in Nat \ {0}, a <= b
    PROVE  a \div d <= b \div d
OBVIOUS

LEMMA PollRamps ==
    ASSUME NEW age \in Nat
    PROVE  /\ PollInterval(age) \in MinPoll .. MaxPoll
           /\ PollInterval(age) <= PollInterval(age + 1)
<1> DEFINE D == MaxPoll - MinPoll
           P(k) == (k * D + Ramp \div 2) \div Ramp
<1>1. MinPoll \in Nat /\ MaxPoll \in Nat /\ D \in Nat /\ Ramp \in Nat /\ Ramp > 0
      /\ MaxPoll = MinPoll + D
  BY ConstantsAssumption
<1>2. Ramp \div 2 \in Nat /\ Ramp \div 2 < Ramp
  BY <1>1
<1>3. ASSUME NEW k \in Nat PROVE PollInterval(k) = IF k >= Ramp THEN MaxPoll ELSE MinPoll + P(k)
  BY DEF PollInterval
<1> HIDE DEF D
<1>4. ASSUME NEW k \in Nat, k < Ramp PROVE P(k) \in 0 .. D
  <2>1. k * D \in Nat /\ k * D + D <= Ramp * D
    <3>1. PICK e \in Nat : Ramp = (k + 1) + e
      <4>1. Ramp - (k + 1) \in Nat
        BY <1>1, <1>4
      <4> QED
        BY <1>1, <4>1
    <3>2. Ramp * D = k * D + D + e * D /\ e * D \in Nat /\ k * D \in Nat
      BY <1>1, <3>1
    <3> QED
      BY <1>1, <3>2
  <2>2. k * D + Ramp \div 2 \in Nat /\ k * D + Ramp \div 2 < (D + 1) * Ramp
    BY <1>1, <1>2, <2>1
  <2>3. P(k) \in 0 .. (D + 1) - 1
    <3> DEFINE i == k * D + Ramp \div 2
    <3>1. i \in Nat /\ i < (D + 1) * Ramp
      BY <2>2
    <3> HIDE DEF i
    <3>2. i \div Ramp \in 0 .. (D + 1) - 1
      BY <1>1, <3>1, BlockOf
    <3> QED
      BY <3>2 DEF i
  <2> QED
    BY <1>1, <2>3
<1>5. ASSUME NEW k \in Nat PROVE PollInterval(k) \in MinPoll .. MaxPoll
  <2> HIDE DEF P
  <2> QED
    BY <1>1, <1>3, <1>4
<1>6. ASSUME age + 1 < Ramp PROVE P(age) <= P(age + 1) /\ P(age) \in Int /\ P(age + 1) \in Int
  <2>1. age * D \in Nat /\ (age + 1) * D = age * D + D
    BY <1>1
  <2>2. age * D + Ramp \div 2 \in Int /\ (age + 1) * D + Ramp \div 2 \in Int
        /\ age * D + Ramp \div 2 <= (age + 1) * D + Ramp \div 2
    BY <1>1, <1>2, <2>1
  <2>3. P(age) <= P(age + 1)
    BY <1>1, <2>2, FloorMonotone
  <2>4. P(age) \in 0 .. D /\ P(age + 1) \in 0 .. D
    BY <1>1, <1>4, <1>6
  <2> HIDE DEF P
  <2> QED
    BY <1>1, <2>3, <2>4
<1>7. PollInterval(age) <= PollInterval(age + 1)
  <2>1. CASE age + 1 >= Ramp
    <3>1. PollInterval(age + 1) = MaxPoll
      BY <1>3, <2>1
    <3> QED
      BY <1>1, <1>5, <3>1
  <2>2. CASE age + 1 < Ramp
    <3>1. PollInterval(age + 1) = MinPoll + P(age + 1) /\ PollInterval(age) = MinPoll + P(age)
      <4> HIDE DEF P
      <4> QED
        BY <1>1, <1>3, <2>2
    <3> HIDE DEF P
    <3> QED
      BY <1>1, <1>6, <2>2, <3>1
  <2> QED
    BY <1>1, <2>1, <2>2
<1> QED
  BY <1>5, <1>7

LEMMA FlagsReturn ==
    ASSUME NEW f \in SUBSET Range(FlagBits)
    PROVE  DecodeFlags(EncodeFlags(f)) = f
<1> DEFINE bit(i) == IF FlagBits[i] \in f THEN Mask[i] ELSE 0
           w == EncodeFlags(f)
<1>1. w = bit(1) + bit(2) + bit(3) + bit(4) + bit(5)
  BY DEF EncodeFlags
<1>2. \A i \in 1 .. 5 : (w \div Mask[i]) % 2 = 1 <=> FlagBits[i] \in f
  <2> DEFINE b(x) == IF x THEN 1 ELSE 0
  <2>1. w = b(FlagBits[1] \in f) + 2 * b(FlagBits[2] \in f) + 4 * b(FlagBits[3] \in f)
            + 8 * b(FlagBits[4] \in f) + 16 * b(FlagBits[5] \in f)
    BY <1>1 DEF Mask
  <2>2. PICK b1, b2, b3, b4, b5 \in {0, 1} :
          /\ b1 = b(FlagBits[1] \in f) /\ b2 = b(FlagBits[2] \in f)
          /\ b3 = b(FlagBits[3] \in f) /\ b4 = b(FlagBits[4] \in f)
          /\ b5 = b(FlagBits[5] \in f)
    OBVIOUS
  <2> HIDE DEF w
  <2>3. w = b1 + 2 * b2 + 4 * b3 + 8 * b4 + 16 * b5
    BY <2>1, <2>2
  <2>4. /\ (w \div 1) % 2 = b1 /\ (w \div 2) % 2 = b2 /\ (w \div 4) % 2 = b3
        /\ (w \div 8) % 2 = b4 /\ (w \div 16) % 2 = b5
    BY <2>3
  <2>5. /\ (w \div Mask[1]) % 2 = 1 <=> FlagBits[1] \in f
        /\ (w \div Mask[2]) % 2 = 1 <=> FlagBits[2] \in f
        /\ (w \div Mask[3]) % 2 = 1 <=> FlagBits[3] \in f
        /\ (w \div Mask[4]) % 2 = 1 <=> FlagBits[4] \in f
        /\ (w \div Mask[5]) % 2 = 1 <=> FlagBits[5] \in f
    BY <2>2, <2>4 DEF Mask
  <2>6. \A i \in 1 .. 5 : i = 1 \/ i = 2 \/ i = 3 \/ i = 4 \/ i = 5
    OBVIOUS
  <2> QED
    BY <2>5, <2>6
<1>3. DecodeFlags(w) = {FlagBits[i] : i \in {j \in 1 .. 5 : FlagBits[j] \in f}}
  <2> HIDE DEF w
  <2> QED
    BY <1>2 DEF DecodeFlags
<1>4. Range(FlagBits) = {FlagBits[i] : i \in 1 .. 5}
  <2>1. DOMAIN FlagBits = 1 .. 5
    BY DEF FlagBits
  <2> QED
    BY <2>1 DEF Range
<1> QED
  BY <1>3, <1>4

LEMMA ClampKeeps ==
    ASSUME NEW c \in Int, NEW lo \in Int, NEW hi \in Int, lo <= hi
    PROVE  Clamp(c, lo, hi) \in lo .. hi /\ (c \in lo .. hi => Clamp(c, lo, hi) = c)
BY DEF Clamp

LEMMA I16Bounds ==
    /\ I16Min \in Int /\ I16Max \in Int /\ I16Min < I16Max
    /\ Unknown \in Int /\ Unknown < I16Min
BY ConstantsAssumption DEF I16Min, I16Max

LEMMA TempReturns ==
    ASSUME NEW c \in Int
    PROVE  LET t == DecodeTemp(EncodeTemp(c))
           IN  /\ t = Unknown <=> c = Unknown
               /\ c \in I16Min .. I16Max - 1 => t = c
<1>1. CASE c = Unknown
  <2>1. DecodeTemp(EncodeTemp(c)) = Unknown
    BY <1>1 DEF DecodeTemp, EncodeTemp
  <2> QED
    BY <1>1, <2>1, I16Bounds
<1>2. CASE c # Unknown
  <2>1. PICK e : e = Clamp(c, I16Min, I16Max - 1)
    OBVIOUS
  <2>2. e \in I16Min .. I16Max - 1 /\ (c \in I16Min .. I16Max - 1 => e = c)
    BY <2>1, ClampKeeps, I16Bounds
  <2>3. e # TempNone /\ e # Unknown
    BY <2>2, I16Bounds DEF TempNone
  <2>4. EncodeTemp(c) = e /\ DecodeTemp(e) = e
    BY <1>2, <2>1, <2>3 DEF EncodeTemp, DecodeTemp
  <2> QED
    BY <1>2, <2>2, <2>3, <2>4
<1> QED
  BY <1>1, <1>2

----------------------------------------------------------------------------
(* Host names.                                                             *)

Letters == {"a", "-"}

(* The loop of Hostname over s.                                            *)
Pushes(f, s) ==
    /\ f \in [0 .. Len(s) -> Seq(Letters)]
    /\ f[0] = <<>>
    /\ \A i \in 1 .. Len(s) : f[i] = Push(f[i - 1], s[i])

LEMMA HostnamePushes ==
    ASSUME NEW s, Len(s) \in Nat
    PROVE  \E f : /\ Pushes(f, s)
                  /\ Hostname(s) = IF Trim(f[Len(s)]) = <<>> THEN <<"a">> ELSE Trim(f[Len(s)])
<1> DEFINE n == Len(s)
           V == Seq(Letters)
           st == [i \in 0 + 1 .. n |-> [v \in V |-> Push(v, s[i])]]
           Loop(f) == f = [i \in 0 .. n |-> IF i = 0 THEN <<>> ELSE Push(f[i - 1], s[i])]
<1>1. n \in Nat /\ <<>> \in V
  OBVIOUS
<1>2. \A c : Mapped(c) \in Letters
  BY DEF Mapped, Letters
<1>3. ASSUME NEW v \in V, NEW c PROVE Push(v, c) \in V
  BY <1>2, AppendProperties DEF Push
<1>4. st \in [0 + 1 .. n -> [V -> V]]
  BY <1>3
<1> HIDE DEF V
<1>5. \A i \in 1 .. n, v \in V : st[i][v] = Push(v, s[i])
  OBVIOUS
<1> HIDE DEF st, n
<1>6. PICK g \in [0 .. n -> V] : g[0] = <<>> /\ \A i \in 0 + 1 .. n : g[i] = st[i][g[i - 1]]
  <2>1. 0 \in Int /\ n \in Int /\ 0 <= n
    BY <1>1
  <2>2. \E g : Turns(g, V, <<>>, 0, n, st)
    BY <1>1, <1>4, <2>1, Recursion
  <2> QED
    BY <2>2 DEF Turns
<1>7. \A i \in 1 .. n : g[i] = Push(g[i - 1], s[i])
  <2> SUFFICES ASSUME NEW i \in 1 .. n PROVE g[i] = Push(g[i - 1], s[i])
    OBVIOUS
  <2>1. i - 1 \in 0 .. n /\ i \in 0 + 1 .. n
    BY <1>1
  <2> QED
    BY <1>5, <1>6, <2>1
<1>8. Loop(g)
  <2>1. g = [i \in 0 .. n |-> g[i]]
    OBVIOUS
  <2>2. \A i \in 0 .. n : g[i] = IF i = 0 THEN <<>> ELSE Push(g[i - 1], s[i])
    <3> SUFFICES ASSUME NEW i \in 0 .. n PROVE g[i] = IF i = 0 THEN <<>> ELSE Push(g[i - 1], s[i])
      OBVIOUS
    <3>1. i = 0 \/ i \in 1 .. n
      BY <1>1
    <3> QED
      BY <1>6, <1>7, <3>1
  <2> QED
    BY <2>1, <2>2
<1> DEFINE f == CHOOSE h : Loop(h)
<1>9. Loop(f)
  <2> HIDE DEF Loop
  <2> QED
    BY <1>8
<1>10. Hostname(s) = IF Trim(f[n]) = <<>> THEN <<"a">> ELSE Trim(f[n])
  BY DEF Hostname, n
<1> HIDE DEF f
<1>11. f[0] = <<>> /\ \A i \in 1 .. n : f[i] = Push(f[i - 1], s[i])
  <2>0. PICK h : h = f /\ Loop(h)
    BY <1>9
  <2>1. \A i \in 0 .. n : h[i] = IF i = 0 THEN <<>> ELSE Push(h[i - 1], s[i])
    BY <2>0
  <2>2. \A i \in 1 .. n : i \in 0 .. n /\ i # 0
    BY <1>1
  <2>3. 0 \in 0 .. n
    BY <1>1
  <2> QED
    BY <2>0, <2>1, <2>2, <2>3
<1>12. \A i \in Nat : i <= n => f[i] \in V
  <2> DEFINE Done == {i \in Nat : i <= n => f[i] \in V}
  <2>1. 0 \in Done
    BY <1>1, <1>11
  <2>2. ASSUME NEW i \in Nat, i \in Done PROVE i + 1 \in Done
    <3> SUFFICES ASSUME i + 1 <= n PROVE f[i + 1] \in V
      OBVIOUS
    <3>1. f[i] \in V /\ i + 1 \in 1 .. n /\ (i + 1) - 1 = i
      BY <1>1, <2>2
    <3> QED
      BY <1>3, <1>11, <3>1
  <2> HIDE DEF Done
  <2>3. Nat \subseteq Done
    BY <2>1, <2>2, Induction
  <2> QED
    BY <2>3 DEF Done
<1>13. f = [i \in 0 .. n |-> f[i]]
  BY <1>9
<1>14. f \in [0 .. n -> V]
  BY <1>1, <1>12, <1>13
<1>15. Pushes(f, s)
  BY <1>11, <1>14 DEF Pushes, n, V
<1> QED
  BY <1>10, <1>15 DEF n

(* The dashes at the end are taken off, and no more.                       *)
LEMMA TrimIs ==
    ASSUME NEW v \in Seq(Letters)
    PROVE  /\ Trim(v) \in Seq(Letters) /\ Len(Trim(v)) <= Len(v)
           /\ \A i \in 1 .. Len(Trim(v)) : Trim(v)[i] = v[i]
           /\ Trim(v) # <<>> => Trim(v)[Len(Trim(v))] # "-"
           /\ v # <<>> /\ v[Len(v)] # "-" => Trim(v) = v
<1> DEFINE kept == {i \in DOMAIN v : v[i] # "-"}
<1>0. DOMAIN v = 1 .. Len(v) /\ Len(v) \in Nat
  OBVIOUS
<1>1. CASE kept = {}
  <2>1. Trim(v) = <<>>
    BY <1>1 DEF Trim
  <2>2. v # <<>> => v[Len(v)] = "-"
    BY <1>0, <1>1
  <2> QED
    BY <1>0, <2>1, <2>2
<1>2. CASE kept # {}
  <2>1. kept \in SUBSET (1 .. Len(v))
    BY <1>0
  <2>2. PICK m \in kept : \A k \in kept : k <= m
    <3>1. kept \in SUBSET Int /\ Len(v) \in Int /\ \A x \in kept : x <= Len(v)
      BY <2>1
    <3> HIDE DEF kept
    <3> QED
      BY <1>2, <3>1, Greatest, Zenon
  <2>3. Max(kept) = m
    <3>1. PICK x \in kept : x = Max(kept) /\ \A k \in kept : x >= k
      <4> HIDE DEF kept
      <4> QED
        BY <2>2 DEF Max
    <3>2. x \in Int /\ m \in Int /\ x >= m /\ m >= x
      BY <2>1, <2>2, <3>1
    <3> QED
      BY <3>1, <3>2
  <2>4. Trim(v) = SubSeq(v, 1, m)
    BY <1>2, <2>3 DEF Trim
  <2>5. m \in 1 .. Len(v) /\ v[m] # "-"
    BY <2>1, <2>2
  <2>6. Trim(v) \in Seq(Letters) /\ Len(Trim(v)) = m /\ \A i \in 1 .. m : Trim(v)[i] = v[i]
    BY <1>0, <2>4, <2>5
  <2>7. ASSUME v[Len(v)] # "-" PROVE Trim(v) = v
    <3>1. Len(v) \in kept
      BY <1>0, <2>5, <2>7
    <3>2. m = Len(v)
      <4>1. Len(v) <= m
        <5> HIDE DEF kept
        <5> QED
          BY <2>2, <3>1
      <4> QED
        BY <1>0, <2>5, <4>1
    <3> QED
      BY <2>4, <3>2, SubSeqFull
  <2> QED
    BY <1>0, <2>5, <2>6, <2>7
<1> QED
  BY <1>1, <1>2

LEMMA HostnameLabel ==
    ASSUME NEW s \in Seq(STRING)
    PROVE  LET name == Hostname(s)
           IN  /\ name \in Seq(Letters) /\ Len(name) \in 1 .. HostLen
               /\ name[1] # "-" /\ name[Len(name)] # "-"
<1>1. PICK f : /\ Pushes(f, s)
               /\ Hostname(s) = IF Trim(f[Len(s)]) = <<>> THEN <<"a">> ELSE Trim(f[Len(s)])
  BY HostnamePushes
<1> DEFINE n == Len(s)
           Fits(v) == Len(v) <= HostLen /\ (v # <<>> => v[1] # "-")
           Done == {i \in Nat : i <= n => Fits(f[i])}
<1>2. /\ n \in Nat /\ f[0] = <<>> /\ HostLen \in Nat /\ HostLen > 0
      /\ \A i \in 0 .. n : f[i] \in Seq(Letters)
      /\ \A i \in 1 .. n : f[i] = Push(f[i - 1], s[i])
  <2>1. /\ f \in [0 .. n -> Seq(Letters)] /\ f[0] = <<>>
        /\ \A i \in 1 .. n : f[i] = Push(f[i - 1], s[i])
    BY <1>1 DEF Pushes
  <2>2. \A i \in 0 .. n : f[i] \in Seq(Letters)
    BY <2>1
  <2>3. n \in Nat /\ HostLen \in Nat /\ HostLen > 0
    BY ConstantsAssumption
  <2> QED
    BY <2>1, <2>2, <2>3
<1> HIDE DEF n
<1>3. 0 \in Done
  BY <1>2
<1>4. ASSUME NEW i \in Nat, i \in Done PROVE i + 1 \in Done
  <2> SUFFICES ASSUME i + 1 <= n PROVE Fits(f[i + 1])
    OBVIOUS
  <2>1. Fits(f[i]) /\ i \in 0 .. n /\ i + 1 \in 1 .. n /\ (i + 1) - 1 = i
    BY <1>2, <1>4
  <2>2. PICK v \in Seq(Letters) : v = f[i]
    BY <1>2, <2>1
  <2> DEFINE c == s[i + 1]
  <2>3. f[i + 1] = Push(v, c) /\ Fits(v)
    BY <1>2, <2>1, <2>2
  <2>4. CASE Push(v, c) = v
    BY <2>3, <2>4
  <2>5. CASE Push(v, c) = Append(v, Mapped(c)) /\ Len(v) < HostLen
             /\ ~(v = <<>> /\ Mapped(c) = "-")
    <3> DEFINE w == Append(v, Mapped(c))
    <3>1. Mapped(c) \in Letters
      BY DEF Mapped, Letters
    <3>2. /\ w \in Seq(Letters) /\ Len(w) = Len(v) + 1 /\ w[Len(v) + 1] = Mapped(c)
          /\ \A k \in 1 .. Len(v) : w[k] = v[k]
      BY <3>1, AppendProperties
    <3> HIDE DEF w
    <3>3. Len(w) <= HostLen
      BY <1>2, <2>5, <3>2
    <3>4. w[1] # "-"
      <4>1. CASE v = <<>>
        BY <2>5, <3>2, <4>1
      <4>2. CASE v # <<>>
        <5>1. 1 \in 1 .. Len(v)
          BY <4>2
        <5> QED
          BY <2>3, <3>2, <4>2, <5>1
      <4> QED
        BY <4>1, <4>2
    <3> QED
      BY <2>3, <2>5, <3>3, <3>4 DEF w
  <2>6. Push(v, c) = v \/ (Push(v, c) = Append(v, Mapped(c)) /\ Len(v) < HostLen
                           /\ ~(v = <<>> /\ Mapped(c) = "-"))
    BY <1>2 DEF Push
  <2> QED
    BY <2>4, <2>5, <2>6
<1> HIDE DEF Done
<1>5. Nat \subseteq Done
  BY <1>3, <1>4, Induction
<1>6. PICK v \in Seq(Letters) : v = f[n] /\ Fits(v)
  <2>1. n \in Done /\ n \in 0 .. n
    BY <1>2, <1>5
  <2> QED
    BY <1>2, <2>1 DEF Done
<1>7. CASE Trim(v) = <<>>
  <2>1. Hostname(s) = <<"a">>
    BY <1>1, <1>6, <1>7 DEF n
  <2>2. <<"a">> \in Seq(Letters) /\ Len(<<"a">>) = 1 /\ <<"a">>[1] = "a"
    BY DEF Letters
  <2> QED
    BY <1>2, <2>1, <2>2
<1>8. CASE Trim(v) # <<>>
  <2>1. PICK w : w = Trim(v)
    OBVIOUS
  <2>2. Hostname(s) = w
    BY <1>1, <1>6, <1>8, <2>1 DEF n
  <2>3. /\ w \in Seq(Letters) /\ Len(w) <= Len(v) /\ w # <<>> /\ w[Len(w)] # "-"
        /\ \A i \in 1 .. Len(w) : w[i] = v[i]
    BY <1>8, <2>1, TrimIs
  <2>4. 1 \in 1 .. Len(w) /\ v # <<>>
    BY <2>3
  <2> QED
    BY <1>2, <1>6, <2>2, <2>3, <2>4
<1> QED
  BY <1>7, <1>8

(* A label is its own host name: nothing is left out, mapped or trimmed.   *)
LEMMA LabelReturns ==
    ASSUME NEW s \in Seq(Letters), Len(s) \in 1 .. HostLen, s[1] # "-", s[Len(s)] # "-"
    PROVE  Hostname(s) = s
<1>0. Len(s) \in Nat
  OBVIOUS
<1>1. PICK f : /\ Pushes(f, s)
               /\ Hostname(s) = IF Trim(f[Len(s)]) = <<>> THEN <<"a">> ELSE Trim(f[Len(s)])
  BY <1>0, HostnamePushes
<1> DEFINE n == Len(s)
           Done == {i \in Nat : i <= n => f[i] = SubSeq(s, 1, i)}
<1>2. /\ n \in Nat /\ n >= 1 /\ n <= HostLen /\ f[0] = <<>> /\ HostLen \in Nat
      /\ \A i \in 1 .. n : f[i] = Push(f[i - 1], s[i])
  BY <1>1, ConstantsAssumption DEF Pushes
<1>3. 0 \in Done
  <2>1. SubSeq(s, 1, 0) = <<>>
    OBVIOUS
  <2> QED
    BY <1>2, <2>1
<1>4. ASSUME NEW i \in Nat, i \in Done PROVE i + 1 \in Done
  <2> SUFFICES ASSUME i + 1 <= n PROVE f[i + 1] = SubSeq(s, 1, i + 1)
    OBVIOUS
  <2>1. f[i] = SubSeq(s, 1, i) /\ i + 1 \in 1 .. n /\ (i + 1) - 1 = i
    BY <1>2, <1>4
  <2> DEFINE u == SubSeq(s, 1, i)
  <2>2. u \in Seq(Letters) /\ Len(u) = i /\ \A k \in 1 .. i : u[k] = s[k]
    BY <2>1
  <2>3. Mapped(s[i + 1]) = s[i + 1] /\ s[i + 1] \in Letters
    <3>1. s[i + 1] \in Letters
      BY <2>1
    <3> QED
      BY <3>1 DEF Mapped, Letters
  <2>4. f[i + 1] = Push(u, s[i + 1])
    BY <1>2, <2>1
  <2> HIDE DEF u
  <2>5. Push(u, s[i + 1]) = Append(u, s[i + 1])
    <3>1. ~(Len(u) >= HostLen)
      BY <1>2, <2>1, <2>2
    <3>2. u = <<>> => i = 0
      BY <2>2
    <3>3. ~(u = <<>> /\ s[i + 1] = "-")
      BY <3>2
    <3> QED
      BY <2>3, <3>1, <3>3 DEF Push
  <2> DEFINE w == Append(u, s[i + 1])
             x == SubSeq(s, 1, i + 1)
  <2>6. /\ w \in Seq(Letters) /\ Len(w) = i + 1 /\ w[i + 1] = s[i + 1]
        /\ \A k \in 1 .. i : w[k] = s[k]
    BY <2>2, <2>3, AppendProperties
  <2>7. x \in Seq(Letters) /\ Len(x) = i + 1 /\ \A k \in 1 .. i + 1 : x[k] = s[k]
    BY <2>1
  <2> HIDE DEF w, x
  <2>8. \A k \in 1 .. Len(w) : w[k] = x[k]
    <3> SUFFICES ASSUME NEW k \in 1 .. Len(w) PROVE w[k] = x[k]
      OBVIOUS
    <3>1. k \in 1 .. i + 1 /\ (k = i + 1 \/ k \in 1 .. i)
      BY <2>6
    <3> QED
      BY <2>6, <2>7, <3>1
  <2>9. w = x
    BY <2>6, <2>7, <2>8, SeqEqual
  <2> QED
    BY <2>4, <2>5, <2>9 DEF w, x
<1> HIDE DEF Done
<1>5. Nat \subseteq Done
  BY <1>3, <1>4, Induction
<1>6. f[n] = s
  <2>1. n \in Done
    BY <1>2, <1>5
  <2> QED
    BY <1>2, <2>1, SubSeqFull DEF Done
<1>7. Trim(s) = s /\ s # <<>>
  BY TrimIs
<1> QED
  BY <1>1, <1>6, <1>7

----------------------------------------------------------------------------
(* Dates.                                                                  *)

(* The days before January 1st of year y, and before month m of it.        *)
BeforeYear(y) == 365 * y + (y - 1) \div 4 - (y - 1) \div 100 + (y - 1) \div 400
LeapDay(y) == IF Leap(y) THEN 1 ELSE 0
BeforeMonth(y, m) ==
    <<0, 31, 59, 90, 120, 151, 181, 212, 243, 273, 304, 334>>[m]
    + (IF m > 2 THEN LeapDay(y) ELSE 0)

LEMMA LeapCounts ==
    ASSUME NEW y \in Nat \ {0}
    PROVE  y \div 4 - y \div 100 + y \div 400
           = (y - 1) \div 4 - (y - 1) \div 100 + (y - 1) \div 400 + LeapDay(y)
<1>1. \A d \in {4, 100, 400} :
          y \div d = (y - 1) \div d + (IF y % d = 0 THEN 1 ELSE 0)
  OBVIOUS
<1>2. (y % 400 = 0 => y % 100 = 0) /\ (y % 100 = 0 => y % 4 = 0)
  OBVIOUS
<1>3. /\ y \div 4 = (y - 1) \div 4 + (IF y % 4 = 0 THEN 1 ELSE 0)
      /\ y \div 100 = (y - 1) \div 100 + (IF y % 100 = 0 THEN 1 ELSE 0)
      /\ y \div 400 = (y - 1) \div 400 + (IF y % 400 = 0 THEN 1 ELSE 0)
  BY <1>1
<1>4. (y - 1) \div 4 \in Int /\ (y - 1) \div 100 \in Int /\ (y - 1) \div 400 \in Int
  OBVIOUS
<1> QED
  BY <1>2, <1>3, <1>4 DEF LeapDay, Leap

LEMMA NextYear ==
    ASSUME NEW y \in Nat \ {0}
    PROVE  /\ BeforeYear(y) \in Int
           /\ BeforeYear(y + 1) = BeforeYear(y) + (IF Leap(y) THEN 366 ELSE 365)
<1>1. /\ BeforeYear(y) = 365 * y + (y - 1) \div 4 - (y - 1) \div 100 + (y - 1) \div 400
      /\ BeforeYear(y + 1) = 365 * (y + 1) + y \div 4 - y \div 100 + y \div 400
  BY DEF BeforeYear
<1>2. /\ (y - 1) \div 4 \in Int /\ (y - 1) \div 100 \in Int /\ (y - 1) \div 400 \in Int
      /\ y \div 4 \in Int /\ y \div 100 \in Int /\ y \div 400 \in Int
  OBVIOUS
<1> QED
  BY <1>1, <1>2, LeapCounts DEF LeapDay

YearsUpTo(f, a, y) ==
    f = [k \in a .. y |->
            IF k = a THEN 0 ELSE f[k - 1] + (IF Leap(k - 1) THEN 366 ELSE 365)]

YearsFrom(a, y) == CHOOSE f : YearsUpTo(f, a, y)

LEMMA YearsCounted ==
    ASSUME NEW a \in Nat \ {0}, NEW y \in Nat, a <= y
    PROVE  YearsFrom(a, y)[y] = BeforeYear(y) - BeforeYear(a)
<1> DEFINE g == [k \in a .. y |-> BeforeYear(k) - BeforeYear(a)]
           years == YearsFrom(a, y)
<1>1. BeforeYear(a) \in Int /\ BeforeYear(a) - BeforeYear(a) = 0
  BY NextYear
<1>2. \A k \in a + 1 .. y :
          /\ k - 1 \in a .. y /\ BeforeYear(k - 1) \in Int
          /\ BeforeYear(k) = BeforeYear(k - 1) + (IF Leap(k - 1) THEN 366 ELSE 365)
  <2> SUFFICES ASSUME NEW k \in a + 1 .. y
               PROVE  /\ k - 1 \in a .. y /\ BeforeYear(k - 1) \in Int
                      /\ BeforeYear(k) = BeforeYear(k - 1) + (IF Leap(k - 1) THEN 366 ELSE 365)
    OBVIOUS
  <2>1. k - 1 \in Nat \ {0} /\ k - 1 \in a .. y /\ (k - 1) + 1 = k
    OBVIOUS
  <2> QED
    BY <2>1, NextYear
<1>3. YearsUpTo(g, a, y)
  <2>1. \A k \in a .. y :
            g[k] = IF k = a THEN 0 ELSE g[k - 1] + (IF Leap(k - 1) THEN 366 ELSE 365)
    <3> SUFFICES ASSUME NEW k \in a .. y
                 PROVE  g[k] = IF k = a THEN 0
                               ELSE g[k - 1] + (IF Leap(k - 1) THEN 366 ELSE 365)
      OBVIOUS
    <3>1. CASE k = a
      BY <1>1, <3>1
    <3>2. CASE k # a
      <4>1. k \in a + 1 .. y
        BY <3>2
      <4>2. /\ k - 1 \in a .. y /\ BeforeYear(k - 1) \in Int
            /\ BeforeYear(k) = BeforeYear(k - 1) + (IF Leap(k - 1) THEN 366 ELSE 365)
        BY <1>2, <4>1
      <4>3. g[k] = BeforeYear(k) - BeforeYear(a) /\ g[k - 1] = BeforeYear(k - 1) - BeforeYear(a)
        BY <4>2
      <4> HIDE DEF g
      <4> QED
        BY <1>1, <3>2, <4>2, <4>3
    <3> QED
      BY <3>1, <3>2
  <2> HIDE DEF g
  <2>2. g = [k \in a .. y |-> g[k]]
    BY DEF g
  <2> QED
    BY <2>1, <2>2 DEF YearsUpTo
<1>4. YearsUpTo(years, a, y)
  <2> HIDE DEF g
  <2> QED
    BY <1>3 DEF YearsFrom
<1> HIDE DEF years, g
<1>5. \A k \in a .. y :
          years[k] = IF k = a THEN 0 ELSE years[k - 1] + (IF Leap(k - 1) THEN 366 ELSE 365)
  BY <1>4 DEF YearsUpTo
<1> DEFINE S == {k \in a .. y : years[k] = BeforeYear(k) - BeforeYear(a)}
<1>6. a \in S
  <2>1. a \in a .. y
    OBVIOUS
  <2> QED
    BY <1>1, <1>5, <2>1
<1>7. ASSUME NEW k \in a + 1 .. y, k - 1 \in S PROVE k \in S
  <2>1. k \in a + 1 .. y /\ k \in a .. y /\ k # a
    OBVIOUS
  <2>2. years[k - 1] = BeforeYear(k - 1) - BeforeYear(a)
    BY <1>7
  <2>3. years[k] = years[k - 1] + (IF Leap(k - 1) THEN 366 ELSE 365)
    BY <1>5, <2>1
  <2>4. years[k] = BeforeYear(k) - BeforeYear(a)
    BY <1>2, <2>1, <2>2, <2>3
  <2> QED
    BY <2>1, <2>4
<1> HIDE DEF S
<1>8. a .. y \subseteq S
  <2>1. a \in Int /\ y \in Int
    OBVIOUS
  <2> QED
    BY <1>6, <1>7, <2>1, IntervalInduction
<1>9. y \in a .. y
  OBVIOUS
<1> QED
  BY <1>8, <1>9 DEF S, years

MonthsUpTo(f, y, m) ==
    f = [k \in 1 .. m |-> IF k = 1 THEN 0 ELSE f[k - 1] + MonthDays(y, k - 1)]

MonthsFrom(y, m) == CHOOSE f : MonthsUpTo(f, y, m)

LEMMA MonthsCounted ==
    ASSUME NEW y \in Nat, NEW m \in 1 .. 12
    PROVE  MonthsFrom(y, m)[m] = BeforeMonth(y, m)
<1> DEFINE g == [k \in 1 .. m |-> BeforeMonth(y, k)]
           months == MonthsFrom(y, m)
<1>1. BeforeMonth(y, 1) = 0
  BY DEF BeforeMonth
<1>2. \A k \in 2 .. m :
          /\ k - 1 \in 1 .. m
          /\ BeforeMonth(y, k) = BeforeMonth(y, k - 1) + MonthDays(y, k - 1)
  <2> SUFFICES ASSUME NEW k \in 2 .. m
               PROVE  BeforeMonth(y, k) = BeforeMonth(y, k - 1) + MonthDays(y, k - 1)
    OBVIOUS
  <2>1. LeapDay(y) \in {0, 1} /\ (LeapDay(y) = 1 <=> Leap(y))
    BY DEF LeapDay
  <2>2. k \in {2, 3, 4, 5, 6, 7, 8, 9, 10, 11, 12}
    OBVIOUS
  <2> QED
    BY <2>1, <2>2 DEF BeforeMonth, MonthDays
<1>3. MonthsUpTo(g, y, m)
  <2>1. \A k \in 1 .. m :
            g[k] = IF k = 1 THEN 0 ELSE g[k - 1] + MonthDays(y, k - 1)
    <3> SUFFICES ASSUME NEW k \in 1 .. m
                 PROVE  g[k] = IF k = 1 THEN 0 ELSE g[k - 1] + MonthDays(y, k - 1)
      OBVIOUS
    <3>1. CASE k = 1
      BY <1>1, <3>1
    <3>2. CASE k # 1
      <4>1. k \in 2 .. m
        BY <3>2
      <4> QED
        BY <1>2, <3>2, <4>1
    <3> QED
      BY <3>1, <3>2
  <2> HIDE DEF g
  <2>2. g = [k \in 1 .. m |-> g[k]]
    BY DEF g
  <2> QED
    BY <2>1, <2>2 DEF MonthsUpTo
<1>4. MonthsUpTo(months, y, m)
  <2> HIDE DEF g
  <2> QED
    BY <1>3 DEF MonthsFrom
<1> HIDE DEF months, g
<1>5. \A k \in 1 .. m :
          months[k] = IF k = 1 THEN 0 ELSE months[k - 1] + MonthDays(y, k - 1)
  BY <1>4 DEF MonthsUpTo
<1> DEFINE S == {k \in 1 .. m : months[k] = BeforeMonth(y, k)}
<1>6. 1 \in S
  <2>1. 1 \in 1 .. m
    OBVIOUS
  <2> QED
    BY <1>1, <1>5, <2>1
<1>7. ASSUME NEW k \in 1 + 1 .. m, k - 1 \in S PROVE k \in S
  <2>1. k \in 2 .. m /\ k \in 1 .. m /\ k # 1
    OBVIOUS
  <2>2. months[k - 1] = BeforeMonth(y, k - 1)
    BY <1>7
  <2>3. months[k] = months[k - 1] + MonthDays(y, k - 1)
    BY <1>5, <2>1
  <2>4. months[k] = BeforeMonth(y, k)
    BY <1>2, <2>1, <2>2, <2>3
  <2> QED
    BY <2>1, <2>4
<1> HIDE DEF S
<1>8. 1 .. m \subseteq S
  <2>1. 1 \in Int /\ m \in Int
    OBVIOUS
  <2> QED
    BY <1>6, <1>7, <2>1, IntervalInduction
<1>9. m \in 1 .. m
  OBVIOUS
<1> QED
  BY <1>8, <1>9 DEF S, months

(* The year of an era of 400, from March, and the day of that year.        *)
YearIn(doe) == (doe - doe \div 1460 + doe \div 36524 - doe \div 146096) \div 365
DayIn(doe) == doe - (365 * YearIn(doe) + YearIn(doe) \div 4 - YearIn(doe) \div 100)

LEMMA YearOfEra ==
    ASSUME NEW doe \in Nat, doe <= 146096
    PROVE  LET yoe == YearIn(doe)
               doy == DayIn(doe)
           IN  /\ yoe \in Nat /\ yoe <= 399 /\ doy \in Nat /\ doy <= 365
               /\ doy = 365 => (yoe + 1) % 4 = 0 /\ ((yoe + 1) % 100 # 0 \/ yoe = 399)
<1> DEFINE n == doe - doe \div 1460 + doe \div 36524 - doe \div 146096
           yoe == n \div 365
           doy == doe - (365 * yoe + yoe \div 4 - yoe \div 100)
<1>0. yoe = YearIn(doe) /\ doy = DayIn(doe)
  BY DEF YearIn, DayIn
<1>1. CASE doe = 146096
  <2>1. n = 145999
    BY <1>1
  <2>2. yoe = 399
    BY <2>1
  <2> HIDE DEF yoe
  <2>3. yoe \div 4 = 99 /\ yoe \div 100 = 3
    BY <2>2
  <2>4. doy = 365
    BY <1>1, <2>2, <2>3
  <2> HIDE DEF doy
  <2> QED
    BY <1>0, <2>2, <2>4
<1>2. CASE doe # 146096
  <2> DEFINE c == doe \div 36524
             r == doe % 36524
             q == r \div 1461
             t == r % 1461
             e == IF 24 * c + q + t >= 1460 THEN 1 ELSE 0
  <2>1. c \in 0 .. 3 /\ r \in Nat /\ r <= 36523 /\ doe = 36524 * c + r
    BY <1>2
  <2>2. q \in 0 .. 24 /\ t \in Nat /\ t <= 1460 /\ r = 1461 * q + t
    BY <2>1
  <2>3. q = 24 => t # 1460
    BY <2>1, <2>2
  <2> HIDE DEF q, t, r
  <2>4. doe \div 36524 = c /\ doe \div 146096 = 0
    BY <1>2
  <2> HIDE DEF c
  <2>5. e \in {0, 1} /\ (e = 1 => t >= 1364) /\ (t = 1460 => e = 1)
    BY <2>1, <2>2
  <2>6. doe \div 1460 = 25 * c + q + e
    BY <2>1, <2>2
  <2> HIDE DEF e
  <2>7. n = 36500 * c + 1460 * q + (t - e)
    BY <2>1, <2>2, <2>4, <2>5, <2>6
  <2> HIDE DEF n
  <2> DEFINE k == IF t < 365 THEN 0 ELSE IF t < 730 THEN 1 ELSE IF t < 1095 THEN 2 ELSE 3
  <2>8. k \in 0 .. 3 /\ 365 * k <= t /\ t <= 365 * k + 365
        /\ 365 * k <= t - e /\ t - e < 365 * k + 365
        /\ (t = 365 * k + 365 => k = 3 /\ t = 1460)
    BY <2>2, <2>5
  <2> HIDE DEF k
  <2>9. yoe = 100 * c + 4 * q + k
    BY <2>1, <2>2, <2>5, <2>7, <2>8
  <2> HIDE DEF yoe
  <2>10. yoe \div 4 = 25 * c + q /\ yoe \div 100 = c
    BY <2>1, <2>2, <2>8, <2>9
  <2>11. doy = t - 365 * k
    BY <2>1, <2>2, <2>8, <2>9, <2>10
  <2>12. yoe \in Nat /\ yoe <= 399 /\ doy \in Nat /\ doy <= 365
    BY <2>1, <2>2, <2>8, <2>9, <2>11
  <2>13. doy = 365 => k = 3 /\ q # 24
    BY <2>2, <2>3, <2>8, <2>11
  <2>14. k = 3 => (yoe + 1) % 4 = 0
    BY <2>1, <2>2, <2>9
  <2>15. k = 3 /\ q # 24 => (yoe + 1) % 100 # 0
    <3> SUFFICES ASSUME k = 3, q # 24 PROVE (yoe + 1) % 100 # 0
      OBVIOUS
    <3>1. yoe + 1 = 100 * c + (4 * q + 4) /\ 4 * q + 4 \in 1 .. 99
      BY <2>1, <2>2, <2>9
    <3> QED
      BY <2>1, <3>1
  <2> HIDE DEF doy
  <2>16. doy = 365 => (yoe + 1) % 4 = 0 /\ ((yoe + 1) % 100 # 0 \/ yoe = 399)
    BY <2>13, <2>14, <2>15
  <2> QED
    BY <1>0, <2>12, <2>16
<1> QED
  BY <1>1, <1>2

(* The month of a year from March, and the day of the month.               *)
LEMMA MonthOfYear ==
    ASSUME NEW doy \in Nat, doy <= 365
    PROVE  LET mp == (5 * doy + 2) \div 153
               d == doy - (153 * mp + 2) \div 5 + 1
           IN  /\ mp \in 0 .. 11 /\ d \in Nat \ {0}
               /\ doy >= 306 <=> mp >= 10
               /\ d <= <<31, 30, 31, 30, 31, 31, 30, 31, 30, 31, 31, 29>>[mp + 1]
               /\ mp = 11 /\ d = 29 => doy = 365
               /\ doy + 1 = d + <<0, 31, 61, 92, 122, 153, 184, 214, 245, 275, 306, 337>>[mp + 1]
<1> DEFINE mp == (5 * doy + 2) \div 153
<1>1. mp \in 0 .. 11 /\ 153 * mp <= 5 * doy + 2 /\ 5 * doy + 2 < 153 * mp + 153
  OBVIOUS
<1>2. mp \in {0, 1, 2, 3, 4, 5, 6, 7, 8, 9, 10, 11}
  BY <1>1
<1> HIDE DEF mp
<1> DEFINE start == (153 * mp + 2) \div 5
<1>3. /\ start = <<0, 31, 61, 92, 122, 153, 184, 214, 245, 275, 306, 337>>[mp + 1]
      /\ start <= doy /\ doy + 1 <= start + <<31, 30, 31, 30, 31, 31, 30, 31, 30, 31, 31, 29>>[mp + 1]
      /\ start \in Nat
  BY <1>1, <1>2
<1>4. doy >= 306 <=> mp >= 10
  BY <1>1, <1>2
<1>5. mp = 11 => start = 337
  BY <1>3
<1> DEFINE d == doy - start + 1
<1> HIDE DEF start
<1>6. d \in Nat \ {0} /\ doy + 1 = d + start
  BY <1>3
<1>7. d <= <<31, 30, 31, 30, 31, 31, 30, 31, 30, 31, 31, 29>>[mp + 1]
  <2> DEFINE most == <<31, 30, 31, 30, 31, 31, 30, 31, 30, 31, 31, 29>>[mp + 1]
  <2>1. doy + 1 <= start + most /\ most \in Nat
    BY <1>2, <1>3
  <2> HIDE DEF most, d
  <2>2. d <= most
    BY <1>3, <1>6, <2>1
  <2> QED
    BY <2>2 DEF most
<1>8. mp = 11 /\ d = 29 => doy = 365
  BY <1>5, <1>6
<1> HIDE DEF d
<1>9. doy + 1 = d + <<0, 31, 61, 92, 122, 153, 184, 214, 245, 275, 306, 337>>[mp + 1]
  BY <1>3, <1>6
<1> QED
  BY <1>1, <1>4, <1>6, <1>7, <1>8, <1>9 DEF mp, d, start

LEMMA DateCounts ==
    ASSUME NEW days \in Nat
    PROVE  LET date == DaysToYmd(days)
               y == date[1]
               m == date[2]
           IN  /\ y \in Nat /\ y >= 1970 /\ m \in 1 .. 12 /\ date[3] \in 1 .. MonthDays(y, m)
               /\ BeforeYear(y) - 719527 + BeforeMonth(y, m) + date[3] - 1 = days
<1> DEFINE z == days + 719468
           era == z \div 146097
           doe == z % 146097
           yoe == YearIn(doe)
           doy == DayIn(doe)
           mp == (5 * doy + 2) \div 153
           m == IF mp < 10 THEN mp + 3 ELSE mp - 9
           y == yoe + era * 400 + (IF m <= 2 THEN 1 ELSE 0)
           d == doy - (153 * mp + 2) \div 5 + 1
           Y == yoe + era * 400
           leaps == Y \div 4 - Y \div 100 + Y \div 400
<1>1. DaysToYmd(days) = <<y, m, d>>
  BY DEF DaysToYmd, YearIn, DayIn
<1>2. era \in Nat /\ doe \in Nat /\ doe <= 146096 /\ z = 146097 * era + doe
  OBVIOUS
<1>3. z = days + 719468
  OBVIOUS
<1> HIDE DEF z, era, doe
<1>4. /\ yoe \in Nat /\ yoe <= 399 /\ doy \in Nat /\ doy <= 365
      /\ doy = 365 => (yoe + 1) % 4 = 0 /\ ((yoe + 1) % 100 # 0 \/ yoe = 399)
  BY <1>2, YearOfEra
<1>5. doe = 365 * yoe + yoe \div 4 - yoe \div 100 + doy
  <2>1. doy = doe - (365 * yoe + yoe \div 4 - yoe \div 100)
    BY DEF DayIn
  <2> HIDE DEF yoe, doy
  <2> QED
    BY <1>2, <1>4, <2>1
<1> HIDE DEF yoe, doy
<1>6. /\ mp \in 0 .. 11 /\ d \in Nat \ {0}
      /\ doy >= 306 <=> mp >= 10
      /\ d <= <<31, 30, 31, 30, 31, 31, 30, 31, 30, 31, 31, 29>>[mp + 1]
      /\ mp = 11 /\ d = 29 => doy = 365
      /\ doy + 1 = d + <<0, 31, 61, 92, 122, 153, 184, 214, 245, 275, 306, 337>>[mp + 1]
  BY <1>4, MonthOfYear
<1> HIDE DEF mp, d
<1>7. /\ Y \div 4 = 100 * era + yoe \div 4
      /\ Y \div 100 = 4 * era + yoe \div 100
      /\ Y \div 400 = era
  BY <1>2, <1>4
<1>8. Y \in Nat /\ leaps \in Int /\ z = 365 * Y + leaps + doy
  BY <1>2, <1>4, <1>5, <1>7
<1>9. doy = 365 => Leap(Y + 1)
  <2>1. /\ (Y + 1) % 4 = (yoe + 1) % 4
        /\ (Y + 1) % 100 = (yoe + 1) % 100
        /\ yoe = 399 => (Y + 1) % 400 = 0
    BY <1>2, <1>4
  <2> QED
    BY <1>4, <2>1 DEF Leap
<1>10. Y >= 1969 /\ (Y = 1969 => mp >= 10)
  <2>1. ASSUME Y <= 1968 PROVE FALSE
    <3>1. Y \div 4 <= 492 /\ Y \div 100 >= 0 /\ Y \div 400 <= 4
      BY <1>8, <2>1
    <3> HIDE DEF Y
    <3>2. leaps <= 496
      BY <1>8, <3>1
    <3> HIDE DEF leaps
    <3> QED
      BY <1>3, <1>4, <1>8, <2>1, <3>2
  <2>2. ASSUME Y = 1969 PROVE doy >= 306
    <3>1. leaps = 477
      <4> HIDE DEF Y
      <4> QED
        BY <2>2
    <3> HIDE DEF Y, leaps
    <3> QED
      BY <1>3, <1>4, <1>8, <2>2, <3>1
  <2> HIDE DEF Y
  <2> QED
    BY <1>6, <1>8, <2>1, <2>2
<1> HIDE DEF Y
<1>11. leaps = (Y - 1) \div 4 - (Y - 1) \div 100 + (Y - 1) \div 400 + LeapDay(Y)
  <2>1. Y \in Nat \ {0}
    BY <1>8, <1>10
  <2> QED
    BY <2>1, LeapCounts
<1>12. y = IF m <= 2 THEN Y + 1 ELSE Y
  BY <1>8 DEF Y
<1> HIDE DEF leaps, y
<1>13. CASE mp < 10
  <2>1. m = mp + 3 /\ m \in 3 .. 12 /\ y = Y /\ mp \in {0, 1, 2, 3, 4, 5, 6, 7, 8, 9}
    BY <1>6, <1>12, <1>13
  <2> HIDE DEF m
  <2>2. y \in Nat /\ y >= 1970
    BY <1>8, <1>10, <1>13, <2>1
  <2>3. d \in 1 .. MonthDays(y, m)
    BY <1>6, <2>1 DEF MonthDays
  <2>4. BeforeMonth(y, m) + d = LeapDay(Y) + 59 + doy + 1
    <3>1. LeapDay(Y) \in {0, 1}
      BY DEF LeapDay
    <3> QED
      BY <1>4, <1>6, <2>1, <3>1 DEF BeforeMonth
  <2>5. BeforeYear(y) + LeapDay(Y) = 365 * Y + leaps
    <3>1. /\ (Y - 1) \div 4 \in Int /\ (Y - 1) \div 100 \in Int /\ (Y - 1) \div 400 \in Int
          /\ LeapDay(Y) \in Int
      BY <1>8 DEF LeapDay
    <3> QED
      BY <1>8, <1>11, <2>1, <3>1 DEF BeforeYear
  <2>6. BeforeYear(y) \in Int /\ BeforeMonth(y, m) \in Int /\ LeapDay(Y) \in Int
    <3>1. LeapDay(Y) \in {0, 1}
      BY DEF LeapDay
    <3>2. y \in Nat \ {0}
      BY <2>2
    <3> QED
      BY <2>1, <3>1, <3>2, NextYear DEF BeforeMonth
  <2>7. BeforeYear(y) - 719527 + BeforeMonth(y, m) + d - 1 = days
    BY <1>3, <1>4, <1>6, <1>8, <2>4, <2>5, <2>6
  <2> QED
    BY <1>1, <2>1, <2>2, <2>3, <2>7
<1>14. CASE mp >= 10
  <2>1. m = mp - 9 /\ m \in {1, 2} /\ y = Y + 1
    BY <1>6, <1>12, <1>14
  <2> HIDE DEF m
  <2>2. y \in Nat /\ y >= 1970
    BY <1>8, <1>10, <2>1
  <2>3. d \in 1 .. MonthDays(y, m)
    <3>1. mp = 10 => d <= 31
      BY <1>6
    <3>2. mp = 11 => d <= 29 /\ (d = 29 => Leap(y))
      BY <1>6, <1>9, <2>1
    <3> QED
      BY <1>6, <2>1, <3>1, <3>2 DEF MonthDays
  <2>4. BeforeMonth(y, m) + d + 306 = doy + 1
    BY <1>4, <1>6, <2>1 DEF BeforeMonth
  <2>5. BeforeYear(y) = 365 * (Y + 1) + leaps
    BY <1>8, <2>1 DEF BeforeYear, leaps
  <2>6. BeforeMonth(y, m) \in Int
    BY <2>1 DEF BeforeMonth
  <2>7. BeforeYear(y) - 719527 + BeforeMonth(y, m) + d - 1 = days
    BY <1>3, <1>4, <1>6, <1>8, <2>4, <2>5, <2>6
  <2> QED
    BY <1>1, <2>1, <2>2, <2>3, <2>7
<1> QED
  BY <1>6, <1>13, <1>14

LEMMA DateIsOfCalendar ==
    ASSUME input.kind = "day" => input.days \in Nat
    PROVE  DateOfCalendar
<1> SUFFICES ASSUME input.kind = "day" PROVE DateOfCalendar
  BY DEF DateOfCalendar
<1> DEFINE date == DaysToYmd(input.days)
           y == date[1]
           m == date[2]
           years == YearsFrom(1970, y)
           months == MonthsFrom(y, m)
<1>1. /\ y \in Nat /\ y >= 1970 /\ m \in 1 .. 12 /\ date[3] \in 1 .. MonthDays(y, m)
      /\ BeforeYear(y) - 719527 + BeforeMonth(y, m) + date[3] - 1 = input.days
  BY DateCounts
<1>2. BeforeYear(1970) = 719527
  BY DEF BeforeYear
<1> HIDE DEF date
<1>3. years[y] = BeforeYear(y) - 719527
  <2>1. 1970 \in Nat \ {0} /\ y \in Nat /\ 1970 <= y
    BY <1>1
  <2>2. years[y] = BeforeYear(y) - BeforeYear(1970)
    BY <2>1, YearsCounted
  <2> QED
    BY <1>2, <2>2
<1>4. months[m] = BeforeMonth(y, m)
  <2>1. y \in Nat /\ m \in 1 .. 12
    BY <1>1
  <2> QED
    BY <2>1, MonthsCounted
<1>5. years[y] + months[m] + date[3] - 1 = input.days
  BY <1>1, <1>3, <1>4
<1> QED
  BY <1>1, <1>5 DEF DateOfCalendar, date, YearsFrom, MonthsFrom, YearsUpTo, MonthsUpTo

(* Conversions.                                                            *)
LEMMA ConvertedInput ==
    ASSUME input \in Inputs
    PROVE  ConversionsInv
<1>1. WellFormed(input)
  BY InputAssumption
<1>2. PacketRoundTrip
  <2> SUFFICES ASSUME input.kind = "packet" PROVE PacketRoundTrip
    BY DEF PacketRoundTrip
  <2>1. input.centi \in Int /\ input.flags \in SUBSET Range(FlagBits)
    BY <1>1 DEF WellFormed
  <2> QED
    BY <2>1, TempReturns, FlagsReturn DEF PacketRoundTrip
<1>3. DateOfCalendar
  <2>1. input.kind = "day" => input.days \in Nat
    BY <1>1 DEF WellFormed
  <2> QED
    BY <2>1, DateIsOfCalendar
<1>4. HostnameIsLabel
  <2> SUFFICES ASSUME input.kind = "hostname" PROVE HostnameIsLabel
    BY DEF HostnameIsLabel
  <2>1. input.text \in Seq(STRING)
    BY <1>1 DEF WellFormed
  <2> DEFINE name == Hostname(input.text)
  <2>2. /\ name \in Seq(Letters) /\ Len(name) \in 1 .. HostLen
        /\ name[1] # "-" /\ name[Len(name)] # "-"
    BY <2>1, HostnameLabel
  <2> HIDE DEF name
  <2>3. Hostname(name) = name
    BY <2>2, LabelReturns
  <2> QED
    BY <2>2, <2>3 DEF HostnameIsLabel, Last, name
<1>5. PollIntervalRamps
  <2> SUFFICES ASSUME input.kind = "age" PROVE PollIntervalRamps
    BY DEF PollIntervalRamps
  <2>1. input.age \in Nat
    BY <1>1 DEF WellFormed
  <2> QED
    BY <2>1, PollRamps DEF PollIntervalRamps
<1> QED
  BY <1>2, <1>3, <1>4, <1>5 DEF ConversionsInv

(* What is converted comes back: every measurement and set of flags from a *)
(* packet, every day since 1970 from its date, every host name from itself;*)
(* and the poll interval never falls (udp.rs 313-331, packet.rs 95-117,    *)
(* shared.rs 97-163, ntp.rs 88-100).                                       *)
THEOREM ConversionsKeep == AlgorithmsSpec => []ConversionsInv
BY ConvertedInput, InputStays, PTL
=============================================================================
