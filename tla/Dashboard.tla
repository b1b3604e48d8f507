----------------------------- MODULE Dashboard -----------------------------
(***************************************************************************)
(* The page in the browser (src/web/dashboard.ts, api.ts) against what     *)
(* serves it: the server (store.rs and http.rs of src/server/src) or the   *)
(* device itself (src/src/firmware, network/http.rs and storage.rs).       *)
(*                                                                         *)
(* The page is one thread, but its activities interleave at every await:   *)
(* the load of the history at the start, the poll that an interval, an     *)
(* event or the user sets off, a collection toggle and a clear.  A request *)
(* is served at one time and its answer applied at a later one; either may *)
(* be lost, which the page sees as a failure.                              *)
(*                                                                         *)
(* A point of the history is its sequence number, counted from 1 here (the *)
(* code's first is 0, and -1 stands for none).  At the server the number   *)
(* is that of the device's packet, which begins anew when the device       *)
(* restarts; at the device it is that of the flash record, which begins    *)
(* anew with a clear.  (The server stores a packet in so many seconds: the *)
(* numbers between do not matter here.)                                    *)
(*                                                                         *)
(* The chart is that of the first probe, and holds what polls push on it   *)
(* beside what the history brings.  Of the live samples it shows since the *)
(* load or a clear, the model keeps the first, as Live: how many follow it *)
(* between the points makes no difference here.  Values, gaps in the data, *)
(* zoom and texts are left out.                                            *)
(***************************************************************************)
EXTENDS Naturals, Sequences, SequencesExt, FiniteSets, Sieve

CONSTANTS
    MaxSeq,              \* bound: the greatest number the source gives out
    MaxEvents,           \* bound: clicks, clears, changes by other clients,
                         \* restarts of the device, late packets and points
                         \* that go, together
    Points,              \* most points in an answer: 2000 of the server,
                         \* 1000 of the device
    Attempts,            \* of setCollectionOnDevice
    None

ASSUME AttemptsAssumption == Attempts \in Nat \ {0}
ASSUME SeqAssumption == MaxSeq \in Nat
ASSUME PointsAssumption == Points \in Nat /\ Points >= 2

Live == 0                \* on the chart: no number of a point

VARIABLES
    origin,                              \* who serves the page
    srcCollecting, srcPoints, srcNext,   \* its flag, history, next number
    collecting, lastHistorySeq,          \* of the page
    sessionGapPending,
    chart, sessionBoundary,              \* the sparkline and its mark, 0: none
    pendingSessionBoundary,
    load, poll, toggle, clear,           \* activities: where, and the answer
    events,                              \* bound counter
    top,             \* ghost: greatest number given out
    late,            \* ghost: numbers of points that came after a greater one
    left,            \* ghost: points that an answer had no room for
    taken,           \* ghost: points taken off the chart again
    mixed,           \* ghost: the load brought numbers that go back, and
                     \* nothing has been cleared since
    sinceLoad        \* ghost: loaded, and not cleared since

numbering == <<srcPoints, srcNext, top, late>>
source == <<origin, srcCollecting, numbering>>
shown  == <<chart, sessionBoundary, pendingSessionBoundary>>
page   == <<collecting, lastHistorySeq, sessionGapPending, shown, mixed, sinceLoad>>
vars == <<source, page, load, poll, toggle, clear, events, left, taken>>

Event == events < MaxEvents /\ events' = events + 1

At(where, answer) == [at |-> where, answer |-> answer]
Idle == At("idle", None)
NoToggle == [at |-> "idle", value |-> FALSE, attempt |-> 0]

Init ==
    /\ origin \in {"server", "device"}
    /\ srcCollecting \in BOOLEAN
    /\ \E n \in 0..(MaxSeq - 1) :
          /\ srcPoints = [i \in 1..n |-> i] /\ top = n
          /\ srcNext \in {n + 1} \union (IF origin = "server" THEN {1} ELSE {})
    /\ late = {}
    /\ collecting = FALSE /\ lastHistorySeq = 0 /\ sessionGapPending = FALSE
    /\ chart = <<>> /\ sessionBoundary = 0 /\ pendingSessionBoundary = FALSE
    /\ load = At("asked", None) /\ poll = Idle /\ clear = Idle
    /\ toggle = NoToggle
    /\ events = 0
    /\ left = {} /\ taken = {} /\ mixed = FALSE /\ sinceLoad = FALSE

----------------------------------------------------------------------------
(* The source.                                                             *)

(* A packet stored, or a flash record written.                             *)
Sample ==
    /\ srcCollecting /\ srcNext <= MaxSeq
    /\ srcPoints' = Append(srcPoints, srcNext) /\ srcNext' = srcNext + 1
    /\ IF srcNext > top THEN top' = srcNext /\ UNCHANGED late
       ELSE late' = late \union {srcNext} /\ UNCHANGED top
    /\ UNCHANGED <<origin, srcCollecting, page, load, poll, toggle, clear, events,
                   left, taken>>

(* A packet that a later one has overtaken is stored too: its uptime is    *)
(* less than that of the last record.                                      *)
LatePacket ==
    /\ origin = "server" /\ srcCollecting /\ Event
    /\ \E n \in 1..(srcNext - 1) :
          srcPoints' = Append(srcPoints, n) /\ late' = late \union {n}
    /\ UNCHANGED <<origin, srcCollecting, srcNext, top, page, load, poll, toggle, clear,
                   left, taken>>

(* The oldest go: by age at the server, with their sector on the device.   *)
Forget ==
    /\ srcPoints # <<>> /\ Event
    /\ srcPoints' = Tail(srcPoints)
    /\ UNCHANGED <<origin, srcCollecting, srcNext, top, late, page, load, poll, toggle,
                   clear, left, taken>>

(* Its packets are numbered from the start; the server keeps what it has.  *)
DeviceRestarts ==
    /\ origin = "server" /\ Event
    /\ srcNext' = 1
    /\ UNCHANGED <<origin, srcCollecting, srcPoints, top, late, page, load, poll,
                   toggle, clear, left, taken>>

(* Another client, or a packet of the device, changes the flag.  (A clear  *)
(* of theirs is to this page as one of its own that it sees fail.)         *)
OtherClient ==
    /\ Event
    /\ srcCollecting' = ~srcCollecting
    /\ UNCHANGED <<origin, numbering, page, load, poll, toggle, clear, left, taken>>

----------------------------------------------------------------------------
(* What an answer has room for, as places in the history: of a long one    *)
(* the device sends the newest points, the server the first, the last and  *)
(* some between, which depend on the temperatures (LttbIndices of          *)
(* Algorithms).                                                            *)

KeptFromTheStart(s) ==  \* mutant
    IF Len(s) <= Points THEN {DOMAIN s}
    ELSE IF origin = "device" THEN {{i \in DOMAIN s : i <= Points}}
    ELSE {I \in SUBSET DOMAIN s : {1, Len(s)} \subseteq I /\ Cardinality(I) = Points}
Kept(s) ==
    IF Len(s) <= Points THEN {DOMAIN s}
    ELSE IF origin = "device" THEN {{i \in DOMAIN s : i + Points > Len(s)}}
    ELSE {I \in SUBSET DOMAIN s : {1, Len(s)} \subseteq I /\ Cardinality(I) = Points}

Answers == {Sieved(srcPoints, I) : I \in Kept(srcPoints)}
LeftOut(answer) == left' = left \union (Range(srcPoints) \ Range(answer))

(* Pushes on the chart; mark: the next one is the start of the session.    *)
MarkAfterPush(points, mark) ==  \* mutant
    /\ chart' = chart \o points
    /\ sessionBoundary' = IF mark /\ points # <<>> THEN Len(chart) + 1 + Len(points)
                          ELSE sessionBoundary
    /\ pendingSessionBoundary' = (mark /\ points = <<>>)
Pushed(points, mark) ==
    /\ chart' = chart \o points
    /\ sessionBoundary' = IF mark /\ points # <<>> THEN Len(chart) + 1
                          ELSE sessionBoundary
    /\ pendingSessionBoundary' = (mark /\ points = <<>>)

OnChart == Range(chart) \ {Live}

----------------------------------------------------------------------------
(* The load at the start: it replaces what the charts show.                *)

ServeLoad ==
    /\ load.at = "asked"
    /\ \E answer \in Answers : load' = At("served", answer) /\ LeftOut(answer)
    /\ UNCHANGED <<source, page, poll, toggle, clear, events, taken>>

LoadedNeverBack(points) ==  \* mutant
    /\ chart' = points
    /\ lastHistorySeq' = IF points = <<>> \/ Last(points) < lastHistorySeq
                         THEN lastHistorySeq ELSE Last(points)
Loaded(points) ==
    /\ chart' = points
    /\ lastHistorySeq' = IF points = <<>> THEN lastHistorySeq ELSE Last(points)

Rises(points) == \A i, j \in DOMAIN points : i < j => points[i] < points[j]

(* The marks of the chart are left alone: there are none so far.           *)
LoadApplied ==
    /\ load.at = "served"
    /\ Loaded(load.answer)
    /\ sessionGapPending' = TRUE
    /\ load' = Idle
    /\ taken' = IF load.answer = <<>> THEN taken \union OnChart ELSE taken
    /\ mixed' = ~Rises(load.answer) /\ sinceLoad' = TRUE
    /\ UNCHANGED <<source, collecting, sessionBoundary, pendingSessionBoundary, poll,
                   toggle, clear, events, left>>

LoadFails ==
    /\ load.at # "idle"
    /\ load' = Idle
    /\ UNCHANGED <<source, page, poll, toggle, clear, events, left, taken>>

----------------------------------------------------------------------------
(* The poll: status, then the points that are new.                         *)

PollStarts ==
    /\ poll.at = "idle" /\ toggle.at = "idle"
    /\ poll' = At("status asked", None)
    /\ UNCHANGED <<source, page, load, toggle, clear, events, left, taken>>

ServeStatus ==
    /\ poll.at = "status asked"
    /\ poll' = At("status served", srcCollecting)
    /\ UNCHANGED <<source, page, load, toggle, clear, events, left, taken>>

(* updateFromStatus, with the flag and the buttons: the sample of the      *)
(* status goes on the chart if the probe could be read.  Then on to the    *)
(* merge.                                                                  *)
StatusApplied ==
    /\ poll.at = "status served"
    /\ collecting' = poll.answer
    /\ IF collecting'
       THEN /\ poll' = At("history asked", None)
            /\ sessionGapPending' = FALSE
            /\ LET mark == sessionGapPending \/ pendingSessionBoundary
                   alive == Live \in Range(chart)
               IN  \/ Pushed(IF alive /\ ~mark THEN <<>> ELSE <<Live>>, mark)
                   \/ Pushed(<<>>, mark)
       ELSE poll' = Idle /\ UNCHANGED <<sessionGapPending, shown>>
    /\ UNCHANGED <<source, lastHistorySeq, mixed, sinceLoad, load, toggle, clear, events,
                   left, taken>>

ServeHistory ==
    /\ poll.at = "history asked"
    /\ \E answer \in Answers : poll' = At("history served", answer) /\ LeftOut(answer)
    /\ UNCHANGED <<source, page, load, toggle, clear, events, taken>>

(* lastHistorySeq goes on with every point pushed.                         *)
NewOrLast(points) ==  \* mutant
    Sieved(points, {i \in DOMAIN points :
                       /\ points[i] >= lastHistorySeq
                       /\ \A j \in 1..(i - 1) : points[j] < points[i]})
New(points) ==
    Sieved(points, {i \in DOMAIN points :
                       /\ points[i] > lastHistorySeq
                       /\ \A j \in 1..(i - 1) : points[j] < points[i]})

MergeApplied ==
    /\ poll.at = "history served"
    /\ LET new == New(poll.answer)
       IN  /\ Pushed(new, pendingSessionBoundary)
           /\ lastHistorySeq' = IF new = <<>> THEN lastHistorySeq ELSE Last(new)
    /\ poll' = Idle
    /\ UNCHANGED <<source, collecting, sessionGapPending, mixed, sinceLoad, load, toggle,
                   clear, events, left, taken>>

PollHangs ==  \* mutant
    /\ poll.at # "idle"
    /\ poll' = At("failed", None)
    /\ UNCHANGED <<source, page, load, toggle, clear, events, left, taken>>
PollFails ==
    /\ poll.at # "idle"
    /\ poll' = Idle
    /\ UNCHANGED <<source, page, load, toggle, clear, events, left, taken>>

----------------------------------------------------------------------------
(* The buttons: one of the two is enabled, and neither while a toggle is   *)
(* under way.  A click waits some time for a poll that is under way, not   *)
(* for ever, and then asks up to Attempts times.                           *)

Click ==
    /\ toggle.at = "idle" /\ Event
    /\ toggle' = [at |-> "waiting", value |-> ~collecting, attempt |-> 1]
    /\ UNCHANGED <<source, page, load, poll, clear, left, taken>>

Ask ==
    /\ toggle.at \in {"waiting", "retry"}
    /\ toggle' = [toggle EXCEPT !.at = "asked"]
    /\ UNCHANGED <<source, page, load, poll, clear, events, left, taken>>

ServeToggle ==
    /\ toggle.at = "asked"
    /\ srcCollecting' = toggle.value
    /\ toggle' = [toggle EXCEPT !.at = "served"]
    /\ UNCHANGED <<origin, numbering, page, load, poll, clear, events, left, taken>>

ToggleDone ==
    /\ toggle.at = "served"
    /\ collecting' = toggle.value
    /\ toggle' = NoToggle
    /\ UNCHANGED <<source, lastHistorySeq, sessionGapPending, shown, mixed, sinceLoad,
                   load, poll, clear, events, left, taken>>

(* Whether or not the source has carried it out.                           *)
AttemptFails ==
    /\ toggle.at \in {"asked", "served"}
    /\ IF toggle.attempt < Attempts
       THEN /\ toggle' = [toggle EXCEPT !.at = "retry", !.attempt = @ + 1]
            /\ UNCHANGED collecting
       ELSE /\ toggle' = NoToggle
            /\ collecting' = ~toggle.value
    /\ UNCHANGED <<source, lastHistorySeq, sessionGapPending, shown, mixed, sinceLoad,
                   load, poll, clear, events, left, taken>>

----------------------------------------------------------------------------
(* Clear all history: at the source first, then on the charts.             *)

ClickClear ==
    /\ clear.at = "idle" /\ Event
    /\ clear' = At("asked", None)
    /\ UNCHANGED <<source, page, load, poll, toggle, left, taken>>

ServeClear ==
    /\ clear.at = "asked"
    /\ srcPoints' = <<>>
    /\ srcNext' = IF origin = "device" THEN 1 ELSE srcNext
    /\ clear' = At("served", None)
    /\ UNCHANGED <<origin, srcCollecting, top, late, page, load, poll, toggle, events,
                   left, taken>>

(* lastHistorySeq stays, and so does a mark that is to come.               *)
ClearApplied ==
    /\ clear.at = "served"
    /\ chart' = <<>> /\ sessionBoundary' = 0 /\ taken' = taken \union OnChart
    /\ mixed' = FALSE /\ sinceLoad' = FALSE
    /\ clear' = Idle
    /\ UNCHANGED <<source, collecting, lastHistorySeq, sessionGapPending,
                   pendingSessionBoundary, load, poll, toggle, events, left>>

ClearFails ==
    /\ clear.at # "idle"
    /\ clear' = Idle
    /\ UNCHANGED <<source, page, load, poll, toggle, events, left, taken>>

----------------------------------------------------------------------------
Next ==
    \/ Sample \/ LatePacket \/ Forget \/ DeviceRestarts \/ OtherClient
    \/ ServeLoad \/ LoadApplied \/ LoadFails
    \/ PollStarts \/ ServeStatus \/ StatusApplied
    \/ ServeHistory \/ MergeApplied \/ PollFails
    \/ Click \/ Ask \/ ServeToggle \/ ToggleDone \/ AttemptFails
    \/ ClickClear \/ ServeClear \/ ClearApplied \/ ClearFails

(* The interval sets polls off, a request ends one way or the other, and   *)
(* not every status fails, nor every history.                              *)
Fairness ==
    /\ WF_vars(PollStarts \/ PollFails)
    /\ SF_vars(ServeStatus) /\ SF_vars(StatusApplied)
    /\ SF_vars(ServeHistory) /\ SF_vars(MergeApplied)
    /\ WF_vars(Ask \/ AttemptFails)

Spec == Init /\ [][Next]_vars
FairSpec == Spec /\ Fairness

----------------------------------------------------------------------------
(* Properties.                                                             *)

(* Types, and where each activity of the page can be.                      *)
DashboardTypeOK ==
    /\ lastHistorySeq \in 0..MaxSeq
    /\ Range(chart) \subseteq 0..MaxSeq
    /\ load.at \in {"asked", "served", "idle"}
    /\ poll.at \in {"idle", "status asked", "status served",
                    "history asked", "history served"}
    /\ toggle.at \in {"idle", "waiting", "asked", "served", "retry"}
    /\ toggle.attempt \in 0..Attempts

(* The points that came from the history are on the chart in the order of  *)
(* their numbers and once each, whatever live samples are between them,    *)
(* and however the load overlaps with polls and merges (dashboard.ts       *)
(* 79-109, 121-132).  The exception: a load whose answer itself goes back, *)
(* after the device restarted or a packet came late; the next merge may    *)
(* then push old points again.                                             *)
PointsOnceInOrder ==
    ~mixed => \A i, j \in DOMAIN chart :
                  i < j /\ chart[i] # Live /\ chart[j] # Live => chart[i] < chart[j]

ChartInv == DashboardTypeOK /\ PointsOnceInOrder

(* From the load until a clear, no live sample is on the chart before the  *)
(* mark of the session, or without one: what was loaded is told from what  *)
(* was seen live although merges go on in between and the sample of the    *)
(* first status may be missing (dashboard.ts 13-15, 209-213, charts.ts     *)
(* 145-156).                                                               *)
LiveAfterBoundary ==
    sinceLoad => \A i \in DOMAIN chart : chart[i] = Live => sessionBoundary \in 1..i

(* The page skips no point: up to the last one merged, the chart has all   *)
(* that the source still has, but for what an answer had no room for and   *)
(* what was taken off the chart, by a clear, or by a load that was         *)
(* answered while the history was empty and is applied after a merge.      *)
(* A number that came after a greater one is excepted: such a point is     *)
(* ignored until the numbers have passed lastHistorySeq (dashboard.ts 79,  *)
(* 93, 126-130).                                                           *)
NothingSkipped ==
    \A s \in Range(srcPoints) :
        s <= lastHistorySeq /\ s \notin late => s \in OnChart \union left \union taken

(* Once nobody changes the flag any more, the page comes to show it, after *)
(* whatever failures, late answers and toggles whose outcome it misjudged. *)
PageCatchesUp ==
    \A v \in BOOLEAN : (<>[](srcCollecting = v)) => <>[](collecting = v)

(* When the source makes no more points but goes on collecting, the newest *)
(* one comes to the chart and stays until it is taken off, however little  *)
(* of the history an answer has room for (store.rs 158-172, storage.rs     *)
(* 327-344), unless its number came after a greater one.                   *)
NewestIsNew == srcPoints # <<>> /\ Last(srcPoints) \notin late
NewestShown ==
    /\ <>[][FALSE]_srcPoints
    /\ <>[](srcCollecting /\ NewestIsNew)
    => <>[](srcPoints # <<>> /\ Last(srcPoints) \in OnChart \union taken)
============================================================================
