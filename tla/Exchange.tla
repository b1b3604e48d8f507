------------------------------ MODULE Exchange ------------------------------
(***************************************************************************)
(* One HTTP exchange after the other, and what the status LED makes of it: *)
(* http_status_task in src/firmware/network/http.rs, the exchange state in *)
(* src/firmware/status.rs and the choice of colour by the control loop in  *)
(* src/bin/main.rs, on top of the connection of module Wifi.               *)
(*                                                                         *)
(* A request is a sequence of fragments.  The task reads once, and what    *)
(* has arrived by then is any prefix of it; the rest is never looked at.   *)
(* Time passes in ticks; a deadline is kept as the ticks left to it.  The  *)
(* effect of an operation is in modules Settings, Controller and History:  *)
(* here it is carried out (applied) or fails.                              *)
(***************************************************************************)
EXTENDS Wifi, Sequences, SequencesExt, Functions

CONSTANTS
    Requests,        \* [op, value, text]: what is asked, and how it is sent
    DigitValue,      \* the digits, a function from fragments to numbers
    NameParts,       \* fragments a probe name may consist of
    MaxTarget,       \* the highest setpoint that is accepted
    HttpHold,        \* HTTP_LED_HOLD_MS in ticks
    LoopTicks,       \* at most so many ticks between two steps of the loop
    None

ASSUME LoopAssumption == HttpHold \in Nat /\ LoopTicks \in 1..(HttpHold - 1)

VARIABLES
    pc, request,         \* what http_status_task awaits; the client's request
    prometheus,          \* feature_prometheus_enabled()
    active, error, hold, \* HTTP_EXCHANGE_*, HTTP_LED_ACTIVE_UNTIL_TICKS
    sinceLoop,           \* ticks since the control loop chose the colour
    applied,             \* ghost: the operation this exchange has carried out
    failed,              \* ghost: this exchange has met an error
    unseen               \* ghost: no step of the loop since it began

lamp == <<active, error, hold>>
http == <<pc, request, prometheus, lamp, applied, failed>>
loop == <<sinceLoop, unseen>>
vars == <<wifi, http, loop>>

----------------------------------------------------------------------------
(* parse_request, on the fragments that have arrived: method, path with    *)
(* the blank after it, headers, "crlf" for the empty line, then the body.  *)

Result(op, value) == [op |-> op, value |-> value]
Bad      == Result("BadRequest", None)
NotFound == Result("NotFound", None)

Has(seg, f)   == \E i \in DOMAIN seg : seg[i] = f
After(seg, f) == IF Has(seg, f)
                 THEN SubSeq(seg, SelectInSeq(seg, LAMBDA x : x = f) + 1, Len(seg))
                 ELSE <<>>
UpTo(seg, S)  == LET i == SelectInSeq(seg, LAMBDA x : x \in S)
                 IN  IF i = 0 THEN seg ELSE SubSeq(seg, 1, i - 1)

(* The number that the first i digits make, for i up to all of them.       *)
NumberUpTo(digits) ==
    LET n[i \in 0 .. Len(digits)] ==
            IF i = 0 THEN 0 ELSE 10 * n[i - 1] + DigitValue[digits[i]]
    IN  n
NumberOf(digits) == NumberUpTo(digits)[Len(digits)]

(* The number ends at a delimiter, or with what there is.                  *)
ParseTemperature(body) ==
    LET digits == UpTo(After(After(body, "temperature_c"), "colon"), {"close"})
    IN  IF digits = <<>> \/ ~(Range(digits) \subseteq DOMAIN DigitValue) THEN Bad
        ELSE Result("temperature", NumberOf(digits))

ParseConfigLenient(body) ==  \* mutant
    Result("config", [http |-> Has(body, "http:true"),
                      prometheus |-> Has(body, "prometheus:true")])
ParseConfig(body) ==
    IF /\ Has(body, "http:true") \/ Has(body, "http:false")
       /\ Has(body, "prometheus:true") \/ Has(body, "prometheus:false")
    THEN Result("config", [http |-> Has(body, "http:true"),
                           prometheus |-> Has(body, "prometheus:true")])
    ELSE Bad

(* JSON with a closed string, or else the body as it is.                   *)
ParseProbeName(body) ==
    IF body = <<>> THEN Bad
    ELSE IF body[1] # "open" THEN Result("probe-name", body)
    ELSE LET value == After(body, "quote")
         IN  IF Has(value, "quote")
             THEN Result("probe-name", UpTo(value, {"quote"})) ELSE Bad

Parse(seg) ==
    LET path == IF Len(seg) < 2 THEN <<>> ELSE <<seg[1], seg[2]>>
        body == After(seg, "crlf")
    IN  CASE path = <<"GET", "status">>  -> Result("status", None)
          [] path = <<"GET", "metrics">> -> Result("metrics", None)
          [] path = <<"POST", "stop">>   -> Result("stop", None)
          [] path = <<"POST", "clear">>  -> Result("clear", None)
          [] path = <<"POST", "temperature">> -> ParseTemperature(body)
          [] path = <<"POST", "config">>      -> ParseConfig(body)
          [] path = <<"POST", "probe-name">>  -> ParseProbeName(body)
          [] OTHER -> NotFound

(* What becomes of it: the status line, and whether it was carried out.    *)
(* Saving may fail; a change of the collection is then answered with 200   *)
(* all the same.                                                           *)
Saves(p) == {[line |-> "200", applied |-> p], [line |-> "500", applied |-> None]}

Outcomes(p) ==
    CASE p.op = "BadRequest" -> {[line |-> "400", applied |-> None]}
      [] p.op = "NotFound" \/ (p.op = "metrics" /\ ~prometheus)
            -> {[line |-> "404", applied |-> None]}
      [] p.op = "temperature" /\ p.value > MaxTarget
            -> {[line |-> "400", applied |-> None]}
      [] p.op = "probe-name" /\ (p.value = <<>> \/ ~(Range(p.value) \subseteq NameParts))
            -> {[line |-> "400", applied |-> None]}
      [] p.op \in {"config", "clear"} -> Saves(p)
      [] p.op = "temperature" /\ p.value <= MaxTarget -> Saves(p)
      [] OTHER -> {[line |-> "200", applied |-> p]}

(* A request says what is asked: the fragments are its method and path,    *)
(* and after the empty line that is the first one, the value.              *)
SaysNumber(value, body) ==
    LET digits == SubSeq(body, 3, Len(body) - 1)
    IN  /\ Len(body) >= 4
        /\ body[1] = "temperature_c" /\ body[2] = "colon" /\ body[Len(body)] = "close"
        /\ Range(digits) \subseteq DOMAIN DigitValue
        /\ value = NumberOf(digits)

SaysFlags(value, body) ==
    \E h, p \in BOOLEAN :
        /\ value = [http |-> h, prometheus |-> p]
        /\ Len(body) = 2
        /\ {body[1], body[2]} = {IF h THEN "http:true" ELSE "http:false",
                                 IF p THEN "prometheus:true" ELSE "prometheus:false"}

SaysName(value, body) ==
    \/ body # <<>> /\ body[1] # "open" /\ value = body
    \/ /\ Len(body) >= 3 /\ body[1] = "open" /\ body[2] = "quote"
       /\ \E q \in 3 .. Len(body) :
            /\ body[q] = "quote" /\ \A k \in 3 .. q - 1 : body[k] # "quote"
            /\ value = SubSeq(body, 3, q - 1)

AsSent(r) ==
    /\ r.text \in Seq(STRING) /\ Len(r.text) >= 2 /\ r.text[2] = r.op
    /\ \/ r.op \in {"status", "metrics"} /\ r.text[1] = "GET" /\ r.value = None
       \/ r.op \in {"stop", "clear"} /\ r.text[1] = "POST" /\ r.value = None
       \/ /\ r.op \in {"temperature", "config", "probe-name"} /\ r.text[1] = "POST"
          /\ \E i \in 3 .. Len(r.text) :
               /\ r.text[i] = "crlf" /\ \A k \in 3 .. i - 1 : r.text[k] # "crlf"
               /\ LET body == SubSeq(r.text, i + 1, Len(r.text))
                  IN  CASE r.op = "temperature" -> SaysNumber(r.value, body)
                        [] r.op = "config"      -> SaysFlags(r.value, body)
                        [] r.op = "probe-name"  -> SaysName(r.value, body)

ASSUME RequestAssumption == \A r \in Requests : AsSent(r)
ASSUME DigitAssumption ==
    /\ \A d \in DOMAIN DigitValue : DigitValue[d] \in 0 .. 9
    /\ "close" \notin DOMAIN DigitValue

----------------------------------------------------------------------------
Init ==
    /\ WifiInit
    /\ pc = "accept" /\ request = None /\ prometheus = TRUE
    /\ active = FALSE /\ error = FALSE /\ hold = 0
    /\ sinceLoop = 0
    /\ applied = None /\ failed = FALSE /\ unseen = FALSE

ExchangeBegin ==
    /\ hold' = HttpHold
    /\ error' = FALSE /\ active' = TRUE
    /\ unseen' = TRUE

MarkError ==
    /\ error' = (error \/ active)
    /\ failed' = TRUE

ExchangeEndForgotten ==  \* mutant
    UNCHANGED lamp
ExchangeEndDark ==  \* mutant
    active' = FALSE /\ error' = FALSE /\ hold' = 0
ExchangeEnd ==
    active' = FALSE /\ error' = FALSE /\ hold' = hold

(* The network is configured and a client connects.                        *)
Accept ==
    /\ pc = "accept" /\ associated
    /\ pc' = "read" /\ request' \in Requests
    /\ ExchangeBegin
    /\ UNCHANGED <<wifi, prometheus, sinceLoop, applied, failed>>

AcceptFails ==
    /\ pc = "accept" /\ associated
    /\ pc' = "pause"
    /\ UNCHANGED <<wifi, request, prometheus, lamp, applied, failed, loop>>

PauseAfterAccept ==
    /\ pc = "pause"
    /\ pc' = "accept"
    /\ UNCHANGED <<wifi, request, prometheus, lamp, applied, failed, loop>>

(* Some of the request is there: it is parsed and carried out without an   *)
(* await, and the task goes on to write the answer.                        *)
Read(n) ==
    /\ pc = "read" /\ associated
    /\ \E o \in Outcomes(Parse(SubSeq(request.text, 1, n))) :
          /\ applied' = o.applied
          /\ prometheus' = IF o.applied # None /\ o.applied.op = "config"
                           THEN o.applied.value.prometheus ELSE prometheus
          /\ IF o.line = "200" THEN UNCHANGED <<error, failed>> ELSE MarkError
    /\ pc' = "write"
    /\ UNCHANGED <<wifi, request, active, hold, loop>>

(* The client sends nothing, or the socket fails or times out.             *)
ReadFails ==
    /\ pc = "read"
    /\ MarkError
    /\ pc' = "flush"
    /\ UNCHANGED <<wifi, request, prometheus, active, hold, applied, loop>>

Write ==
    /\ pc = "write" /\ associated
    /\ pc' = "flush"
    /\ UNCHANGED <<wifi, request, prometheus, lamp, applied, failed, loop>>

WriteFails ==
    /\ pc = "write"
    /\ MarkError
    /\ pc' = "flush"
    /\ UNCHANGED <<wifi, request, prometheus, active, hold, applied, loop>>

(* After an error the task returns to the top of its loop with continue.   *)
FlushStops ==  \* mutant
    /\ pc = "flush" /\ associated
    /\ ExchangeEnd
    /\ pc' = IF failed THEN "ended" ELSE "accept"
    /\ request' = None /\ applied' = None /\ failed' = FALSE
    /\ UNCHANGED <<wifi, prometheus, loop>>
Flush ==
    /\ pc = "flush" /\ associated
    /\ ExchangeEnd
    /\ pc' = "accept"
    /\ request' = None /\ applied' = None /\ failed' = FALSE
    /\ UNCHANGED <<wifi, prometheus, loop>>

HttpStep ==
    \/ Accept \/ AcceptFails \/ PauseAfterAccept
    \/ request # None /\ \E n \in 1..Len(request.text) : Read(n)
    \/ ReadFails \/ Write \/ WriteFails \/ Flush

(* The control loop chooses the colour: an exchange comes before an error  *)
(* of the program (fault), that before a telemetry packet just sent (udp). *)
Colour(fault, udp) ==
    CASE active /\ error           -> "exchange red"
      [] active /\ ~error          -> "blue"
      [] ~active /\ hold > 0       -> "blue"
      [] OTHER -> IF fault THEN "red" ELSE IF udp THEN "violet" ELSE "green"

LoopStep ==
    /\ sinceLoop > 0
    /\ sinceLoop' = 0 /\ unseen' = FALSE
    /\ UNCHANGED <<wifi, http>>

Tick ==
    /\ sinceLoop < LoopTicks
    /\ sinceLoop' = sinceLoop + 1
    /\ hold' = IF hold > 0 THEN hold - 1 ELSE 0
    /\ UNCHANGED <<wifi, pc, request, prometheus, active, error, applied, failed, unseen>>

----------------------------------------------------------------------------
WifiOnly == UNCHANGED <<http, loop>>

Next ==
    \/ Outage /\ WifiOnly
    \/ Return /\ WifiOnly
    \/ WifiStep /\ WifiOnly
    \/ HttpStep \/ LoopStep \/ Tick

(* The tasks run on.  The stack times a silent peer out, so a read or a    *)
(* write ends one way or the other; a flush ends once the network is there.*)
Fairness ==
    /\ WifiFairness
    /\ WF_vars(PauseAfterAccept)
    /\ WF_vars(ReadFails) /\ WF_vars(WriteFails)
    /\ SF_vars(Flush)

Spec == Init /\ [][Next]_vars
FairSpec == Spec /\ Fairness

----------------------------------------------------------------------------
(* Properties.                                                             *)

(* Types: in particular, the count of attempts saturates, and the hold     *)
(* time and the loop keep to their bounds (wifi.rs 85, status.rs 749).     *)
ExchangeTypeOK ==
    /\ wifiPc \in {"check", "start", "scan", "connect", "pause"}
    /\ attempts \in 0..MaxAttempts
    /\ pc \in {"accept", "pause", "read", "write", "flush"}
    /\ request \in Requests \union {None}
    /\ hold \in 0..HttpHold /\ sinceLoop \in 0..LoopTicks

(* The red of an exchange is shown exactly while an exchange that has met  *)
(* an error is under way: not before the error, not by the hold time that  *)
(* follows, and not in the next exchange, by whichever of the four ways an *)
(* exchange ends (http.rs 402-421, 639-659; status.rs 759-768).            *)
ErrorShownWhileFailing ==
    \A fault, udp \in BOOLEAN :
        Colour(fault, udp) = "exchange red" <=>
            pc \in {"read", "write", "flush"} /\ failed

(* No exchange is missed by the LED: from its begin until the loop looks,  *)
(* the colour is that of an exchange, however short it was and whatever    *)
(* else there is to show.  It holds because the hold time (1200 ms) is     *)
(* longer than a turn of the loop (1000 ms and the reading of the probes). *)
EveryExchangeShown ==
    unseen => \A fault, udp \in BOOLEAN :
                  Colour(fault, udp) \in {"blue", "exchange red"}

(* What is carried out is what the client asked for, wherever the request  *)
(* is cut: never another operation, never another flag.  Only a number or  *)
(* a bare name that is cut is taken for the whole (http.rs 292-300, 187).  *)
AppliedAsAsked ==
    applied # None =>
        /\ applied.op = request.op
        /\ \/ applied.value = request.value
           \/ applied.op = "temperature" /\ applied.value < request.value
           \/ applied.op = "probe-name" /\ IsPrefix(applied.value, request.value)

(* Once the access point stays, the device is again and again ready for    *)
(* the next client, whatever went wrong in exchanges and in the driver.    *)
Serving == associated /\ pc \in {"accept", "pause"}
ServesAgain == (<>[]ap) => []<>Serving

(* The exchange and what the LED says of its failure (status.rs 747-787).  *)
LedInv == ExchangeTypeOK /\ ErrorShownWhileFailing
=============================================================================
