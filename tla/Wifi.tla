-------------------------------- MODULE Wifi --------------------------------
(***************************************************************************)
(* The task that keeps the firmware associated with its access point:      *)
(* wifi_connection_task in src/firmware/network/wifi.rs.                   *)
(*                                                                         *)
(* The radio driver and the access point are external: the driver starts,  *)
(* scans and connects or fails or times out, and the association is lost   *)
(* with the access point or without.  Power saving, the list of networks   *)
(* found and the lengths of the pauses are left out.                       *)
(***************************************************************************)
EXTENDS Naturals

CONSTANTS
    ScanEvery,       \* scan_every_attempts()
    MaxAttempts,     \* where the count of attempts saturates
    MaxOutages       \* bound: losses of the association

ASSUME WifiAssumption == ScanEvery \in Nat \ {0} /\ MaxAttempts \in Nat \ {0}

VARIABLES
    wifiPc,          \* what the task awaits
    attempts,        \* connect_attempts
    started, associated, ap,     \* driver and access point
    outages

wifi == <<wifiPc, attempts, started, associated, ap, outages>>

WifiInit ==
    /\ wifiPc = "check" /\ attempts = 0
    /\ started = FALSE /\ associated = FALSE /\ ap = TRUE
    /\ outages = 0

(* The access point goes away or comes back, or only drops the device.     *)
Outage ==
    /\ outages < MaxOutages /\ outages' = outages + 1
    /\ associated' = FALSE
    /\ ap' \in BOOLEAN
    /\ UNCHANGED <<wifiPc, attempts, started>>

Return ==
    /\ ~ap /\ ap' = TRUE
    /\ UNCHANGED <<wifiPc, attempts, started, associated, outages>>

(* Connected: nothing to do for five seconds.  Otherwise, or if the driver *)
(* does not know, one more attempt, after a scan on the first one and on   *)
(* every ScanEvery-th as long as the link is down.                         *)
Attempt == IF attempts < MaxAttempts THEN attempts + 1 ELSE attempts
ShouldScan(n) == ~associated /\ (n = 1 \/ n % ScanEvery = 0)

Connection ==
    \/ associated /\ attempts' = 0 /\ wifiPc' = "pause"
    \/ /\ attempts' = Attempt
       /\ wifiPc' = IF ShouldScan(Attempt) THEN "scan" ELSE "connect"

CheckFails ==
    /\ wifiPc = "check"
    /\ wifiPc' = "pause"
    /\ UNCHANGED <<attempts, started, associated, ap, outages>>

Check ==
    /\ wifiPc = "check"
    /\ IF started THEN Connection
       ELSE wifiPc' = "start" /\ attempts' = attempts
    /\ UNCHANGED <<started, associated, ap, outages>>

Start ==
    /\ wifiPc = "start"
    /\ started' = TRUE
    /\ Connection
    /\ UNCHANGED <<associated, ap, outages>>

StartFails ==
    /\ wifiPc = "start"
    /\ wifiPc' = "pause"
    /\ UNCHANGED <<attempts, started, associated, ap, outages>>

(* Whatever the scan finds, or if it fails, the device tries to connect.   *)
ScanOver ==
    /\ wifiPc = "scan"
    /\ wifiPc' = "connect"
    /\ UNCHANGED <<attempts, started, associated, ap, outages>>

Connect ==
    /\ wifiPc = "connect" /\ ap
    /\ associated' = TRUE
    /\ wifiPc' = "pause"
    /\ UNCHANGED <<attempts, started, ap, outages>>

ConnectFails ==
    /\ wifiPc = "connect"
    /\ wifiPc' = "pause"
    /\ UNCHANGED <<attempts, started, associated, ap, outages>>

PauseOver ==
    /\ wifiPc = "pause"
    /\ wifiPc' = "check"
    /\ UNCHANGED <<attempts, started, associated, ap, outages>>

WifiStep == Check \/ CheckFails \/ Start \/ StartFails \/ ScanOver \/ Connect
            \/ ConnectFails \/ PauseOver

(* The task runs on, and a driver that is asked again and again starts and *)
(* connects in the end.                                                    *)
WifiFairness ==
    /\ WF_wifi(WifiStep)
    /\ SF_wifi(Check) /\ SF_wifi(Start) /\ SF_wifi(Connect)
=============================================================================
