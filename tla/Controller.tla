----------------------------- MODULE Controller -----------------------------
(***************************************************************************)
(* The temperature controller of the firmware: control_step                *)
(* (src/firmware/controller.rs) called by the loop of main                 *)
(* (src/bin/main.rs), and the two settings the HTTP task changes under it. *)
(*                                                                         *)
(* The executor is cooperative: other tasks run only while the loop waits  *)
(* at one of its two awaits, the sample period ("rest") and the sensor     *)
(* conversion ("converting").  The relay pins are hardware and change at   *)
(* once, so the step between the write of the cool pin and the write of    *)
(* the heat pin is a state of its own ("heat"), in which no task runs.     *)
(*                                                                         *)
(* The arithmetic of the pid crate is left out: an active PID returns any  *)
(* number of on-steps.  What is kept is the memory that survives from one  *)
(* output to the next, as the setpoints it was built up under.             *)
(***************************************************************************)
EXTENDS Integers

CONSTANTS
  Temps,         \* readings of the control probe, in units of 0.05 degC
  Targets,       \* setpoints, in the same unit
  HalfBand,      \* ssr_deadband_c() / 2
  Tolerance,     \* smallest setpoint difference that is not a change: 0.05 degC
  WindowSteps,   \* SSR_WINDOW_STEPS
  SensorCount,   \* config::SENSORS.len(), at most MAX_SENSORS
  ControlProbe,  \* config::CONTROL_PROBE_INDEX
  NoReading      \* no value: no reading yet, or a failed one

ASSUME ControllerAssumption ==
  /\ Temps \subseteq Int
  /\ Targets \subseteq Int
  /\ HalfBand \in Nat
  /\ Tolerance \in Nat
  /\ WindowSteps \in Nat \ {0}
  /\ SensorCount \in Nat \ {0}
  /\ ControlProbe \in Nat
  /\ NoReading \notin Int

VARIABLES
  pc,           \* where the control loop is
  target,       \* TARGET_CENTI, stored by POST /temperature
  collecting,   \* COLLECTION_ENABLED, stored by POST /collection
  lastTarget,   \* last_target_c, a local of main
  temp,         \* the control reading last acted on
  goal,         \* the target it was compared with
  basis,        \* what the last step of the loop was based on
  cool, heat,   \* the levels of the two relay pins
  coolWindow, heatWindow,  \* window_step, heat_window_step
  coolPid, heatPid,        \* what the two PIDs remember
  slot,         \* LAST_TEMP_CENTI / LAST_SENSOR_STATUS: whose reading is shown
  shown         \* LAST_RELAY_ON and LAST_HEAT_ON

settings == <<target, collecting>>
loop     == <<lastTarget, temp, goal, basis>>
pins     == <<cool, heat>>
windows  == <<coolWindow, heatWindow>>
pids     == <<coolPid, heatPid>>
vars     == <<pc, settings, loop, pins, windows, pids, slot, shown>>

Sensors == 0 .. SensorCount - 1

\* The probe that drives the relays: the configured index, clamped.
ControlIndex == IF ControlProbe < SensorCount THEN ControlProbe ELSE SensorCount - 1

(***************************************************************************)
(* The memory of a pid::Pid.  `goals` is the integral term, as the set of  *)
(* setpoints under which it was accumulated; `prev` is prev_measurement,   *)
(* as the setpoint in force when that measurement was taken.               *)
(***************************************************************************)
FreshPid == [goals |-> {}, prev |-> NoReading]

\* reset_integral_term clears the integral and nothing else.
PidKept(p) == p  \* mutant: the integral survives
PidReset(p) == [p EXCEPT !.goals = {}]

\* next_control_output adds to the integral and remembers the measurement.
PidOutput(p, g) == [goals |-> p.goals \cup {g}, prev |-> g]

(***************************************************************************)
(* One PID in one step: asked for an output beyond the deadband, reset     *)
(* inside it and on the other side of the setpoint.                        *)
(***************************************************************************)
PidStep(p, active, g) == IF active THEN PidOutput(p, g) ELSE PidReset(p)

(***************************************************************************)
(* The duty cycle of a PID: compute_on_steps of its output clamped to      *)
(* 0..100 when it is asked for one, no step at all when it is not.         *)
(***************************************************************************)
OnStepsAlways(active) == 0 .. WindowSteps  \* mutant: no deadband
OnSteps(active) == IF active THEN 0 .. WindowSteps ELSE {0}

\* Beyond the deadband, above and below the setpoint.
TooWarmAtOnce(t, g) == t - g > 0  \* mutant: no deadband on the cool side
TooWarm(t, g) == t - g > HalfBand
TooCold(t, g) == t - g < -HalfBand

\* The heat pin: never while cooling, and only early in the window.
HeatLevelHeld(n) == IF n = 0 THEN heat ELSE ~cool /\ heatWindow < n  \* mutant
HeatLevel(n) == ~cool /\ heatWindow < n

\* The next second of a window.
Advance(w) == (w + 1) % WindowSteps

\* What update_success publishes of the relays.
PublishedEarly(on) == [cool |-> cool, heat |-> heat]  \* mutant: before the write
Published(on) == [cool |-> cool, heat |-> on]

\* What update_error does to the status slots.
FaultSlot(s) == [s EXCEPT ![0] = NoReading]

\* Both pins low; both windows at their start.
PinsHeld == UNCHANGED pins  \* mutant
PinsLow == cool' = FALSE /\ heat' = FALSE
WindowsRestarted == coolWindow' = 0 /\ heatWindow' = 0

\* A setpoint change the loop reacts to.
SetpointChanged ==
  target - lastTarget > Tolerance \/ lastTarget - target > Tolerance

-----------------------------------------------------------------------------
\* Boot: pins low, PIDs fresh, settings as flash left them.
Init ==
  /\ pc = "rest"
  /\ target \in Targets
  /\ collecting \in BOOLEAN
  /\ lastTarget = target
  /\ temp = NoReading
  /\ goal = target
  /\ basis = "boot"
  /\ cool = FALSE
  /\ heat = FALSE
  /\ coolWindow = 0
  /\ heatWindow = 0
  /\ coolPid = FreshPid
  /\ heatPid = FreshPid
  /\ slot = [i \in Sensors |-> NoReading]
  /\ shown = [cool |-> FALSE, heat |-> FALSE]

\* A power cycle at any point; flash may hold older settings than RAM did.
Reboot ==
  /\ pc' = "rest"
  /\ target' \in Targets
  /\ collecting' \in BOOLEAN
  /\ lastTarget' = target'
  /\ temp' = NoReading
  /\ goal' = target'
  /\ basis' = "boot"
  /\ cool' = FALSE
  /\ heat' = FALSE
  /\ coolWindow' = 0
  /\ heatWindow' = 0
  /\ coolPid' = FreshPid
  /\ heatPid' = FreshPid
  /\ slot' = [i \in Sensors |-> NoReading]
  /\ shown' = [cool |-> FALSE, heat |-> FALSE]

\* The HTTP task runs while the loop waits.
PostTarget(t) ==
  /\ pc \in {"rest", "converting"}
  /\ target' = t
  /\ UNCHANGED <<pc, collecting, loop, pins, windows, pids, slot, shown>>

PostCollection(on) ==
  /\ pc \in {"rest", "converting"}
  /\ collecting' = on
  /\ UNCHANGED <<pc, target, loop, pins, windows, pids, slot, shown>>

-----------------------------------------------------------------------------
(***************************************************************************)
(* The common part of the paths that do not regulate: both PIDs reset,     *)
(* both relays low, the window restarted, zeros published.                 *)
(***************************************************************************)
StandDown(why) ==
  /\ PinsLow
  /\ WindowsRestarted
  /\ coolPid' = PidReset(coolPid)
  /\ heatPid' = PidReset(heatPid)
  /\ shown' = [cool |-> FALSE, heat |-> FALSE]
  /\ basis' = why
  /\ pc' = "rest"
  /\ UNCHANGED <<settings, lastTarget, temp, goal>>

\* The loop wakes and the bus accepts the conversion command.
StartConversion ==
  /\ pc = "rest"
  /\ pc' = "converting"
  /\ UNCHANGED <<settings, loop, pins, windows, pids, slot, shown>>

\* The conversion command fails: on_sensor_error, which marks slot 0.
ConversionFailed ==
  /\ pc = "rest"
  /\ StandDown("fault")
  /\ slot' = FaultSlot(slot)

\* Every probe is read in turn; `good` are those that answer.
Readings(good) == [i \in Sensors |-> IF i \in good THEN i ELSE NoReading]

\* The control probe does not answer: on_sensor_error(NoDevice).
NoControlReading(good) ==
  /\ pc = "converting"
  /\ ControlIndex \notin good
  /\ StandDown("fault")
  /\ slot' = FaultSlot(Readings(good))

\* Collection is off: measure, publish, keep both relays low.
Idle(good) ==
  /\ pc = "converting"
  /\ ControlIndex \in good
  /\ ~collecting
  /\ StandDown("idle")
  /\ slot' = [Readings(good) EXCEPT ![0] = ControlIndex]

(***************************************************************************)
(* Collection is on: react to a changed setpoint, run the cool PID, write  *)
(* the cool pin.  `t` is the reading, `n` the on-steps of the cool PID.    *)
(* Below target the integral is cleared too, which the branch inside the   *)
(* deadband does in any case.                                              *)
(***************************************************************************)
DriveCool(good, t, n) ==
  LET active == TooWarm(t, target)
      pid0   == IF SetpointChanged THEN PidReset(coolPid) ELSE coolPid
      window == IF SetpointChanged THEN 0 ELSE coolWindow
  IN  /\ pc = "converting"
      /\ ControlIndex \in good
      /\ collecting
      /\ n \in OnSteps(active)
      /\ slot' = Readings(good)
      /\ temp' = t
      /\ goal' = target
      /\ basis' = "regulated"
      /\ coolPid' = PidStep(pid0, active, target)
      /\ cool' = (window < n)
      /\ coolWindow' = window
      /\ IF SetpointChanged
         THEN /\ heatPid' = PidReset(heatPid)
              /\ heatWindow' = 0
              /\ heat' = FALSE
              /\ lastTarget' = target
         ELSE UNCHANGED <<heatPid, heatWindow, heat, lastTarget>>
      /\ pc' = "heat"
      /\ UNCHANGED <<settings, shown>>

(***************************************************************************)
(* The rest of the step: run the heat PID, write the heat pin, publish,    *)
(* advance both windows.  update_success puts the control reading in slot  *)
(* 0, whichever probe it came from.                                        *)
(***************************************************************************)
DriveHeat(n) ==
  /\ pc = "heat"
  /\ n \in OnSteps(TooCold(temp, goal))
  /\ heatPid' = PidStep(heatPid, TooCold(temp, goal), goal)
  /\ heat' = HeatLevel(n)
  /\ shown' = Published(HeatLevel(n))
  /\ slot' = [slot EXCEPT ![0] = ControlIndex]
  /\ coolWindow' = Advance(coolWindow)
  /\ heatWindow' = Advance(heatWindow)
  /\ pc' = "rest"
  /\ UNCHANGED <<settings, loop, cool, coolPid>>

Loop ==
  \/ StartConversion
  \/ ConversionFailed
  \/ \E good \in SUBSET Sensors :
       \/ NoControlReading(good)
       \/ Idle(good)
       \/ \E t \in Temps, n \in 0 .. WindowSteps : DriveCool(good, t, n)
  \/ \E n \in 0 .. WindowSteps : DriveHeat(n)

Next ==
  \/ Loop
  \/ \E t \in Targets : PostTarget(t)
  \/ \E on \in BOOLEAN : PostCollection(on)
  \/ Reboot

Spec == Init /\ [][Next]_vars

(***************************************************************************)
(* The loop of main never ends and every await of it is a timer: the       *)
(* executor keeps running it.                                              *)
(***************************************************************************)
FairSpec == Spec /\ WF_vars(Loop)

-----------------------------------------------------------------------------
PidMemory == [goals : SUBSET Targets, prev : Targets \cup {NoReading}]

\* Every variable holds a value of its type.
TypeOK ==
  /\ pc \in {"rest", "converting", "heat"}
  /\ target \in Targets
  /\ collecting \in BOOLEAN
  /\ lastTarget \in Targets
  /\ temp \in Temps \cup {NoReading}
  /\ goal \in Targets
  /\ basis \in {"boot", "idle", "fault", "regulated"}
  /\ cool \in BOOLEAN
  /\ heat \in BOOLEAN
  /\ coolWindow \in 0 .. WindowSteps - 1
  /\ heatWindow \in 0 .. WindowSteps - 1
  /\ coolPid \in PidMemory
  /\ heatPid \in PidMemory
  /\ slot \in [Sensors -> Sensors \cup {NoReading}]
  /\ shown \in [cool : BOOLEAN, heat : BOOLEAN]

\* The states in which another task can run and look.
Observable == pc # "heat"

(***************************************************************************)
(* Whatever temperature jumps, faults, setting changes and reboots came    *)
(* before, no task ever runs while both relays are energised.              *)
(***************************************************************************)
RelaysExclusive == Observable => ~(cool /\ heat)

(***************************************************************************)
(* A relay is high only on the strength of the last sample, and only if    *)
(* that sample was a good reading, taken while collecting, beyond the      *)
(* deadband of the setpoint it was compared with.  So a fault, a stop or   *)
(* a setpoint change never leaves a relay on from before.                  *)
(***************************************************************************)
RelayJustified ==
  /\ cool => basis = "regulated" /\ TooWarm(temp, goal)
  /\ heat /\ Observable => basis = "regulated" /\ TooCold(temp, goal)

(***************************************************************************)
(* The two window counters, kept by separate assignments on five paths,    *)
(* never drift apart: heating and cooling share one window.                *)
(***************************************************************************)
WindowsInStep == coolWindow = heatWindow

(***************************************************************************)
(* "No carry-over from the previous goal": what a PID has integrated was   *)
(* integrated for the setpoint last_target_c remembers, up to the          *)
(* tolerance, even after stops, faults and series of tiny changes.         *)
(***************************************************************************)
Near(a, b) == a - b <= Tolerance /\ b - a <= Tolerance

NoIntegralCarryOver ==
  \A g \in coolPid.goals \cup heatPid.goals : Near(g, lastTarget)

\* The two PIDs never hold an integral against each other.
OneIntegral == Observable => coolPid.goals = {} \/ heatPid.goals = {}

(***************************************************************************)
(* The relay states that status, telemetry and history report are the      *)
(* levels of the pins whenever a task can read them.                       *)
(***************************************************************************)
ShownMatchesPins == Observable => shown = [cool |-> cool, heat |-> heat]

(***************************************************************************)
(* runtime_error_active, which looks at slot 0 only, tells whether the     *)
(* control loop is in a fault, whichever probe controls.                   *)
(***************************************************************************)
FaultShown == Observable => (slot[0] = NoReading <=> basis \in {"boot", "fault"})

(***************************************************************************)
(* From heating to cooling in one sample only if the temperature, relative *)
(* to the setpoint, crossed the whole deadband.                            *)
(***************************************************************************)
NoReversalInDeadband ==
  [][heat /\ ~cool /\ cool' => (temp' - goal') - (temp - goal) > 2 * HalfBand]_vars

(***************************************************************************)
(* Stopping collection releases the relays, unless it is started again.    *)
(***************************************************************************)
StopReleasesRelays == ~collecting ~> (collecting \/ ~(cool \/ heat))

(***************************************************************************)
(* Between two steps of the loop every task finds it in order: the types,  *)
(* the windows in step, one integral, and of relays and faults what the    *)
(* loop did last.                                                          *)
(***************************************************************************)
LoopInv == TypeOK /\ WindowsInStep /\ OneIntegral /\ ShownMatchesPins /\ FaultShown
=============================================================================
