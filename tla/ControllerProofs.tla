-------------------------- MODULE ControllerProofs --------------------------
(***************************************************************************)
(* The invariants of Controller hold for every set of temperatures and     *)
(* setpoints, every deadband, window and number of probes.                 *)
(***************************************************************************)
EXTENDS Controller, TLAPS

(***************************************************************************)
(* What is true between the two pin writes, and of the last reading: the   *)
(* part of the inductive invariant that no task can observe.               *)
(***************************************************************************)
MidStep ==
  /\ basis = "regulated" => temp \in Temps
  /\ pc = "heat" => /\ basis = "regulated"
                    /\ coolPid.goals = {} \/ TooWarm(temp, goal)
                    /\ Near(goal, lastTarget)

IInv ==
  /\ TypeOK
  /\ RelayJustified
  /\ WindowsInStep
  /\ NoIntegralCarryOver
  /\ OneIntegral
  /\ ShownMatchesPins
  /\ FaultShown
  /\ MidStep

-----------------------------------------------------------------------------
\* The control probe and slot 0 are among the sensors, and a sensor number
\* is never the missing reading.
LEMMA ControlIndexIsSensor ==
  /\ ControlIndex \in Sensors
  /\ 0 \in Sensors
  /\ NoReading \notin Sensors
BY ControllerAssumption DEF ControlIndex, Sensors

\* A window counter stays inside its window.
LEMMA AdvanceInWindow ==
  ASSUME NEW w \in 0 .. WindowSteps - 1
  PROVE  Advance(w) \in 0 .. WindowSteps - 1
BY ControllerAssumption, SMT DEF Advance

\* A reading cannot be both too warm and too cold for one setpoint.
LEMMA BandSidesDisjoint ==
  ASSUME NEW t \in Int, NEW g \in Int
  PROVE  ~(TooWarm(t, g) /\ TooCold(t, g))
BY ControllerAssumption DEF TooWarm, TooCold

\* From one side of the band to the other is farther than its width.
LEMMA AcrossTheBand ==
  ASSUME NEW t1 \in Int, NEW g1 \in Int, NEW t2 \in Int, NEW g2 \in Int,
         TooCold(t1, g1), TooWarm(t2, g2)
  PROVE  (t2 - g2) - (t1 - g1) > 2 * HalfBand
BY ControllerAssumption DEF TooWarm, TooCold

\* What a boot writes is well typed.
LEMMA BootTyped ==
  /\ FreshPid \in PidMemory
  /\ 0 \in 0 .. WindowSteps - 1
  /\ [cool |-> FALSE, heat |-> FALSE] \in [cool : BOOLEAN, heat : BOOLEAN]
  /\ [i \in Sensors |-> NoReading] \in [Sensors -> Sensors \cup {NoReading}]
<1>1. FreshPid \in PidMemory
  BY DEF FreshPid, PidMemory
<1>2. 0 \in 0 .. WindowSteps - 1
  BY ControllerAssumption
<1>3. [cool |-> FALSE, heat |-> FALSE] \in [cool : BOOLEAN, heat : BOOLEAN]
  OBVIOUS
<1> QED
  BY <1>1, <1>2, <1>3

\* The operators on the memory of a PID return a memory of a PID.
LEMMA PidTyped ==
  ASSUME NEW p \in PidMemory, NEW g \in Targets, NEW active \in BOOLEAN
  PROVE  /\ FreshPid \in PidMemory
         /\ PidReset(p) \in PidMemory
         /\ PidOutput(p, g) \in PidMemory
         /\ PidStep(p, active, g) \in PidMemory
BY DEF PidMemory, FreshPid, PidReset, PidOutput, PidStep

\* What each of them does to the integral.
LEMMA PidGoals ==
  ASSUME NEW p \in PidMemory, NEW g \in Targets, NEW active \in BOOLEAN
  PROVE  /\ PidReset(p).goals = {}
         /\ PidStep(p, active, g).goals =
              IF active THEN p.goals \cup {g} ELSE {}
BY DEF PidMemory, PidReset, PidOutput, PidStep

\* A setpoint that is not a change is near the remembered one.
LEMMA UnchangedIsNear ==
  ASSUME TypeOK, ~SetpointChanged
  PROVE  Near(target, lastTarget)
BY ControllerAssumption DEF TypeOK, SetpointChanged, Near

\* Every setpoint is near itself.
LEMMA NearItself ==
  ASSUME NEW g \in Targets
  PROVE  Near(g, g)
BY ControllerAssumption DEF Near

-----------------------------------------------------------------------------
\* The initial states satisfy the invariant.
LEMMA InitIInv == Init => IInv
<1> SUFFICES ASSUME Init PROVE IInv
  OBVIOUS
<1>1. TypeOK
  BY BootTyped, Zenon DEF Init, TypeOK
<1>2. RelayJustified /\ WindowsInStep /\ ShownMatchesPins /\ MidStep
  BY DEF Init, RelayJustified, WindowsInStep, ShownMatchesPins, MidStep
<1>3. NoIntegralCarryOver /\ OneIntegral
  BY DEF Init, NoIntegralCarryOver, OneIntegral, FreshPid
<1>4. FaultShown
  BY ControlIndexIsSensor DEF Init, FaultShown
<1> QED
  BY <1>1, <1>2, <1>3, <1>4 DEF IInv

\* A reboot leads to a state that satisfies it.
LEMMA RebootIInv == Reboot => IInv'
<1> SUFFICES ASSUME Reboot PROVE IInv'
  OBVIOUS
<1>1. TypeOK'
  BY BootTyped, Zenon DEF Reboot, TypeOK
<1>2. RelayJustified' /\ WindowsInStep' /\ ShownMatchesPins' /\ MidStep'
  BY DEF Reboot, RelayJustified, WindowsInStep, ShownMatchesPins, MidStep
<1>3. NoIntegralCarryOver' /\ OneIntegral'
  BY DEF Reboot, NoIntegralCarryOver, OneIntegral, FreshPid
<1>4. FaultShown'
  BY ControlIndexIsSensor DEF Reboot, FaultShown
<1> QED
  BY <1>1, <1>2, <1>3, <1>4 DEF IInv

\* Standing down, for whatever reason, leaves nothing to carry over.
LEMMA StandDownIInv ==
  ASSUME IInv, NEW why \in {"idle", "fault"}, StandDown(why),
         slot' \in [Sensors -> Sensors \cup {NoReading}],
         slot'[0] = NoReading <=> why = "fault"
  PROVE  IInv'
<1>1. TypeOK'
  <2>1. coolPid' \in PidMemory /\ heatPid' \in PidMemory
    BY PidTyped DEF IInv, TypeOK, StandDown
  <2> QED
    BY <2>1, BootTyped, Zenon
    DEF IInv, TypeOK, StandDown, PinsLow, WindowsRestarted, settings
<1>2. RelayJustified' /\ WindowsInStep'
  BY DEF StandDown, PinsLow, WindowsRestarted, RelayJustified, WindowsInStep
<1>3. NoIntegralCarryOver' /\ OneIntegral'
  <2>1. coolPid'.goals = {} /\ heatPid'.goals = {}
    BY DEF IInv, TypeOK, StandDown, PidMemory, PidReset
  <2> QED
    BY <2>1 DEF NoIntegralCarryOver, OneIntegral
<1>4. ShownMatchesPins' /\ FaultShown' /\ MidStep'
  BY DEF StandDown, PinsLow, ShownMatchesPins, FaultShown, MidStep
<1> QED
  BY <1>1, <1>2, <1>3, <1>4 DEF IInv

\* The first half of a regulating step: the cool pin is written.
LEMMA DriveCoolIInv ==
  ASSUME IInv, NEW good \in SUBSET Sensors, NEW t \in Temps,
         NEW n \in 0 .. WindowSteps, DriveCool(good, t, n)
  PROVE  IInv'
<1> DEFINE active == TooWarm(t, target)
           pid0   == IF SetpointChanged THEN PidReset(coolPid) ELSE coolPid
           window == IF SetpointChanged THEN 0 ELSE coolWindow
<1>a. TypeOK /\ target \in Targets /\ pid0 \in PidMemory
      /\ window \in 0 .. WindowSteps - 1 /\ active \in BOOLEAN
  <2>1. coolPid \in PidMemory /\ target \in Targets
    BY DEF IInv, TypeOK
  <2> QED
    BY <2>1, PidTyped, ControllerAssumption DEF IInv, TypeOK, TooWarm
<1>b. /\ temp' = t /\ goal' = target /\ basis' = "regulated" /\ pc' = "heat"
      /\ coolPid' = PidStep(pid0, active, target)
      /\ cool' = (window < n) /\ coolWindow' = window
      /\ heatWindow' = IF SetpointChanged THEN 0 ELSE heatWindow
      /\ heat' = IF SetpointChanged THEN FALSE ELSE heat
      /\ heatPid' = IF SetpointChanged THEN PidReset(heatPid) ELSE heatPid
      /\ lastTarget' = IF SetpointChanged THEN target ELSE lastTarget
      /\ n \in OnSteps(active)
  BY DEF DriveCool
<1>1. TypeOK'
  <2>1. coolPid' \in PidMemory /\ heatPid' \in PidMemory
    BY <1>a, <1>b, PidTyped DEF TypeOK
  <2>2. slot' \in [Sensors -> Sensors \cup {NoReading}]
    BY DEF DriveCool, Readings
  <2>3. cool' \in BOOLEAN /\ heat' \in BOOLEAN
    <3>1. cool' \in BOOLEAN
      BY <1>b
    <3>2. heat' \in BOOLEAN
      BY <1>a, <1>b, Zenon DEF TypeOK
    <3> QED
      BY <3>1, <3>2
  <2>4. coolWindow' \in 0 .. WindowSteps - 1 /\ heatWindow' \in 0 .. WindowSteps - 1
    BY <1>a, <1>b, ControllerAssumption DEF TypeOK
  <2>5. lastTarget' \in Targets
    BY <1>a, <1>b DEF TypeOK
  <2>6. UNCHANGED <<settings, shown>>
    BY DEF DriveCool
  <2> QED
    BY <1>a, <1>b, <2>1, <2>2, <2>3, <2>4, <2>5, <2>6 DEF TypeOK, settings
<1>2. RelayJustified'
  <2>1. cool' => TooWarm(t, target)
    <3>1. ~active => n = 0
      BY <1>b DEF OnSteps
    <3> QED
      BY <3>1, <1>a, <1>b, ControllerAssumption
  <2> QED
    BY <2>1, <1>b DEF RelayJustified, Observable, TooWarm
<1>3. WindowsInStep'
  BY <1>b DEF IInv, WindowsInStep
<1>4. NoIntegralCarryOver'
  <2>1. CASE SetpointChanged
    <3>1. coolPid'.goals \subseteq {target} /\ heatPid'.goals = {}
      <4>1. coolPid' = PidStep(PidReset(coolPid), active, target)
            /\ heatPid' = PidReset(heatPid)
        BY <2>1, <1>b
      <4>2. /\ PidReset(coolPid) \in PidMemory /\ PidReset(coolPid).goals = {}
            /\ PidReset(heatPid).goals = {}
        BY <1>a, PidTyped, PidGoals DEF TypeOK
      <4>3. PidStep(PidReset(coolPid), active, target).goals =
              IF active THEN PidReset(coolPid).goals \cup {target} ELSE {}
        BY <4>2, <1>a, PidGoals
      <4> QED
        BY <4>1, <4>2, <4>3
    <3> QED
      BY <3>1, <2>1, <1>a, <1>b, NearItself DEF NoIntegralCarryOver, Near
  <2>2. CASE ~SetpointChanged
    <3>1. coolPid'.goals \subseteq coolPid.goals \cup {target}
          /\ heatPid' = heatPid /\ lastTarget' = lastTarget
      BY <2>2, <1>a, <1>b, PidGoals
    <3>2. Near(target, lastTarget)
      BY <2>2, <1>a, UnchangedIsNear
    <3> QED
      BY <3>1, <3>2 DEF IInv, NoIntegralCarryOver, Near
  <2> QED
    BY <2>1, <2>2
<1>5. OneIntegral' /\ ShownMatchesPins' /\ FaultShown'
  BY <1>b DEF OneIntegral, ShownMatchesPins, FaultShown, Observable
<1>6. MidStep'
  <2>1. coolPid'.goals = {} \/ active
    BY <1>a, <1>b, PidGoals
  <2>2. Near(goal', lastTarget')
    <3>1. CASE SetpointChanged
      BY <3>1, <1>a, <1>b, NearItself
    <3>2. CASE ~SetpointChanged
      BY <3>2, <1>a, <1>b, UnchangedIsNear
    <3> QED
      BY <3>1, <3>2
  <2> QED
    BY <2>1, <2>2, <1>b DEF MidStep, TooWarm, Near
<1> QED
  BY <1>1, <1>2, <1>3, <1>4, <1>5, <1>6 DEF IInv

\* The second half: the heat pin is written and the windows advance.
LEMMA DriveHeatIInv ==
  ASSUME IInv, NEW n \in 0 .. WindowSteps, DriveHeat(n)
  PROVE  IInv'
<1> DEFINE active == TooCold(temp, goal)
<1>a. /\ TypeOK /\ basis = "regulated" /\ temp \in Temps /\ goal \in Targets
      /\ temp \in Int /\ goal \in Int /\ active \in BOOLEAN
  BY ControllerAssumption DEF IInv, TypeOK, MidStep, DriveHeat, TooCold
<1>b. /\ heatPid' = PidStep(heatPid, active, goal) /\ heat' = HeatLevel(n)
      /\ shown' = [cool |-> cool, heat |-> heat'] /\ pc' = "rest"
      /\ slot' = [slot EXCEPT ![0] = ControlIndex]
      /\ coolWindow' = Advance(coolWindow) /\ heatWindow' = Advance(heatWindow)
      /\ n \in OnSteps(active)
      /\ UNCHANGED <<settings, lastTarget, temp, goal, basis, cool, coolPid>>
  BY DEF DriveHeat, Published, loop
<1>1. TypeOK'
  <2>1. heatPid' \in PidMemory
    BY <1>a, <1>b, PidTyped DEF TypeOK
  <2>2. coolWindow' \in 0 .. WindowSteps - 1 /\ heatWindow' \in 0 .. WindowSteps - 1
    BY <1>a, <1>b, AdvanceInWindow DEF TypeOK
  <2>3. slot' \in [Sensors -> Sensors \cup {NoReading}]
    BY <1>a, <1>b, ControlIndexIsSensor DEF TypeOK
  <2>4. heat' \in BOOLEAN
    BY <1>b DEF HeatLevel
  <2> QED
    BY <1>a, <1>b, <2>1, <2>2, <2>3, <2>4 DEF TypeOK, settings
<1>2. RelayJustified'
  <2>1. heat' => active
    <3>1. ~active => n = 0
      BY <1>b DEF OnSteps
    <3> QED
      BY <3>1, <1>a, <1>b, ControllerAssumption DEF HeatLevel, TypeOK
  <2> QED
    BY <2>1, <1>a, <1>b DEF IInv, RelayJustified, TooWarm, TooCold
<1>3. WindowsInStep'
  BY <1>b DEF IInv, WindowsInStep
<1>4. NoIntegralCarryOver'
  <2>1. heatPid'.goals \subseteq heatPid.goals \cup {goal}
    BY <1>a, <1>b, PidGoals DEF TypeOK
  <2>2. Near(goal, lastTarget)
    BY DEF IInv, MidStep, DriveHeat
  <2> QED
    BY <1>b, <2>1, <2>2 DEF IInv, NoIntegralCarryOver, Near
<1>5. OneIntegral'
  <2>1. heatPid'.goals = {} \/ active
    BY <1>a, <1>b, PidGoals DEF TypeOK
  <2>2. coolPid.goals = {} \/ TooWarm(temp, goal)
    BY DEF IInv, MidStep, DriveHeat
  <2> QED
    BY <1>a, <1>b, <2>1, <2>2, BandSidesDisjoint DEF OneIntegral
<1>6. ShownMatchesPins'
  BY <1>b DEF ShownMatchesPins
<1>7. FaultShown'
  BY <1>a, <1>b, ControlIndexIsSensor DEF TypeOK, FaultShown
<1>8. MidStep'
  BY <1>a, <1>b DEF MidStep
<1> QED
  BY <1>1, <1>2, <1>3, <1>4, <1>5, <1>6, <1>7, <1>8 DEF IInv

-----------------------------------------------------------------------------
\* Every step of the specification preserves the invariant.
LEMMA NextIInv == IInv /\ [Next]_vars => IInv'
<1> SUFFICES ASSUME IInv, [Next]_vars PROVE IInv'
  OBVIOUS
<1>a. slot \in [Sensors -> Sensors \cup {NoReading}]
  BY DEF IInv, TypeOK
<1>b. ASSUME NEW good \in SUBSET Sensors
      PROVE  Readings(good) \in [Sensors -> Sensors \cup {NoReading}]
  BY DEF Readings
<1>1. CASE StartConversion
  BY <1>1 DEF StartConversion, IInv, TypeOK, RelayJustified, WindowsInStep,
     NoIntegralCarryOver, OneIntegral, ShownMatchesPins, FaultShown, MidStep,
     Observable, TooWarm, TooCold, Near, settings, loop, pins, windows, pids
<1>2. CASE ConversionFailed
  <2>1. /\ slot' \in [Sensors -> Sensors \cup {NoReading}]
        /\ slot'[0] = NoReading
    BY <1>2, <1>a, ControlIndexIsSensor DEF ConversionFailed, FaultSlot
  <2> QED
    BY <1>2, <2>1, StandDownIInv DEF ConversionFailed
<1>3. ASSUME NEW good \in SUBSET Sensors, NoControlReading(good)
      PROVE  IInv'
  <2>1. /\ slot' \in [Sensors -> Sensors \cup {NoReading}]
        /\ slot'[0] = NoReading
    BY <1>3, <1>b, ControlIndexIsSensor DEF NoControlReading, FaultSlot
  <2> QED
    BY <1>3, <2>1, StandDownIInv DEF NoControlReading
<1>4. ASSUME NEW good \in SUBSET Sensors, Idle(good)
      PROVE  IInv'
  <2>1. /\ slot' \in [Sensors -> Sensors \cup {NoReading}]
        /\ slot'[0] # NoReading
    BY <1>4, <1>b, ControlIndexIsSensor DEF Idle
  <2> QED
    BY <1>4, <2>1, StandDownIInv DEF Idle
<1>5. ASSUME NEW good \in SUBSET Sensors, NEW t \in Temps,
             NEW n \in 0 .. WindowSteps, DriveCool(good, t, n)
      PROVE  IInv'
  BY <1>5, DriveCoolIInv
<1>6. ASSUME NEW n \in 0 .. WindowSteps, DriveHeat(n)
      PROVE  IInv'
  BY <1>6, DriveHeatIInv
<1>7. ASSUME NEW t \in Targets, PostTarget(t)
      PROVE  IInv'
  BY <1>7 DEF PostTarget, IInv, TypeOK, RelayJustified, WindowsInStep,
     NoIntegralCarryOver, OneIntegral, ShownMatchesPins, FaultShown, MidStep,
     Observable, TooWarm, TooCold, Near, loop, pins, windows, pids
<1>8. ASSUME NEW on \in BOOLEAN, PostCollection(on)
      PROVE  IInv'
  BY <1>8 DEF PostCollection, IInv, TypeOK, RelayJustified, WindowsInStep,
     NoIntegralCarryOver, OneIntegral, ShownMatchesPins, FaultShown, MidStep,
     Observable, TooWarm, TooCold, Near, loop, pins, windows, pids
<1>9. CASE Reboot
  BY <1>9, RebootIInv
<1>10. CASE UNCHANGED vars
  BY <1>10 DEF vars, IInv, TypeOK, RelayJustified, WindowsInStep,
     NoIntegralCarryOver, OneIntegral, ShownMatchesPins, FaultShown, MidStep,
     Observable, TooWarm, TooCold, Near, settings, loop, pins, windows, pids
<1> QED
  BY <1>1, <1>2, <1>3, <1>4, <1>5, <1>6, <1>7, <1>8, <1>9, <1>10 DEF Next, Loop

\* The inductive invariant holds in every reachable state.
LEMMA Inductive == Spec => []IInv
BY InitIInv, NextIInv, PTL DEF Spec

\* Type correctness.
THEOREM ControllerTypeCorrect == Spec => []TypeOK
BY Inductive, PTL DEF IInv

(***************************************************************************)
(* The relay interlock: no task ever runs while both relays are on.  Each  *)
(* relay is on only for a reading on its side of the deadband, and the two *)
(* sides are disjoint.                                                     *)
(***************************************************************************)
THEOREM ControllerInterlock == Spec => []RelaysExclusive
<1>1. IInv => RelaysExclusive
  <2> SUFFICES ASSUME IInv, Observable, cool, heat PROVE FALSE
    BY DEF RelaysExclusive
  <2>1. TooWarm(temp, goal) /\ TooCold(temp, goal) /\ temp \in Int /\ goal \in Int
    BY ControllerAssumption DEF IInv, TypeOK, MidStep, RelayJustified
  <2> QED
    BY <2>1, BandSidesDisjoint
<1> QED
  BY <1>1, Inductive, PTL

\* A relay is on only for a good reading beyond the deadband.
THEOREM ControllerRelayJustified == Spec => []RelayJustified
BY Inductive, PTL DEF IInv

\* No integral outlives the setpoint it was accumulated for.
THEOREM ControllerNoIntegralCarryOver == Spec => []NoIntegralCarryOver
BY Inductive, PTL DEF IInv

\* The PIDs never integrate against each other, and what is published of the
\* loop is what the loop did.
THEOREM ControllerShown == Spec => []LoopInv
BY Inductive, PTL DEF IInv, LoopInv

(***************************************************************************)
(* From heating to cooling in one sample only across the whole deadband.   *)
(***************************************************************************)
THEOREM ControllerNoReversal == Spec => NoReversalInDeadband
<1> DEFINE Reversal ==
      heat /\ ~cool /\ cool' => (temp' - goal') - (temp - goal) > 2 * HalfBand
<1>1. ASSUME IInv, IInv', [Next]_vars PROVE [Reversal]_vars
  <2> SUFFICES ASSUME Next, heat, ~cool, cool'
               PROVE  (temp' - goal') - (temp - goal) > 2 * HalfBand
    BY <1>1
  <2>1. PICK good \in SUBSET Sensors, t \in Temps, n \in 0 .. WindowSteps :
          DriveCool(good, t, n)
    BY DEF Next, Loop, StartConversion, ConversionFailed, NoControlReading, Idle,
       DriveHeat, StandDown, PinsLow, PostTarget, PostCollection, Reboot, loop, pins
  <2>2. TooCold(temp, goal) /\ temp \in Int /\ goal \in Int
    BY <2>1, <1>1, ControllerAssumption
    DEF DriveCool, IInv, TypeOK, MidStep, RelayJustified, Observable
  <2>3. TooWarm(temp', goal') /\ temp' \in Int /\ goal' \in Int
    BY <1>1, ControllerAssumption DEF IInv, TypeOK, MidStep, RelayJustified, TooWarm
  <2> QED
    BY <2>2, <2>3, AcrossTheBand
<1> QED
  BY <1>1, Inductive, PTL DEF Spec, NoReversalInDeadband
=============================================================================
