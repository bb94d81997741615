----------------------------- MODULE SelfdriveD -----------------------------
(***************************************************************************)
(* selfdrived: the process that decides, 100 times a second, whether the   *)
(* car is engaged (longitudinal and lateral, the engagement machine) and   *)
(* whether Always-On Lateral may steer (the AOL machine).  One Step is one *)
(* frame of SelfdriveD.step: sample the data, compute the events, run the  *)
(* engagement machine on them, let AOL rewrite them and run its machine.   *)
(* A second thread refreshes the cached parameters at any moment.          *)
(***************************************************************************)
EXTENDS AolEvents

CONSTANTS
    Cars,            \* the cars (CarParams and the settings read at start)
    CarStates,       \* the carState messages a frame may see
    SystemEvents,    \* sets of events raised by the device, the model, ...
    MISMATCH_LIMIT   \* frames; 200 in the code

CarType == [brand : STRING, pcmCruise : BOOLEAN, openpilotLongitudinalControl : BOOLEAN,
            steeringMode : BrakeInterventionMode, aolEnabled : BOOLEAN,
            passive : BOOLEAN, disengageOnAccel : BOOLEAN]

CarStateType ==
    [canValid : BOOLEAN, canTimeout : BOOLEAN, standstill : BOOLEAN, slow : BOOLEAN,
     gearShifter : {"drive", "park", "reverse", "other"},
     doorOpen : BOOLEAN, seatbeltUnlatched : BOOLEAN, brakeHoldActive : BOOLEAN,
     parkingBrake : BOOLEAN, brakePressed : BOOLEAN, gasPressed : BOOLEAN,
     steeringPressed : BOOLEAN, lateralAvailable : BOOLEAN,
     cruiseAvailable : BOOLEAN, cruiseEnabled : BOOLEAN,
     cruiseFaultLateralMode : BOOLEAN, blockPcmEnable : BOOLEAN,
     buttonEnable : BOOLEAN,
     buttons : SUBSET (SET_SPEED_BUTTONS \cup {"cancel", "lkas"})]

ASSUME InputsAssumption ==
    /\ Cars \subseteq CarType
    /\ CarStates \subseteq CarStateType
    /\ SystemEvents \subseteq SUBSET EventName
    /\ MISMATCH_LIMIT \in Nat \ {0}

VARIABLES
    cp,                  \* the car, fixed while selfdrived runs
    frame,               \* the parity of sm.frame: every frame flips it
    initialized,
    state, soft_disable_timer, current_alert_types,     \* StateMachine
    enabled, active,                                    \* SelfdriveD
    mismatch_counter,
    aolState, aolEnabled, aolActive, enabled_prev,      \* AlwaysOnLateral
    CS_prev,                                            \* the last carState
    unified, mainToggle, disengage_on_accelerator       \* cached parameters

machine == <<state, soft_disable_timer, current_alert_types, enabled, active>>
aol     == <<aolState, aolEnabled, aolActive, enabled_prev>>
cached  == <<unified, mainToggle, disengage_on_accelerator>>
vars    == <<cp, frame, initialized, machine, mismatch_counter, aol, CS_prev, cached>>

-----------------------------------------------------------------------------
(* car.CarState.new_message(): every field at its default. *)
NoCarState ==
    [canValid |-> FALSE, canTimeout |-> FALSE, standstill |-> FALSE, slow |-> TRUE,
     gearShifter |-> "other", doorOpen |-> FALSE, seatbeltUnlatched |-> FALSE,
     brakeHoldActive |-> FALSE, parkingBrake |-> FALSE, brakePressed |-> FALSE,
     gasPressed |-> FALSE, steeringPressed |-> FALSE, lateralAvailable |-> FALSE,
     cruiseAvailable |-> FALSE, cruiseEnabled |-> FALSE,
     cruiseFaultLateralMode |-> FALSE, blockPcmEnable |-> FALSE,
     buttonEnable |-> FALSE, buttons |-> {}]

(* CarSpecificEvents.create_common_events, for the modelled carState fields; *)
(* the events of the other fields are among SystemEvents.                    *)
createCommonEvents(cs) ==
    When(cs.doorOpen, "doorOpen")
      \cup When(cs.seatbeltUnlatched, "seatbeltNotLatched")
      \cup When(cs.gearShifter # "drive", "wrongGear")
      \cup When(cs.gearShifter = "reverse", "reverseGear")
      \cup When(~cs.cruiseAvailable /\ ~cs.cruiseFaultLateralMode, "wrongCarMode")
      \cup When(cs.brakeHoldActive /\ cp.openpilotLongitudinalControl, "brakeHold")
      \cup When(cs.parkingBrake, "parkBrake")
      \cup When(cs.steeringPressed, "steerOverride")
      \cup When(cs.brakePressed /\ cs.standstill, "preEnableStandstill")
      \cup When(cs.gasPressed, "gasPressedOverride")
      \cup When(cs.buttonEnable, "buttonEnable")
      \cup When("cancel" \in cs.buttons /\ (cp.brand # "hyundai" \/ ~cp.pcmCruise),
                "buttonCancel")
      \cup When(cp.pcmCruise /\ cp.brand # "honda" /\ cs.cruiseEnabled
                  /\ ~CS_prev.cruiseEnabled /\ ~cs.blockPcmEnable, "pcmEnable")
      \cup When(cp.pcmCruise /\ cp.brand # "honda" /\ ~cs.cruiseEnabled, "pcmDisable")

(* Rising edge of gas (if so configured) or brake, or brake while moving.  *)
pedalPressed(cs) ==
    \/ cs.gasPressed /\ ~CS_prev.gasPressed /\ disengage_on_accelerator
    \/ cs.brakePressed /\ (~CS_prev.brakePressed \/ ~cs.standstill)

(* mutant: muted in park whether or not AOL is on *)
canEventsParkMuted(cs) ==
    IF cs.canTimeout
    THEN When(cs.gearShifter # "park", "canBusMissing")
    ELSE When(~cs.canValid, "canError")

(* canBusMissing is muted in park while AOL is enabled, and then hides the *)
(* canError of the same frame.                                             *)
canEvents(cs) ==
    IF cs.canTimeout
    THEN When(~(cs.gearShifter = "park" /\ aolEnabled), "canBusMissing")
    ELSE When(~cs.canValid, "canError")

(* mutant: one frame more than the limit *)
mismatchEventsLate(mismatches) ==
    When(mismatches > MISMATCH_LIMIT, "controlsMismatch")

mismatchEvents(mismatches) ==
    When(mismatches >= MISMATCH_LIMIT, "controlsMismatch")

(* SelfdriveD.update_events; sys are the events of the sources outside the *)
(* modelled carState, mismatches the counter after data_sample.            *)
updateEvents(cs, sys, init, mismatches) ==
    IF ~init      THEN {"selfdriveInitializing"}
    ELSE IF cp.passive THEN {}
    ELSE sys
      \cup (IF cs.canValid
            THEN createCommonEvents(cs) \cup When(pedalPressed(cs), "pedalPressed")
            ELSE {})
      \cup mismatchEvents(mismatches)
      \cup canEvents(cs)

(* mutant: counts whether or not selfdrived is engaged *)
sampledMismatchesAlways == {mismatch_counter, mismatch_counter + 1}

(* data_sample: the counter of frames in which a panda did not allow the   *)
(* controls although selfdrived was engaged.                               *)
sampledMismatches ==
    IF enabled THEN {mismatch_counter, mismatch_counter + 1} ELSE {0}

-----------------------------------------------------------------------------
Init ==
    /\ cp \in Cars
    /\ frame = 0
    /\ initialized = FALSE
    /\ state = "disabled" /\ soft_disable_timer = 0
    /\ current_alert_types = {"permanent"}
    /\ enabled = FALSE /\ active = FALSE
    /\ mismatch_counter = 0
    /\ aolState = "disabled" /\ aolEnabled = FALSE /\ aolActive = FALSE
    /\ enabled_prev = FALSE
    /\ CS_prev = NoCarState
    /\ unified \in BOOLEAN /\ mainToggle \in BOOLEAN
    /\ disengage_on_accelerator = cp.disengageOnAccel

(* state_machine.update, when it runs. *)
updateMachine(evs, run) ==
    IF ~run THEN [state |-> state, timer |-> soft_disable_timer,
                  alerts |-> current_alert_types, enabled |-> enabled, active |-> active]
    ELSE LET T   == typesOf(evs, EVENTS)
             new == nextState(state, tick(soft_disable_timer), T)
         IN [state   |-> new,
             timer   |-> nextTimer(state, soft_disable_timer, T),
             alerts  |-> alertTypes(state, soft_disable_timer, T),
             enabled |-> new \in ENABLED_STATES,
             active  |-> new \in ACTIVE_STATES]

(* What AlwaysOnLateral's machine sees of the frame, ssEnabled being the   *)
(* engagement flag that updateMachine has just computed.                   *)
aolPulse(cs, evs, ssEnabled) ==
    LET f == [cs |-> cs, prev |-> CS_prev, ssEnabled |-> ssEnabled,
              ssEnabledPrev |-> enabled_prev, st |-> aolState,
              enabled |-> aolEnabled, cp |-> cp, unified |-> unified,
              mainToggle |-> mainToggle, disengageOnAccel |-> cp.disengageOnAccel]
        x == aolUpdateEvents(f, [evs |-> evs, iq |-> {}])
    IN capturePulse(x.evs, x.iq)

(* AlwaysOnLateral.update, m being what updateMachine returned.            *)
updateAol(cs, evs, m, run) ==
    \/ /\ run /\ cp.aolEnabled
       /\ \E p \in {aolPulse(cs, evs, m.enabled)} :
             /\ aolState' = aolNextState(aolState, p, m.timer)
             /\ soft_disable_timer' = aolTimer(aolState, p, m.timer, m.enabled)
             /\ current_alert_types' =
                   m.alerts \cup aolAlerts(aolState, p, m.timer, m.enabled)
       /\ aolEnabled' = (aolState' \in LATERAL_CONTROLLED_STATES)
       /\ aolActive' = (aolState' \in TORQUE_DELIVERING_STATES)
       /\ enabled_prev' = m.enabled
    \/ /\ ~(run /\ cp.aolEnabled)
       /\ soft_disable_timer' = m.timer
       /\ current_alert_types' = m.alerts
       /\ enabled_prev' = IF cp.aolEnabled THEN m.enabled ELSE enabled_prev
       /\ UNCHANGED <<aolState, aolEnabled, aolActive>>

(* One frame.  A carState that does not arrive in time is replaced by the   *)
(* previous one, its button presses included.  selfdrived is initialized    *)
(* once all_checks passed or the start-up timed out.                        *)
Step ==
    \E cs \in CarStates \cup {CS_prev}, sys \in SystemEvents :
        /\ frame' = 1 - frame
        /\ initialized' \in {initialized, TRUE}
        /\ mismatch_counter' \in sampledMismatches
        /\ LET run == initialized' /\ ~cp.passive IN
           \E evs \in {updateEvents(cs, sys, initialized', mismatch_counter')} :
           \E m \in {updateMachine(evs, run)} :
               /\ state' = m.state /\ enabled' = m.enabled /\ active' = m.active
               /\ updateAol(cs, evs, m, run)
        /\ CS_prev' = cs
        /\ UNCHANGED <<cp, cached>>

(* params_thread: each cached parameter is refreshed on its own with what  *)
(* the settings hold at that moment.                                       *)
ParamsThread ==
    /\ \/ unified' \in BOOLEAN /\ UNCHANGED <<mainToggle, disengage_on_accelerator>>
       \/ mainToggle' \in BOOLEAN /\ UNCHANGED <<unified, disengage_on_accelerator>>
       \/ disengage_on_accelerator' \in BOOLEAN /\ UNCHANGED <<unified, mainToggle>>
    /\ UNCHANGED <<cp, frame, initialized, machine, mismatch_counter, aol, CS_prev>>

Next == Step \/ ParamsThread

Spec == Init /\ [][Next]_vars

FairSpec == Spec /\ WF_vars(Step)

-----------------------------------------------------------------------------
TypeOK ==
    /\ cp \in Cars
    /\ frame \in {0, 1}
    /\ initialized \in BOOLEAN
    /\ state \in States
    /\ soft_disable_timer \in 0 .. SOFT_DISABLE_TIME
    /\ current_alert_types \subseteq ET
    /\ enabled = (state \in ENABLED_STATES)
    /\ active = (state \in ACTIVE_STATES)
    /\ mismatch_counter \in 0 .. MISMATCH_LIMIT
    /\ aolState \in AolStates
    /\ aolEnabled = (aolState \in LATERAL_CONTROLLED_STATES)
    /\ aolActive = (aolState \in TORQUE_DELIVERING_STATES)
    /\ enabled_prev \in BOOLEAN
    /\ CS_prev \in CarStates \cup {NoCarState}
    /\ unified \in BOOLEAN /\ mainToggle \in BOOLEAN
    /\ disengage_on_accelerator \in BOOLEAN
-----------------------------------------------------------------------------
(* A frame handled with both machines running; its carState is CS_prev'.   *)
IsFrame == frame' # frame /\ initialized' /\ ~cp.passive

(* In this frame a pedal other than the accelerator counts as pressed.     *)
BrakesIn(cs) ==
    /\ cs.canValid /\ pedalPressed(cs)
    /\ ~(cs.gasPressed /\ ~CS_prev.gasPressed /\ cp.disengageOnAccel)

(* With the brake set to pause or to cancel AOL, a frame that brakes never *)
(* ends with an AOL that was on still steering, whether or not cruise was  *)
(* engaged in the frame before (it is the engagement machine's disable, in *)
(* the same frame, that lets AOL see the pedal).  The one exception is the *)
(* main switch coming on in that frame while AOL is paused.                *)
BrakeStopsSteering ==
    [][ IsFrame /\ aolEnabled /\ steeringModeOnBrake(cp) # "CONTINUE"
          /\ BrakesIn(CS_prev')
          /\ (aolActive \/ CS_prev.lateralAvailable \/ ~mainToggle)
          => ~aolActive' ]_vars

(* A driver who switches the main cruise off never ends the frame with AOL *)
(* steering, on cars that have a main switch.                              *)
MainOffStopsSteering ==
    [][ IsFrame /\ CS_prev.lateralAvailable /\ ~CS_prev'.lateralAvailable
          /\ ~noMainCruise(cp) => ~aolActive' ]_vars

(* AOL that is off comes on, paused or steering, only in a frame in which  *)
(* the driver asks for it: the LKAS button, the main switch where that is  *)
(* allowed, or a cruise engagement in unified mode.                        *)
AolStartsOnlyOnRequest ==
    [][ aolState = "disabled" /\ aolState' # "disabled" =>
          \/ "lkas" \in CS_prev'.buttons
          \/ mainToggle /\ CS_prev'.lateralAvailable /\ ~CS_prev.lateralAvailable
          \/ unified /\ CS_prev'.buttonEnable
          \/ unified /\ CS_prev'.cruiseEnabled /\ ~CS_prev.cruiseEnabled ]_vars

(* In unified mode every engagement of cruise turns AOL on in the same     *)
(* frame when lateral control is available and AOL is off.                 *)
UnifiedEngagement ==
    [][ IsFrame /\ cp.aolEnabled /\ unified /\ ~enabled /\ enabled'
          /\ aolState = "disabled"
          /\ (CS_prev'.lateralAvailable \/ noMainCruise(cp)) => aolEnabled' ]_vars

(* While the engagement machine soft disables, nothing (in particular not  *)
(* AOL, which shares the timer) gives it more time: each frame either      *)
(* leaves softDisabling or brings the cut one frame closer.                *)
SoftDisableRunsOut ==
    [][ IsFrame /\ state = "softDisabling" /\ state' = "softDisabling"
          => soft_disable_timer' = soft_disable_timer - 1 ]_vars

(* The same for AOL, whose time is the engagement machine's: it is only    *)
(* extended when that machine starts to soft disable later than AOL did,   *)
(* having been preEnabled.                                                 *)
AolSoftDisableRunsOut ==
    [][ IsFrame /\ aolState = "softDisabling" /\ aolState' = "softDisabling"
          => \/ soft_disable_timer' < soft_disable_timer
             \/ state # "softDisabling" /\ state' = "softDisabling" ]_vars

(* selfdrived is never left engaged once a panda has refused the controls  *)
(* in MISMATCH_LIMIT frames of the same engagement.                        *)
MismatchDisengages == enabled => mismatch_counter < MISMATCH_LIMIT

(* A machine in softDisabling always has time left: the cut comes with the *)
(* frame that takes the timer to zero, never a frame later.                *)
SoftDisableHasTime == state = "softDisabling" => soft_disable_timer > 0

(* A frame without a CAN bus leaves nothing in control, unless the event   *)
(* is muted.                                                               *)
CanLossStopsControl ==
    [][ IsFrame /\ CS_prev'.canTimeout
          /\ ~(CS_prev'.gearShifter = "park" /\ aolEnabled)
          => ~active' /\ ~aolActive' ]_vars

(* Soft disabling ends, in either machine, however the parameters change   *)
(* and the frames fall (frames keep coming: WF of Step).                   *)
SoftDisableEnds ==
    /\ state = "softDisabling" ~> state # "softDisabling"
    /\ aolState = "softDisabling" ~> aolState # "softDisabling"

(* A pause is not forever: once the car is in drive with doors, belt,      *)
(* parking brake and brake in order and nothing blocks entry, AOL leaves   *)
(* the paused state on its own.                                            *)
Drivable(cs) ==
    /\ cs.canValid /\ ~cs.canTimeout /\ cs.gearShifter = "drive"
    /\ ~cs.doorOpen /\ ~cs.seatbeltUnlatched /\ ~cs.parkingBrake
    /\ ~cs.brakeHoldActive /\ ~cs.brakePressed /\ ~cs.gasPressed

PauseEnds == <>[]Drivable(CS_prev) => <>[](aolState # "paused")
=============================================================================
