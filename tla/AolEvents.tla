------------------------------ MODULE AolEvents ------------------------------
(***************************************************************************)
(* How AlwaysOnLateral rewrites the frame's events before its own state    *)
(* machine sees them.  The engagement state machine has already run on the *)
(* unrewritten events of the same frame.                                   *)
(*                                                                         *)
(* The rewriting is a sequence of stages, each from a pair of event sets   *)
(* x = [evs, iq] to such a pair; f is the frame:                           *)
(*   cs, prev         this and the previous car state                      *)
(*   ssEnabled        selfdrive.enabled, as this frame's update left it    *)
(*   ssEnabledPrev    selfdrive.enabled_prev                               *)
(*   st, enabled      the AOL machine's state and enabled flag             *)
(*   cp               the car: brand, steeringMode, ...                    *)
(*   unified, mainToggle   the parameters read_params caches               *)
(*   disengageOnAccel      the parameter as read when selfdrived started   *)
(* JoystickDebugMode is off: no request is consumed.                       *)
(***************************************************************************)
EXTENDS AolEngine

BrakeInterventionMode == {"CONTINUE", "SUSPEND", "CANCEL"}

noMainCruise(cp) == cp.brand \in {"rivian", "tesla"}

(* resolve_brake_intervention_mode *)
steeringModeOnBrake(cp) == IF cp.brand = "rivian" THEN "CANCEL" ELSE cp.steeringMode

SET_SPEED_BUTTONS == {"accelCruise", "resumeCruise", "decelCruise", "setCruise"}

-----------------------------------------------------------------------------
addIQ(x, names)       == [x EXCEPT !.iq = @ \cup names]
removeStock(x, names) == [x EXCEPT !.evs = @ \ names]

(* mutant: the accelerator held, not its rising edge, excuses the pedal *)
pedalPressedNoGas(f, x) == "pedalPressed" \in x.evs /\ ~f.cs.gasPressed

pedalPressedNonGasPressed(f, x) ==
    /\ "pedalPressed" \in x.evs
    /\ ~(f.cs.gasPressed /\ ~f.prev.gasPressed /\ f.disengageOnAccel)

shouldSilentLkasEnable(f, x) ==
    /\ ~(steeringModeOnBrake(f.cp) = "SUSPEND" /\ pedalPressedNonGasPressed(f, x))
    /\ x.iq \cap PAUSE_WITH_IQ_EVENTS = {}

(* mutant: blocks in the very frame that engages *)
blockUnifiedEngagementModeEarly(f) == ~f.unified \/ f.enabled \/ f.ssEnabled

blockUnifiedEngagementMode(f) ==
    \/ ~f.unified
    \/ f.enabled
    \/ f.ssEnabled /\ f.ssEnabledPrev

hasRuntimeLkasToggle(f) == f.cs.lateralAvailable \/ f.cp.brand = "tesla"

enableRequested(x) == x.evs \cap {"pcmEnable", "buttonEnable"} # {}

-----------------------------------------------------------------------------
(* AOL steering alone: conditions that would disable it only pause it.     *)
(* Which stock event becomes which silent one, in this frame:              *)
silencedAs(f) ==
    [doorOpen           |-> When(f.cs.standstill, "silentDoorOpen"),
     seatbeltNotLatched |-> When(f.cs.standstill, "silentSeatbeltNotLatched"),
     wrongGear          |-> When(f.cs.slow \/ f.cs.gearShifter = "reverse",
                                 "silentWrongGear"),
     reverseGear        |-> {"silentReverseGear"},
     brakeHold          |-> {"silentBrakeHold"},
     parkBrake          |-> {"silentParkBrake"}]

(* transition_paused_state asks for a pause unless AOL is already paused.  *)
soloStage(f, x) ==
    LET silent == silencedAs(f)
        hit    == {e \in x.evs \cap DOMAIN silent : silent[e] # {}}
        braked == steeringModeOnBrake(f.cp) = "SUSPEND" /\ pedalPressedNonGasPressed(f, x)
        pause  == When((hit # {} \/ braked) /\ f.st # "paused", "silentLkasDisable")
        muted  == {"preEnableStandstill", "belowEngageSpeed", "speedTooLow",
                   "cruiseDisabled", "manualRestart"}
    IN IF f.enabled /\ ~f.ssEnabled
       THEN addIQ(removeStock(x, hit \cup muted),
                  pause \cup UNION {silent[e] : e \in hit})
       ELSE x

(* get_wrong_car_mode *)
wrongCarModeStage(f, x) ==
    LET alertOnly == enableRequested(x) \/ f.cs.buttons \cap SET_SPEED_BUTTONS # {}
    IN addIQ(removeStock(x, {"wrongCarMode"}),
             When(alertOnly /\ "wrongCarMode" \in x.evs, "wrongCarModeAlertOnly"))

(* Unified engagement: the cruise enable events start AOL too; otherwise   *)
(* the rising edge of the main switch may.                                 *)
engageStage(f, x) ==
    IF enableRequested(x)
    THEN addIQ(removeStock(x, IF blockUnifiedEngagementMode(f)
                              THEN {"pcmEnable", "buttonEnable"} ELSE {}),
               When(pedalPressedNonGasPressed(f, x), "pedalPressedAlertOnly"))
    ELSE addIQ(x, When(f.mainToggle /\ f.cs.lateralAvailable
                         /\ ~f.prev.lateralAvailable, "lkasEnable"))

buttonStage(f, x) ==
    LET lkas == "lkas" \in f.cs.buttons /\ hasRuntimeLkasToggle(f) IN
    addIQ(x, When("cancel" \in f.cs.buttons /\ ~f.ssEnabled /\ f.ssEnabledPrev,
                  "manualLongitudinalRequired")
             \cup When(lkas /\ ~f.enabled, "lkasEnable")
             \cup When(lkas /\ f.enabled /\ f.ssEnabled, "manualSteeringRequired")
             \cup When(lkas /\ f.enabled /\ ~f.ssEnabled, "lkasDisable"))

(* mutant: the wrong edge of the main switch *)
availabilityStageRising(f, x) ==
    IF f.cs.lateralAvailable \/ noMainCruise(f.cp) THEN x
    ELSE addIQ(removeStock(x, {"buttonEnable"}),
               When(~f.prev.lateralAvailable, "lkasDisable"))

(* Lateral unavailable: no button enable, and a disable on the falling edge. *)
availabilityStage(f, x) ==
    IF f.cs.lateralAvailable \/ noMainCruise(f.cp) THEN x
    ELSE addIQ(removeStock(x, {"buttonEnable"}),
               When(f.prev.lateralAvailable, "lkasDisable"))

(* CANCEL mode.  The refusal of lkasEnable while braking never happens: it *)
(* is guarded by contains(lkasEnable), which tests for an event type of    *)
(* that name and is always false.                                          *)
cancelStage(f, x) ==
    addIQ(x, When(/\ steeringModeOnBrake(f.cp) = "CANCEL"
                  /\ pedalPressedNonGasPressed(f, x)
                  /\ f.enabled, "lkasDisable"))

(* mutants: an AOL that is off is resumed too; only an AOL that steers      *)
(* alone is resumed                                                         *)
resumeStageAnyState(f, x) ==
    addIQ(x, When(shouldSilentLkasEnable(f, x), "silentLkasEnable"))
resumeStageSolo(f, x) ==
    addIQ(x, When(shouldSilentLkasEnable(f, x) /\ f.st = "paused" /\ ~f.ssEnabled,
                  "silentLkasEnable"))

resumeStage(f, x) ==
    addIQ(x, When(shouldSilentLkasEnable(f, x) /\ f.st = "paused", "silentLkasEnable"))

(* The disable events of cruise control that AOL does not follow.          *)
ignoreStage(x) ==
    removeStock(x, {"pcmDisable", "buttonCancel", "pedalPressed", "wrongCruiseMode"})

aolUpdateEvents(f, x) ==
    LET x1 == wrongCarModeStage(f, soloStage(f, x))
        x2 == buttonStage(f, engageStage(f, x1))
        x3 == cancelStage(f, availabilityStage(f, x2))
    IN ignoreStage(resumeStage(f, x3))
=============================================================================
