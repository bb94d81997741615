------------------------- MODULE PandaSafetyProofs -------------------------
(***************************************************************************)
(* The permissions of the panda, for every set of car modes, AOL           *)
(* configurations, bus messages and host reports.  The counters stay in    *)
(* their bounds and the seven safety invariants are, together, inductive:  *)
(* each but PauseHoldsWhileBraking is nearly so on its own; that one needs *)
(* what AOL saw of the brake to agree with what the safety mode sees of it *)
(* whenever AOL is allowed, which AolSawBrake adds.                        *)
(*                                                                         *)
(* The second part is about what AOL may steer on, in a panda that knows   *)
(* no car mode with an AOL button: no set of Volkswagen modes,             *)
(* configurations and messages lets it steer with the main switch off, and *)
(* repeating the call for one message changes nothing.  Both rest on the   *)
(* same two facts.  What AOL saw last is at least what the safety mode     *)
(* knows (AolSaw), so that a message never brings a request and a brake    *)
(* together; hence no request outlives the call it was made in unless AOL  *)
(* is allowed already (SteersOnMain).                                      *)
(***************************************************************************)
EXTENDS PandaSafety, TLAPS

(* While AOL may steer in pause mode, the brake it saw last was released.  *)
AolSawBrake == aol.pause_on_brake /\ aol.allowed => ~aol.braking

PInv == /\ TypeOK
        /\ CarModeHasHost
        /\ UnusedControlsExit
        /\ BrakeStopsControls
        /\ ControlsNeedMain
        /\ ControlsNeedCruise
        /\ PauseHoldsWhileBraking
        /\ AolSawBrake

-----------------------------------------------------------------------------
(* An exit keeps the type, the configuration and what was seen, and leaves *)
(* a permission only where it does not apply.                              *)
LEMMA ExitFacts ==
    ASSUME NEW a \in AolState, NEW c \in BOOLEAN, NEW r \in DisengageReason
    PROVE  /\ exitIf(c, a, r) \in AolState
           /\ exitIf(c, a, r).braking = a.braking
           /\ exitIf(c, a, r).pause_on_brake = a.pause_on_brake
           /\ exitIf(c, a, r).allowed => a.allowed /\ ~c
BY DEF exitIf, aol_exit_controls, AolState

(* A sample keeps the type, the configuration and the permission, and      *)
(* remembers the brake.                                                    *)
LEMMA SampledFacts ==
    ASSUME NEW a \in AolState, NEW in \in AolInput
    PROVE  /\ sampled(a, in) \in AolState
           /\ sampled(a, in).braking = in.braking
           /\ sampled(a, in).pause_on_brake = a.pause_on_brake
           /\ sampled(a, in).allowed = a.allowed
<1> DEFINE button == IF in.button = "UNAVAILABLE" THEN a.button ELSE in.button
           asked  == a.requested \/ requests(a, in)
           a0     == [a EXCEPT !.acc_main = in.acc_main, !.op_allowed = in.op_allowed,
                               !.braking = in.braking, !.steering = in.steering,
                               !.button = button, !.requested = asked]
<1>1. sampled(a, in) = a0
  BY DEF sampled
<1>2. asked \in BOOLEAN
  BY DEF requests, AolState, AolInput, buttonRises
<1>3. button \in ButtonState
  BY DEF AolState, AolInput
<1> HIDE DEF asked, button
<1>4. /\ a0 \in AolState /\ a0.braking = in.braking
      /\ a0.pause_on_brake = a.pause_on_brake /\ a0.allowed = a.allowed
  BY <1>2, <1>3 DEF AolState, AolInput
<1> HIDE DEF a0
<1> QED BY <1>1, <1>4

(* After the exits of a call, a permission is left only where no blocker   *)
(* applied and, in pause mode, the brake did not rise.                     *)
LEMMA ExitedFacts ==
    ASSUME NEW a \in AolState, NEW in \in AolInput
    PROVE  /\ exited(a, in) \in AolState
           /\ exited(a, in).braking = in.braking
           /\ exited(a, in).pause_on_brake = a.pause_on_brake
           /\ exited(a, in).allowed => a.allowed /\ ~(a.pause_on_brake /\ brakeRises(a, in))
<1> DEFINE a0 == sampled(a, in)
           c1 == mainFalls(a, in)
           a1 == exitIf(c1, a0, "ACC_MAIN_OFF")
           c2 == steerRises(a, in)
           a2 == exitIf(c2, a1, "STEERING_DISENGAGE")
           c3 == brakeRises(a, in)
                   /\ (a.disengage_on_brake \/ (a.pause_on_brake /\ ~blocked(a, in)))
           a3 == exitIf(c3, a2, "BRAKE")
<1>1. /\ c1 \in BOOLEAN /\ c2 \in BOOLEAN /\ c3 \in BOOLEAN
  BY DEF mainFalls, steerRises, brakeRises, blocked, AolState, AolInput
<1>2. exited(a, in) = a3
  BY DEF exited
<1>3. c1 \/ c2 \/ c3 \/ ~(a.pause_on_brake /\ brakeRises(a, in))
  BY DEF blocked
<1>4. /\ a0 \in AolState /\ a0.braking = in.braking
      /\ a0.pause_on_brake = a.pause_on_brake /\ a0.allowed = a.allowed
  BY SampledFacts
<1> HIDE DEF a0, c1, c2, c3
<1>5. /\ a1 \in AolState /\ a1.braking = in.braking
      /\ a1.pause_on_brake = a.pause_on_brake /\ (a1.allowed => a.allowed /\ ~c1)
  <2> "ACC_MAIN_OFF" \in DisengageReason
    BY DEF DisengageReason
  <2> QED BY <1>1, <1>4, ExitFacts
<1> HIDE DEF a1
<1>6. /\ a2 \in AolState /\ a2.braking = in.braking
      /\ a2.pause_on_brake = a.pause_on_brake /\ (a2.allowed => a.allowed /\ ~c1 /\ ~c2)
  BY <1>1, <1>5, ExitFacts DEF DisengageReason
<1> HIDE DEF a2
<1>7. /\ a3 \in AolState /\ a3.braking = in.braking
      /\ a3.pause_on_brake = a.pause_on_brake
      /\ (a3.allowed => a.allowed /\ ~c1 /\ ~c2 /\ ~c3)
  BY <1>1, <1>6, ExitFacts DEF DisengageReason
<1> QED BY <1>2, <1>3, <1>7

(* A call of aol_state_update keeps pause mode from steering a braking car. *)
PauseOK(a) == a.pause_on_brake /\ a.allowed => ~a.braking

(* What one update of AOL keeps.                                           *)
LEMMA UpdateFacts ==
    ASSUME NEW a \in AolState, NEW in \in AolInput, PauseOK(a)
    PROVE  /\ aol_state_update(a, in) \in AolState
           /\ aol_state_update(a, in).braking = in.braking
           /\ PauseOK(aol_state_update(a, in))
<1> DEFINE a1 == exited(a, in)
           asked == asks(a, in)
           given == [a1 EXCEPT !.requested = FALSE, !.allowed = TRUE,
                               !.active_reason = "NONE", !.pending_reasons = {}]
           kept  == [a1 EXCEPT !.requested = asked]
<1>1. /\ a1 \in AolState /\ a1.braking = in.braking
      /\ a1.pause_on_brake = a.pause_on_brake
      /\ (a1.allowed => a.allowed /\ ~(a.pause_on_brake /\ brakeRises(a, in)))
  BY ExitedFacts
<1>2. aol_state_update(a, in) = IF grants(a, in) THEN given ELSE kept
  BY DEF aol_state_update
<1>3. asked \in BOOLEAN
  BY <1>1 DEF asks, resumes, AolState
<1>4. a.pause_on_brake /\ a1.allowed => ~in.braking
  BY <1>1 DEF PauseOK, brakeRises
<1>5. grants(a, in) => ~(a.pause_on_brake /\ in.braking)
  BY DEF grants
<1> HIDE DEF a1, asked
<1>6. /\ given \in AolState /\ given.braking = in.braking
      /\ given.pause_on_brake = a.pause_on_brake
  BY <1>1 DEF AolState
<1>7. /\ kept \in AolState /\ kept.braking = in.braking
      /\ kept.pause_on_brake = a.pause_on_brake /\ kept.allowed = a1.allowed
  BY <1>1, <1>3 DEF AolState
<1> HIDE DEF given, kept
<1> QED BY <1>2, <1>4, <1>5, <1>6, <1>7 DEF PauseOK

(* So does any of the repetitions of the call.                             *)
LEMMA UpdatesFacts ==
    ASSUME NEW a \in AolState, NEW in \in AolInput, PauseOK(a), NEW n \in {2, 3, 6}
    PROVE  /\ aol_state_updates(a, in, n) \in AolState
           /\ aol_state_updates(a, in, n).braking = in.braking
           /\ PauseOK(aol_state_updates(a, in, n))
<1> DEFINE b1 == aol_state_update(a, in)
           b2 == aol_state_update(b1, in)
           b3 == aol_state_update(b2, in)
           b4 == aol_state_update(b3, in)
           b5 == aol_state_update(b4, in)
           b6 == aol_state_update(b5, in)
<1>0. aol_state_updates(a, in, n) = IF n = 2 THEN b2 ELSE IF n = 3 THEN b3 ELSE b6
  BY DEF aol_state_updates
<1> DEFINE Good(b) == b \in AolState /\ b.braking = in.braking /\ PauseOK(b)
<1>1. Good(b1) BY UpdateFacts
<1> HIDE DEF b1
<1>2. Good(b2) BY <1>1, UpdateFacts
<1> HIDE DEF b2
<1>3. Good(b3) BY <1>2, UpdateFacts
<1> HIDE DEF b3
<1>4. Good(b4) BY <1>3, UpdateFacts
<1> HIDE DEF b4
<1>5. Good(b5) BY <1>4, UpdateFacts
<1> HIDE DEF b5
<1>6. Good(b6) BY <1>5, UpdateFacts
<1> HIDE DEF b6
<1> QED BY <1>0, <1>2, <1>3, <1>6
-----------------------------------------------------------------------------
(* The invariants on the signals that the hook of a safety mode keeps.     *)
EngageOK(md, s, allowed) ==
    /\ allowed /\ md # "TESLA" => s.acc_main_on
    /\ allowed /\ md = "TESLA" => s.cruise_engaged_prev /\ ~s.autopark

(* The Volkswagen hook allows controls only with the main switch on.       *)
LEMMA VwFacts ==
    ASSUME NEW s \in Signals, NEW long \in BOOLEAN, NEW allowed \in BOOLEAN,
           NEW md, md # "TESLA", NEW m \in Messages(md),
           allowed => s.acc_main_on
    PROVE  /\ vwSignals(long, s, m) \in Signals
           /\ vwControls(long, s, allowed, m) \in BOOLEAN
           /\ vwControls(long, s, allowed, m) => vwSignals(long, s, m).acc_main_on
<1>1. m \in VwMessages \cup [id : {"OTHER", "STOCK_ECU"}]
  BY DEF Messages
<1>2. CASE m.id = "TSK_06"
  <2> DEFINE on == m.status # "off"
             prev == IF long THEN s.cruise_engaged_prev ELSE m.status = "engaged"
             s1 == [s EXCEPT !.acc_main_on = on, !.cruise_engaged_prev = prev]
             s2 == [s1 EXCEPT !.brake_pressed =
                                  s1.brake_pedal_switch \/ s1.brake_pressure_detected]
  <2>1. on \in BOOLEAN /\ prev \in BOOLEAN
    BY DEF Signals
  <2>2. vwSignals(long, s, m) = s2
    BY <1>2 DEF vwSignals
  <2>3. vwControls(long, s, allowed, m) \in BOOLEAN
    BY <1>2 DEF vwControls
  <2>4. vwControls(long, s, allowed, m) => on
    BY <1>2 DEF vwControls
  <2> HIDE DEF on, prev
  <2>5. s1 \in Signals /\ s1.acc_main_on = on
    BY <2>1 DEF Signals
  <2> HIDE DEF s1
  <2>6. s2 \in Signals /\ s2.acc_main_on = on
    BY <2>5 DEF Signals
  <2> HIDE DEF s2
  <2> QED BY <2>2, <2>3, <2>4, <2>6
<1>3. CASE m.id = "GRA_ACC_01"
  <2>1. m.set \in BOOLEAN /\ m.resume \in BOOLEAN /\ m.cancel \in BOOLEAN
    BY <1>1, <1>3 DEF VwMessages, Flag
  <2> QED BY <1>3, <2>1 DEF vwSignals, vwControls, setReleased, Signals
<1>4. CASE m.id \in {"MOTOR_14", "ESP_05", "ESP_19"}
  <2>1. m.on \in BOOLEAN
    BY <1>1, <1>4 DEF VwMessages, Flag
  <2> QED BY <1>4, <2>1 DEF vwSignals, vwControls, Signals
<1>5. CASE m.id \notin {"TSK_06", "GRA_ACC_01", "MOTOR_14", "ESP_05", "ESP_19"}
  BY <1>5 DEF vwSignals, vwControls, Signals
<1> QED BY <1>2, <1>3, <1>4, <1>5

(* The Tesla hook allows controls only with cruise on, outside Autopark.   *)
LEMMA TeslaFacts ==
    ASSUME NEW s \in Signals, NEW allowed \in BOOLEAN, NEW m \in Messages("TESLA"),
           allowed => s.cruise_engaged_prev /\ ~s.autopark
    PROVE  /\ teslaSignals(s, m) \in Signals
           /\ teslaControls(s, allowed, m) \in BOOLEAN
           /\ teslaControls(s, allowed, m)
                => teslaSignals(s, m).cruise_engaged_prev /\ ~teslaSignals(s, m).autopark
<1>1. m \in TeslaMessages \cup [id : {"OTHER", "STOCK_ECU"}]
  BY DEF Messages
<1>2. CASE m.id = "DI_state"
  <2>1. m.cruise \in BOOLEAN /\ m.autopark \in BOOLEAN
    BY <1>1, <1>2 DEF TeslaMessages, Flag
  <2>2. teslaAutopark(s, m) \in BOOLEAN
    BY <2>1 DEF teslaAutopark, Signals
  <2>3. teslaCruise(s, m) \in BOOLEAN /\ (teslaCruise(s, m) => ~teslaAutopark(s, m))
    BY <2>1, <2>2 DEF teslaCruise
  <2> QED BY <1>2, <2>1, <2>2, <2>3 DEF teslaSignals, teslaControls, pcm_cruise_check, Signals
<1>3. CASE m.id = "ESP_B"
  <2>1. m.moving \in BOOLEAN /\ m.mismatch \in BOOLEAN
    BY <1>1, <1>3 DEF TeslaMessages, Flag
  <2> QED BY <1>3, <2>1 DEF teslaSignals, teslaControls, Signals
<1>4. CASE m.id \in {"EPAS3S_sysStatus", "IBST_status"}
  <2>1. m.on \in BOOLEAN
    BY <1>1, <1>4 DEF TeslaMessages, Flag
  <2> QED BY <1>4, <2>1 DEF teslaSignals, teslaControls, Signals
<1>5. CASE m.id \notin {"DI_state", "ESP_B", "EPAS3S_sysStatus", "IBST_status"}
  BY <1>5 DEF teslaSignals, teslaControls
<1> QED BY <1>2, <1>3, <1>4, <1>5

(* Either hook keeps its invariant.                                        *)
LEMMA HookFacts ==
    ASSUME NEW s \in Signals, NEW allowed \in BOOLEAN, NEW md, NEW m \in Messages(md),
           NEW button \in ButtonState, EngageOK(md, s, allowed)
    PROVE  /\ rxSignals(md, s, m) \in Signals
           /\ rxControls(md, s, allowed, m) \in BOOLEAN
           /\ rxButton(md, button, m) \in ButtonState
           /\ EngageOK(md, rxSignals(md, s, m), rxControls(md, s, allowed, m))
<1>0. rxButton(md, button, m) \in ButtonState
  BY DEF rxButton, ButtonState
<1>1. CASE md = "TESLA"
  BY <1>0, <1>1, TeslaFacts DEF rxSignals, rxControls, EngageOK
<1>2. CASE md # "TESLA"
  BY <1>0, <1>2, VwFacts DEF rxSignals, rxControls, EngageOK
<1> QED BY <1>1, <1>2

-----------------------------------------------------------------------------
(* The rest of safety_rx_hook keeps the invariant, whatever the hook of    *)
(* the safety mode has done within EngageOK.                               *)
LEMMA AfterRxStep ==
    ASSUME PInv, is_car_safety_mode(mode),
           NEW s \in Signals, NEW allowed \in BOOLEAN, NEW button \in ButtonState,
           NEW stock \in BOOLEAN, EngageOK(mode, s, allowed),
           afterRx(s, allowed, button, stock)
    PROVE  PInv'
<1> DEFINE left == generic_rx_checks(allowed, sig, s)
           in == aolInput(s, left, button)
<1>1. /\ left \in BOOLEAN /\ (left => allowed)
      /\ ~(left /\ s.brake_pressed /\ s.vehicle_moving)
  BY DEF generic_rx_checks, Signals, PInv, TypeOK
<1>2. /\ sig' = s /\ controls_allowed' = left /\ aol_button_press' = button
      /\ aol' = aol_state_updates(aol, in, relayChecks[mode])
      /\ relay_malfunction' = (relay_malfunction
                                 \/ (stock /\ safety_mode_cnt > RELAY_TRNS_TIMEOUT))
      /\ heartbeat_engaged_mismatches' =
             mismatchesOnRx(controls_allowed, left, heartbeat_engaged_mismatches)
      /\ UNCHANGED <<mode, safety_mode_cnt, heartbeatVars, heartbeat_engaged_aol_mismatches>>
  BY DEF afterRx
<1> HIDE DEF left
<1>3. in \in AolInput /\ in.braking = s.brake_pressed
  BY <1>1 DEF aolInput, AolInput, Signals
<1>4. relayChecks[mode] \in {2, 3, 6}
  BY CarModesAssumption DEF is_car_safety_mode, KnownCarModes, relayChecks
<1>5. aol' \in AolState /\ aol'.braking = s.brake_pressed /\ PauseOK(aol')
  <2> HIDE DEF in
  <2>1. aol \in AolState /\ PauseOK(aol)
    BY DEF PInv, TypeOK, AolSawBrake, PauseOK
  <2> QED BY <1>2, <1>3, <1>4, <2>1, UpdatesFacts
<1>6. /\ heartbeat_engaged_mismatches' \in 0 .. MAX_MISMATCHES
      /\ left => heartbeat_engaged_mismatches' < MAX_MISMATCHES
  BY <1>1, <1>2 DEF mismatchesOnRx, PInv, TypeOK, UnusedControlsExit, MAX_MISMATCHES
<1>7. relay_malfunction' \in BOOLEAN
  BY <1>2
<1>8. TypeOK'
  BY <1>1, <1>2, <1>5, <1>6, <1>7 DEF PInv, TypeOK, heartbeatVars
<1>9. EngageOK(mode, s, left)
  BY <1>1 DEF EngageOK
<1>10. (CarModeHasHost /\ UnusedControlsExit /\ BrakeStopsControls)'
  BY <1>1, <1>2, <1>6
     DEF PInv, CarModeHasHost, UnusedControlsExit, BrakeStopsControls, heartbeatVars
<1>11. (ControlsNeedMain /\ ControlsNeedCruise)'
  BY <1>2, <1>9 DEF ControlsNeedMain, ControlsNeedCruise, EngageOK
<1>12. (PauseHoldsWhileBraking /\ AolSawBrake)'
  BY <1>2, <1>5 DEF PauseHoldsWhileBraking, AolSawBrake, PauseOK
<1> QED BY <1>8, <1>10, <1>11, <1>12 DEF PInv

(* A received message, valid or not, keeps the invariant.                  *)
LEMMA ReceiveKeeps == ASSUME PInv, ReceiveStep PROVE PInv'
<1>0. EngageOK(mode, sig, controls_allowed)
  BY DEF EngageOK, PInv, ControlsNeedMain, ControlsNeedCruise
<1>1. CASE \E m \in Messages(mode) : Rx(m)
  <2>1. PICK m \in Messages(mode) : Rx(m)
    BY <1>1
  <2>2. /\ sig \in Signals /\ controls_allowed \in BOOLEAN
        /\ aol_button_press \in ButtonState
    BY DEF PInv, TypeOK
  <2>3. (m.id = "STOCK_ECU") \in BOOLEAN
    OBVIOUS
  <2> DEFINE s == rxSignals(mode, sig, m)
             c == rxControls(mode, sig, controls_allowed, m)
             b == rxButton(mode, aol_button_press, m)
  <2>4. s \in Signals /\ c \in BOOLEAN /\ b \in ButtonState /\ EngageOK(mode, s, c)
    BY <1>0, <2>2, HookFacts
  <2>5. is_car_safety_mode(mode) /\ afterRx(s, c, b, m.id = "STOCK_ECU")
    BY <2>1 DEF Rx
  <2> HIDE DEF s, c, b
  <2> QED BY <2>3, <2>4, <2>5, AfterRxStep
<1>2. CASE RxInvalid
  <2>1. EngageOK(mode, sig, FALSE)
    BY DEF EngageOK
  <2>2. /\ sig \in Signals /\ aol_button_press \in ButtonState
        /\ FALSE \in BOOLEAN
    BY DEF PInv, TypeOK
  <2>3. is_car_safety_mode(mode) /\ afterRx(sig, FALSE, aol_button_press, FALSE)
    BY <1>2 DEF RxInvalid
  <2> QED BY <2>1, <2>2, <2>3, AfterRxStep
<1> QED BY <1>1, <1>2 DEF ReceiveStep
-----------------------------------------------------------------------------
(* The signals of a mode that has just been set.                           *)
LEMMA NoSignalsFacts == NoSignals \in Signals /\ ~NoSignals.brake_pressed
BY DEF NoSignals, Signals

(* Setting a safety mode, as the host or a harness change does, keeps the  *)
(* invariant: all permissions but AOL's start again, and AOL's stays       *)
(* within what it last saw.                                                *)
LEMMA SetModeKeeps ==
    ASSUME PInv, NEW m \in SafetyMode, set_safety_mode(m) PROVE PInv'
<1>1. /\ mode' = m /\ controls_allowed' = FALSE /\ sig' = NoSignals
      /\ relay_malfunction' = FALSE /\ safety_mode_cnt' = 0
      /\ heartbeat_counter' = IF heardFrom(m) THEN 0 ELSE heartbeat_counter
      /\ heartbeat_lost' = (heartbeat_lost /\ ~heardFrom(m))
      /\ UNCHANGED <<aol_button_press, aol, heartbeat_engaged_mismatches,
                     heartbeat_engaged_aol_mismatches, heartbeat_disabled,
                     heartbeat_engaged, heartbeat_engaged_aol>>
  BY DEF set_safety_mode, set_safety_hooks, aolVars, mismatchVars
<1>2. /\ safety_mode_cnt' \in 0 .. SAFETY_MODE_CAP
      /\ heartbeat_counter' \in 0 .. HEARTBEAT_CAP
      /\ heartbeat_lost' \in BOOLEAN
  BY <1>1 DEF PInv, TypeOK, SAFETY_MODE_CAP, RELAY_TRNS_TIMEOUT, HEARTBEAT_CAP,
              HEARTBEAT_IGNITION_CNT_ON
<1>3. TypeOK'
  BY <1>1, <1>2, NoSignalsFacts DEF PInv, TypeOK
<1>4. CarModeHasHost'
  BY <1>1 DEF CarModeHasHost, heardFrom, HEARTBEAT_IGNITION_CNT_ON, is_car_safety_mode
<1>5. (UnusedControlsExit /\ BrakeStopsControls /\ ControlsNeedMain /\ ControlsNeedCruise)'
  BY <1>1 DEF UnusedControlsExit, BrakeStopsControls, ControlsNeedMain, ControlsNeedCruise
<1>6. (PauseHoldsWhileBraking /\ AolSawBrake)'
  BY <1>1, NoSignalsFacts DEF PInv, PauseHoldsWhileBraking, AolSawBrake
<1> QED BY <1>3, <1>4, <1>5, <1>6 DEF PInv

(* Every request of the host keeps the invariant.                          *)
LEMMA HostKeeps == ASSUME PInv, HostStep PROVE PInv'
<1>1. CASE \E m \in SafetyMode : SetSafetyMode(m)
  BY <1>1, SetModeKeeps DEF SetSafetyMode
<1>2. CASE \E cfg \in AolConfigs : SetAlternativeExperience(cfg)
  <2>1. PICK cfg \in AolConfigs : SetAlternativeExperience(cfg)
    BY <1>2
  <2>2. cfg \in AolConfig
    BY AolConfigsAssumption
  <2>3. aol' \in AolState /\ ~aol'.allowed
    BY <2>1, <2>2 DEF SetAlternativeExperience, aol_set_system_state, AolState, AolConfig,
                      ButtonState, PInv, TypeOK
  <2>4. UNCHANGED <<mode, controls_allowed, sig, relay_malfunction, safety_mode_cnt,
                    aol_button_press, heartbeat_counter, heartbeat_lost, heartbeat_disabled,
                    heartbeat_engaged, heartbeat_engaged_aol, heartbeat_engaged_mismatches,
                    heartbeat_engaged_aol_mismatches>>
    BY <2>1 DEF SetAlternativeExperience, safetyVars, heartbeatVars, mismatchVars
  <2> QED BY <2>3, <2>4
          DEF PInv, TypeOK, CarModeHasHost, UnusedControlsExit, BrakeStopsControls,
              ControlsNeedMain, ControlsNeedCruise, PauseHoldsWhileBraking, AolSawBrake
<1>3. CASE \E r \in Reports : Heartbeat(r)
  <2>1. PICK r \in Reports : Heartbeat(r)
    BY <1>3
  <2>2. r[1] \in BOOLEAN /\ r[2] \in BOOLEAN
    BY ReportsAssumption
  <2>3. /\ heartbeat_counter' = 0 /\ heartbeat_lost' = FALSE /\ heartbeat_disabled' = FALSE
        /\ heartbeat_engaged' = r[1] /\ heartbeat_engaged_aol' = r[2]
        /\ UNCHANGED <<mode, controls_allowed, sig, relay_malfunction, safety_mode_cnt,
                       aol_button_press, aol, heartbeat_engaged_mismatches,
                       heartbeat_engaged_aol_mismatches>>
    BY <2>1 DEF Heartbeat, safetyVars, aolVars, mismatchVars
  <2>4. TypeOK'
    <3>1. heartbeat_engaged' \in BOOLEAN /\ heartbeat_engaged_aol' \in BOOLEAN
      BY <2>2, <2>3
    <3>2. heartbeat_counter' \in 0 .. HEARTBEAT_CAP
      BY <2>3 DEF HEARTBEAT_CAP, HEARTBEAT_IGNITION_CNT_ON
    <3>3. heartbeat_lost' \in BOOLEAN /\ heartbeat_disabled' \in BOOLEAN
      BY <2>3
    <3> QED BY <2>3, <3>1, <3>2, <3>3 DEF PInv, TypeOK
  <2>5. CarModeHasHost'
    BY <2>3 DEF CarModeHasHost, HEARTBEAT_IGNITION_CNT_ON
  <2> QED BY <2>3, <2>4, <2>5
          DEF PInv, UnusedControlsExit, BrakeStopsControls, ControlsNeedMain,
              ControlsNeedCruise, PauseHoldsWhileBraking, AolSawBrake
<1>4. CASE DisableHeartbeat
  BY <1>4 DEF DisableHeartbeat, safetyVars, aolVars, mismatchVars, PInv, TypeOK,
              CarModeHasHost, UnusedControlsExit, BrakeStopsControls, ControlsNeedMain,
              ControlsNeedCruise, PauseHoldsWhileBraking, AolSawBrake
<1> QED BY <1>1, <1>2, <1>3, <1>4 DEF HostStep

-----------------------------------------------------------------------------
(* The once-a-second tick keeps the invariant.                             *)
LEMMA TickKeeps ==
    ASSUME PInv, NEW started \in BOOLEAN, NEW lagging \in BOOLEAN,
           NEW invalid \in BOOLEAN, Tick(started, lagging, invalid)
    PROVE  PInv'
<1> DEFINE counter  == min(heartbeat_counter + 1, HEARTBEAT_CAP)
           disabled == heartbeatDisabled(mode, heartbeat_disabled)
           lost     == ~disabled /\ counter >= heartbeatLimit(started)
           count    == mismatchesOnTick(controls_allowed, heartbeat_engaged,
                                        heartbeat_engaged_mismatches)
           aolCount == mismatchesOnTick(aol.allowed, heartbeat_engaged_aol,
                                        heartbeat_engaged_aol_mismatches)
           aol1     == aol_heartbeat_engaged_check(aol, heartbeat_engaged_aol, aolCount)
           silence  == lost /\ mode # "SILENT"
           checked  == is_car_safety_mode(mode) /\ ~silence
           nextcnt  == min((IF silence THEN 0 ELSE safety_mode_cnt) + 1, SAFETY_MODE_CAP)
<1>1. TypeOK
  BY DEF PInv
<1>2. /\ heartbeat_counter' = counter
      /\ heartbeat_disabled' = disabled
      /\ heartbeat_engaged_mismatches' = count
      /\ heartbeat_engaged_aol_mismatches' = aolCount
      /\ heartbeat_lost' = (heartbeat_lost \/ (lost /\ is_car_safety_mode(mode)))
      /\ heartbeat_engaged' = (heartbeat_engaged /\ ~lost)
      /\ mode' = IF silence THEN "SILENT" ELSE mode
      /\ sig' = IF silence THEN NoSignals ELSE sig
      /\ relay_malfunction' = (relay_malfunction /\ ~silence)
      /\ controls_allowed' = (controls_allowed /\ count < MAX_MISMATCHES
                                /\ ~silence /\ ~(checked /\ (lagging \/ invalid)))
      /\ aol' = exitIf(checked /\ lagging, aol1, "LAG")
      /\ safety_mode_cnt' = nextcnt
      /\ aol_button_press' = aol_button_press
      /\ heartbeat_engaged_aol' = heartbeat_engaged_aol
  BY DEF Tick
<1>3. counter \in 0 .. HEARTBEAT_CAP /\ nextcnt \in 0 .. SAFETY_MODE_CAP
  BY <1>1 DEF TypeOK, min, HEARTBEAT_CAP, HEARTBEAT_IGNITION_CNT_ON, SAFETY_MODE_CAP,
              RELAY_TRNS_TIMEOUT
<1>4. count \in 0 .. MAX_MISMATCHES
  BY <1>1 DEF PInv, UnusedControlsExit, TypeOK, mismatchesOnTick, unused, min,
              MISMATCH_CAP, MAX_MISMATCHES
<1>5. aolCount \in 0 .. MISMATCH_CAP
  BY <1>1 DEF TypeOK, mismatchesOnTick, unused, min, MISMATCH_CAP, MAX_MISMATCHES
<1>6. is_car_safety_mode(mode) => ~disabled /\ (counter >= 5 => lost)
  BY <1>3 DEF heartbeatDisabled, heartbeatLimit, HEARTBEAT_IGNITION_CNT_ON,
              HEARTBEAT_IGNITION_CNT_OFF, HEARTBEAT_CAP
<1>7. is_car_safety_mode(mode) => mode # "SILENT"
  BY CarModesAssumption DEF is_car_safety_mode, KnownCarModes
<1>8. ~is_car_safety_mode("SILENT")
  BY CarModesAssumption DEF is_car_safety_mode, KnownCarModes
<1>9. /\ disabled \in BOOLEAN /\ lost \in BOOLEAN /\ silence \in BOOLEAN
      /\ checked \in BOOLEAN
  BY <1>1 DEF TypeOK, heartbeatDisabled, is_car_safety_mode
<1>10. /\ aol' \in AolState /\ aol'.braking = aol.braking
       /\ aol'.pause_on_brake = aol.pause_on_brake /\ (aol'.allowed => aol.allowed)
  <2> DEFINE c == unused(aol.allowed, heartbeat_engaged_aol) /\ aolCount >= MAX_MISMATCHES
  <2>1. c \in BOOLEAN /\ (checked /\ lagging) \in BOOLEAN
    BY <1>1, <1>9 DEF TypeOK, AolState, unused
  <2>2. "LAG" \in DisengageReason /\ "HEARTBEAT_ENGAGED_MISMATCH" \in DisengageReason
    BY DEF DisengageReason
  <2>0. aol \in AolState
    BY <1>1 DEF TypeOK
  <2>3. aol1 = exitIf(c, aol, "HEARTBEAT_ENGAGED_MISMATCH")
    BY DEF aol_heartbeat_engaged_check
  <2> HIDE DEF c, aol1, checked
  <2> DEFINE a1 == exitIf(c, aol, "HEARTBEAT_ENGAGED_MISMATCH")
  <2>4. /\ a1 \in AolState /\ a1.braking = aol.braking
        /\ a1.pause_on_brake = aol.pause_on_brake /\ (a1.allowed => aol.allowed)
    BY <2>0, <2>1, <2>2, ExitFacts
  <2> HIDE DEF a1
  <2>5. /\ aol1 \in AolState /\ aol1.braking = aol.braking
        /\ aol1.pause_on_brake = aol.pause_on_brake /\ (aol1.allowed => aol.allowed)
    BY <2>3, <2>4 DEF a1
  <2> QED BY <1>2, <2>1, <2>2, <2>5, ExitFacts
<1> HIDE DEF counter, disabled, lost, count, aolCount, aol1, checked, nextcnt
<1>11. mode' \in SafetyMode /\ sig' \in Signals
  BY <1>1, <1>2, NoSignalsFacts DEF TypeOK, SafetyMode
<1>12. /\ heartbeat_lost' \in BOOLEAN /\ heartbeat_engaged' \in BOOLEAN
       /\ relay_malfunction' \in BOOLEAN /\ controls_allowed' \in BOOLEAN
       /\ heartbeat_disabled' \in BOOLEAN
  BY <1>1, <1>2, <1>9 DEF TypeOK
<1>13. TypeOK'
  BY <1>1, <1>2, <1>3, <1>4, <1>5, <1>10, <1>11, <1>12 DEF TypeOK
<1>14. CarModeHasHost'
  BY <1>2, <1>3, <1>6, <1>7, <1>8 DEF CarModeHasHost, HEARTBEAT_IGNITION_CNT_ON, HEARTBEAT_CAP
<1>15. /\ controls_allowed' => controls_allowed /\ count < MAX_MISMATCHES
       /\ controls_allowed' => mode' = mode /\ sig' = sig
  BY <1>2
<1>16. (UnusedControlsExit /\ BrakeStopsControls /\ ControlsNeedMain /\ ControlsNeedCruise)'
  BY <1>2, <1>15 DEF PInv, UnusedControlsExit, BrakeStopsControls, ControlsNeedMain,
                     ControlsNeedCruise
<1>17. (PauseHoldsWhileBraking /\ AolSawBrake)'
  BY <1>2, <1>10, NoSignalsFacts DEF PInv, PauseHoldsWhileBraking, AolSawBrake
<1> QED BY <1>13, <1>14, <1>16, <1>17 DEF PInv

-----------------------------------------------------------------------------
(* A panda that has booted satisfies the invariant.                        *)
LEMMA InitPInv == Init => PInv
<1> SUFFICES ASSUME Init PROVE PInv
  OBVIOUS
<1>1. AolBoot \in AolState /\ ~AolBoot.allowed
  BY DEF AolBoot, AolState, ButtonState
<1>2. TypeOK
  <2>1. /\ 0 \in 0 .. SAFETY_MODE_CAP /\ 0 \in 0 .. HEARTBEAT_CAP
        /\ 0 \in 0 .. MAX_MISMATCHES /\ 0 \in 0 .. MISMATCH_CAP
    BY DEF SAFETY_MODE_CAP, RELAY_TRNS_TIMEOUT, HEARTBEAT_CAP, HEARTBEAT_IGNITION_CNT_ON,
           MAX_MISMATCHES, MISMATCH_CAP
  <2>2. mode \in SafetyMode /\ sig \in Signals /\ aol \in AolState
        /\ aol_button_press \in ButtonState
    BY <1>1, NoSignalsFacts DEF Init, SafetyMode, ButtonState
  <2> QED BY <2>1, <2>2 DEF Init, TypeOK
<1> QED BY <1>1, <1>2 DEF Init, PInv, CarModeHasHost, UnusedControlsExit, BrakeStopsControls,
     ControlsNeedMain, ControlsNeedCruise, PauseHoldsWhileBraking, AolSawBrake,
     HEARTBEAT_IGNITION_CNT_ON

(* Every step of the panda keeps the invariant.                            *)
LEMMA NextPInv == PInv /\ [Next]_vars => PInv'
<1> SUFFICES ASSUME PInv, [Next]_vars PROVE PInv'
  OBVIOUS
<1>1. CASE ReceiveStep
  BY <1>1, ReceiveKeeps
<1>2. CASE TickStep
  BY <1>2, TickKeeps DEF TickStep
<1>3. CASE HarnessChange
  BY <1>3, SetModeKeeps DEF HarnessChange, PInv, TypeOK
<1>4. CASE HostStep
  BY <1>4, HostKeeps
<1>5. CASE UNCHANGED vars
  BY <1>5 DEF vars, safetyVars, aolVars, heartbeatVars, mismatchVars, PInv, TypeOK,
     CarModeHasHost, UnusedControlsExit, BrakeStopsControls, ControlsNeedMain,
     ControlsNeedCruise, PauseHoldsWhileBraking, AolSawBrake
<1> QED BY <1>1, <1>2, <1>3, <1>4, <1>5 DEF Next

(* The inductive invariant of the panda.                                   *)
THEOREM PandaInvariance == Spec => []PInv
BY InitPInv, NextPInv, PTL DEF Spec

(* The counters of the firmware stay within their bounds.                  *)
THEOREM PandaTypeCorrect == Spec => []TypeOK
<1>1. PInv => TypeOK
  BY DEF PInv
<1> QED BY <1>1, PandaInvariance, PTL

(* A car mode never outlives the host by more than the heartbeat limit,    *)
(* for every order of handlers.                                            *)
THEOREM HostSafety == Spec => []CarModeHasHost
<1>1. PInv => CarModeHasHost
  BY DEF PInv
<1> QED BY <1>1, PandaInvariance, PTL

(* Controls unused for MAX_MISMATCHES seconds are not allowed.             *)
THEOREM UnusedSafety == Spec => []UnusedControlsExit
<1>1. PInv => UnusedControlsExit
  BY DEF PInv
<1> QED BY <1>1, PandaInvariance, PTL

(* The brake of a moving car ends controls in every safety mode modelled.  *)
THEOREM BrakeSafety == Spec => []BrakeStopsControls
<1>1. PInv => BrakeStopsControls
  BY DEF PInv
<1> QED BY <1>1, PandaInvariance, PTL

(* On a Volkswagen controls need the main switch.                          *)
THEOREM MainSafety == Spec => []ControlsNeedMain
<1>1. PInv => ControlsNeedMain
  BY DEF PInv
<1> QED BY <1>1, PandaInvariance, PTL

(* On a Tesla controls need cruise and exclude Autopark.                   *)
THEOREM CruiseSafety == Spec => []ControlsNeedCruise
<1>1. PInv => ControlsNeedCruise
  BY DEF PInv
<1> QED BY <1>1, PandaInvariance, PTL

(* Pause mode never steers a braking car, for every AOL configuration.     *)
THEOREM PauseSafety == Spec => []PauseHoldsWhileBraking
<1>1. PInv => PauseHoldsWhileBraking
  BY DEF PInv
<1> QED BY <1>1, PandaInvariance, PTL
-----------------------------------------------------------------------------
(* The only mode with an AOL button, and with hands on the wheel as a      *)
(* reason to disengage.                                                    *)
NoAolButton == "TESLA" \notin CarModes

(* What a Volkswagen never tells, and how it tells of the brake.           *)
VwSignals == /\ ~sig.steering_disengage
             /\ sig.brake_pressed = (sig.brake_pedal_switch \/ sig.brake_pressure_detected)
             /\ ~is_car_safety_mode(mode) => sig = NoSignals /\ ~controls_allowed

(* AOL has seen what the safety mode has; it may remember more, from       *)
(* before the mode was set again.                                          *)
AolSaw == /\ ~aol.steering
          /\ aol_button_press = "UNAVAILABLE"
          /\ sig.brake_pressed => aol.braking
          /\ sig.acc_main_on => aol.acc_main
          /\ controls_allowed => aol.op_allowed

(* Without pause on brake, a request is kept only next to a permission.    *)
OnMain(a) == ~a.pause_on_brake => /\ a.requested => a.allowed
                                  /\ a.allowed => a.acc_main
SteersOnMain == OnMain(aol)

VInv == VwSignals /\ AolSaw /\ SteersOnMain
-----------------------------------------------------------------------------
(* An exit changes the permission, the request that goes with it and the   *)
(* reasons, nothing else.                                                  *)
LEMMA ExitFields ==
    ASSUME NEW a \in AolState, NEW c \in BOOLEAN, NEW r \in DisengageReason
    PROVE  LET b == exitIf(c, a, r)
           IN  /\ b \in AolState
               /\ b.pause_on_brake = a.pause_on_brake
               /\ b.acc_main = a.acc_main /\ b.op_allowed = a.op_allowed
               /\ b.braking = a.braking /\ b.steering = a.steering
               /\ (b.allowed <=> a.allowed /\ ~c)
               /\ (b.requested <=> a.requested /\ ~(a.allowed /\ c))
               /\ ~c => b = a
BY DEF exitIf, aol_exit_controls, AolState

(* What a call remembers.                                                  *)
LEMMA SampledFields ==
    ASSUME NEW a \in AolState, NEW in \in AolInput
    PROVE  LET b == sampled(a, in)
           IN  /\ b \in AolState
               /\ b.pause_on_brake = a.pause_on_brake
               /\ b.acc_main = in.acc_main /\ b.op_allowed = in.op_allowed
               /\ b.braking = in.braking /\ b.steering = in.steering
               /\ b.allowed = a.allowed
               /\ (b.requested <=> a.requested \/ requests(a, in))
<1> DEFINE button == IF in.button = "UNAVAILABLE" THEN a.button ELSE in.button
           asked  == a.requested \/ requests(a, in)
           a0     == [a EXCEPT !.acc_main = in.acc_main, !.op_allowed = in.op_allowed,
                               !.braking = in.braking, !.steering = in.steering,
                               !.button = button, !.requested = asked]
<1>1. sampled(a, in) = a0
  BY DEF sampled
<1>2. asked \in BOOLEAN /\ button \in ButtonState
  BY DEF requests, AolState, AolInput, buttonRises
<1> HIDE DEF asked, button
<1>3. /\ a0 \in AolState /\ a0.pause_on_brake = a.pause_on_brake
      /\ a0.acc_main = in.acc_main /\ a0.op_allowed = in.op_allowed
      /\ a0.braking = in.braking /\ a0.steering = in.steering
      /\ a0.allowed = a.allowed /\ (a0.requested <=> asked)
  BY <1>2 DEF AolState, AolInput
<1> HIDE DEF a0
<1> QED BY <1>1, <1>3 DEF asked

(* A call as a Volkswagen makes it: no button, no hands on the wheel,      *)
(* cruise only with the main switch on, and no request with a brake.       *)
VwCall(a, in) == /\ ~a.steering /\ ~in.steering /\ in.button = "UNAVAILABLE"
                 /\ in.op_allowed => in.acc_main
                 /\ brakeRises(a, in) => ~requests(a, in)

(* After the exits of such a call, without pause on brake: an exit and a   *)
(* request exclude each other.                                             *)
LEMMA VwExited ==
    ASSUME NEW a \in AolState, NEW in \in AolInput, VwCall(a, in)
    PROVE  LET b == exited(a, in)
           IN  /\ b \in AolState
               /\ b.pause_on_brake = a.pause_on_brake
               /\ b.acc_main = in.acc_main /\ b.op_allowed = in.op_allowed
               /\ b.braking = in.braking /\ b.steering = in.steering
               /\ b.allowed => a.allowed /\ ~mainFalls(a, in)
               /\ ~a.pause_on_brake =>
                     /\ (b.allowed <=> a.allowed /\ ~blocked(a, in))
                     /\ (b.requested <=> (a.requested \/ requests(a, in))
                                         /\ ~(a.allowed /\ blocked(a, in)))
<1> DEFINE a0 == sampled(a, in)
           c1 == mainFalls(a, in)
           a1 == exitIf(c1, a0, "ACC_MAIN_OFF")
           c2 == steerRises(a, in)
           a2 == exitIf(c2, a1, "STEERING_DISENGAGE")
           c3 == brakeRises(a, in)
                   /\ (a.disengage_on_brake \/ (a.pause_on_brake /\ ~blocked(a, in)))
           a3 == exitIf(c3, a2, "BRAKE")
<1>1. /\ c1 \in BOOLEAN /\ c2 = FALSE /\ c3 \in BOOLEAN
  BY DEF mainFalls, steerRises, brakeRises, blocked, AolState, AolInput, VwCall
<1>2. exited(a, in) = a3
  BY DEF exited
<1>3. ~a.pause_on_brake => (blocked(a, in) <=> c1 \/ c3)
  BY <1>1 DEF blocked, AolState
<1>4. blocked(a, in) \in BOOLEAN /\ requests(a, in) \in BOOLEAN
  BY DEF blocked, requests, mainFalls, steerRises, brakeRises, buttonRises, AolState, AolInput
<1>5. /\ "ACC_MAIN_OFF" \in DisengageReason /\ "STEERING_DISENGAGE" \in DisengageReason
      /\ "BRAKE" \in DisengageReason
  BY DEF DisengageReason
<1> DEFINE Seen(b) == /\ b \in AolState
                      /\ b.pause_on_brake = a.pause_on_brake
                      /\ b.acc_main = in.acc_main /\ b.op_allowed = in.op_allowed
                      /\ b.braking = in.braking /\ b.steering = in.steering
           asked == a.requested \/ requests(a, in)
<1>6. Seen(a0) /\ a0.allowed = a.allowed /\ (a0.requested <=> asked)
  BY SampledFields
<1>7. a.allowed \in BOOLEAN /\ asked \in BOOLEAN
  BY <1>4 DEF AolState
<1> HIDE DEF a0, c1, c2, c3, asked
<1>8. Seen(a1) /\ (a1.allowed <=> a.allowed /\ ~c1)
      /\ (a1.requested <=> asked /\ ~(a.allowed /\ c1))
  <2>1. c1 \in BOOLEAN /\ a0 \in AolState /\ "ACC_MAIN_OFF" \in DisengageReason
    BY <1>1, <1>5, <1>6
  <2>2. /\ a1 \in AolState /\ a1.pause_on_brake = a0.pause_on_brake
        /\ a1.acc_main = a0.acc_main /\ a1.op_allowed = a0.op_allowed
        /\ a1.braking = a0.braking /\ a1.steering = a0.steering
        /\ (a1.allowed <=> a0.allowed /\ ~c1)
        /\ (a1.requested <=> a0.requested /\ ~(a0.allowed /\ c1))
    BY <2>1, ExitFields
  <2> HIDE DEF a1
  <2> QED BY <1>6, <2>2
<1> HIDE DEF a1
<1>9. a2 = a1
  BY <1>1 DEF exitIf
<1> HIDE DEF a2
<1>10. /\ Seen(a3) /\ (a3.allowed <=> a1.allowed /\ ~c3)
       /\ (a3.requested <=> a1.requested /\ ~(a1.allowed /\ c3))
  BY <1>1, <1>5, <1>8, <1>9, ExitFields
<1> HIDE DEF a3
<1>11. a3.allowed => a.allowed /\ ~c1
  BY <1>1, <1>7, <1>8, <1>10
<1>12. ~a.pause_on_brake =>
          /\ (a3.allowed <=> a.allowed /\ ~blocked(a, in))
          /\ (a3.requested <=> asked /\ ~(a.allowed /\ blocked(a, in)))
  BY <1>1, <1>3, <1>4, <1>7, <1>8, <1>10
<1> QED BY <1>2, <1>10, <1>11, <1>12 DEF c1, asked

(* Such a call keeps OnMain, and leaves nothing for a second one to do.    *)
LEMMA VwUpdate ==
    ASSUME NEW a \in AolState, NEW in \in AolInput, VwCall(a, in), OnMain(a)
    PROVE  LET b == aol_state_update(a, in)
           IN  /\ b \in AolState
               /\ b.pause_on_brake = a.pause_on_brake
               /\ b.acc_main = in.acc_main /\ b.op_allowed = in.op_allowed
               /\ b.braking = in.braking /\ b.steering = in.steering
               /\ OnMain(b)
<1> DEFINE e == exited(a, in)
           asked == asks(a, in)
           given == [e EXCEPT !.requested = FALSE, !.allowed = TRUE,
                              !.active_reason = "NONE", !.pending_reasons = {}]
           kept  == [e EXCEPT !.requested = asked]
           Seen(b) == /\ b \in AolState
                      /\ b.pause_on_brake = a.pause_on_brake
                      /\ b.acc_main = in.acc_main /\ b.op_allowed = in.op_allowed
                      /\ b.braking = in.braking /\ b.steering = in.steering
<1>1. aol_state_update(a, in) = IF grants(a, in) THEN given ELSE kept
  BY DEF aol_state_update
<1>2. /\ Seen(e) /\ (e.allowed => a.allowed /\ ~mainFalls(a, in))
      /\ ~a.pause_on_brake =>
            /\ (e.allowed <=> a.allowed /\ ~blocked(a, in))
            /\ (e.requested <=> (a.requested \/ requests(a, in)) /\ ~(a.allowed /\ blocked(a, in)))
  BY VwExited
<1>3. asked \in BOOLEAN /\ (~a.pause_on_brake => asked = e.requested)
  BY <1>2 DEF asks, resumes, AolState
<1>4. requests(a, in) => in.acc_main /\ ~blocked(a, in)
  BY DEF VwCall, requests, blocked, mainFalls, steerRises, buttonRises
<1>5. blocked(a, in) \in BOOLEAN /\ requests(a, in) \in BOOLEAN /\ a.allowed \in BOOLEAN
      /\ a.requested \in BOOLEAN
  BY DEF blocked, requests, mainFalls, steerRises, brakeRises, buttonRises, AolState, AolInput
<1>6. ~a.pause_on_brake => (grants(a, in) <=> requests(a, in) /\ ~a.allowed)
  BY <1>2, <1>3, <1>4, <1>5 DEF grants, OnMain
<1>7. ~a.pause_on_brake /\ e.requested /\ ~grants(a, in) => e.allowed
  BY <1>2, <1>4, <1>5, <1>6 DEF OnMain
<1>8. ~a.pause_on_brake /\ e.allowed => in.acc_main
  BY <1>2 DEF mainFalls, OnMain, AolInput
<1> HIDE DEF e, asked
<1>9. Seen(given) /\ given.allowed = TRUE /\ given.requested = FALSE
  BY <1>2 DEF AolState
<1>10. Seen(kept) /\ kept.allowed = e.allowed /\ kept.requested = asked
  BY <1>2, <1>3 DEF AolState
<1> HIDE DEF given, kept
<1>11. grants(a, in) => OnMain(given)
  BY <1>4, <1>6, <1>9 DEF OnMain
<1>12. ~grants(a, in) => OnMain(kept)
  BY <1>3, <1>7, <1>8, <1>10 DEF OnMain
<1> QED BY <1>1, <1>9, <1>10, <1>11, <1>12

(* A call with the signals of the call before changes nothing.             *)
LEMMA SecondUpdate ==
    ASSUME NEW a \in AolState, NEW in \in AolInput, OnMain(a), ~a.pause_on_brake,
           in.button = "UNAVAILABLE",
           a.acc_main = in.acc_main, a.op_allowed = in.op_allowed,
           a.braking = in.braking, a.steering = in.steering
    PROVE  aol_state_update(a, in) = a
<1>1. ~mainFalls(a, in) /\ ~steerRises(a, in) /\ ~brakeRises(a, in) /\ ~requests(a, in)
  BY DEF mainFalls, steerRises, brakeRises, requests, buttonRises
<1>2. sampled(a, in) = a
  BY <1>1 DEF sampled, AolState
<1>3. exited(a, in) = a
  BY <1>1, <1>2 DEF exited, exitIf
<1>4. asks(a, in) = a.requested
  BY <1>3 DEF asks, resumes, AolState
<1>5. ~grants(a, in)
  BY <1>3, <1>4 DEF grants, OnMain
<1>6. aol_state_update(a, in) = [a EXCEPT !.requested = a.requested]
  BY <1>3, <1>4, <1>5 DEF aol_state_update
<1> QED BY <1>6 DEF AolState

(* So the repetitions for one message are one call.                        *)
LEMMA VwUpdates ==
    ASSUME NEW a \in AolState, NEW in \in AolInput, VwCall(a, in), OnMain(a), NEW n \in {2, 3, 6}
    PROVE  /\ ~a.pause_on_brake => aol_state_updates(a, in, n) = aol_state_update(a, in)
           /\ LET b == aol_state_updates(a, in, n)
              IN  /\ b \in AolState
                  /\ b.acc_main = in.acc_main /\ b.op_allowed = in.op_allowed
                  /\ b.braking = in.braking /\ ~b.steering
                  /\ OnMain(b)
<1> DEFINE b1 == aol_state_update(a, in)
           b2 == aol_state_update(b1, in)
           b3 == aol_state_update(b2, in)
           b4 == aol_state_update(b3, in)
           b5 == aol_state_update(b4, in)
           b6 == aol_state_update(b5, in)
<1>0. aol_state_updates(a, in, n) = IF n = 2 THEN b2 ELSE IF n = 3 THEN b3 ELSE b6
  BY DEF aol_state_updates
<1> DEFINE Good(b) == /\ b \in AolState
                      /\ b.pause_on_brake = a.pause_on_brake
                      /\ b.acc_main = in.acc_main /\ b.op_allowed = in.op_allowed
                      /\ b.braking = in.braking /\ b.steering = in.steering
                      /\ OnMain(b)
<1>1. Good(b1)
  BY VwUpdate
<1>2. in.button = "UNAVAILABLE" /\ ~in.steering
  BY DEF VwCall
<1>3. ASSUME NEW b, Good(b)
      PROVE  /\ Good(aol_state_update(b, in))
             /\ ~a.pause_on_brake => aol_state_update(b, in) = b
  <2>1. b \in AolState /\ OnMain(b) /\ VwCall(b, in)
    BY <1>3, <1>2 DEF VwCall, brakeRises
  <2>2. Good(aol_state_update(b, in))
    BY <1>3, <2>1, VwUpdate
  <2>3. ~a.pause_on_brake => aol_state_update(b, in) = b
    BY <1>2, <1>3, SecondUpdate
  <2> QED BY <2>2, <2>3
<1> HIDE DEF Good
<1>4. Good(b2) /\ (~a.pause_on_brake => b2 = b1) BY <1>1, <1>3
<1> HIDE DEF b2
<1>5. Good(b3) /\ (~a.pause_on_brake => b3 = b2) BY <1>4, <1>3
<1> HIDE DEF b3
<1>6. Good(b4) /\ (~a.pause_on_brake => b4 = b3) BY <1>5, <1>3
<1> HIDE DEF b4
<1>7. Good(b5) /\ (~a.pause_on_brake => b5 = b4) BY <1>6, <1>3
<1> HIDE DEF b5
<1>8. Good(b6) /\ (~a.pause_on_brake => b6 = b5) BY <1>7, <1>3
<1> HIDE DEF b6, b1
<1> QED BY <1>0, <1>2, <1>4, <1>5, <1>6, <1>7, <1>8 DEF Good, b1
-----------------------------------------------------------------------------
(* The messages of a Volkswagen tell of the brake or of what engages, not  *)
(* of both.                                                                *)
LEMMA VwHook ==
    ASSUME NEW s \in Signals, NEW long \in BOOLEAN, NEW allowed \in BOOLEAN,
           NEW md, md # "TESLA", NEW m \in Messages(md),
           ~s.steering_disengage,
           s.brake_pressed = (s.brake_pedal_switch \/ s.brake_pressure_detected)
    PROVE  LET t == vwSignals(long, s, m)
               c == vwControls(long, s, allowed, m)
           IN  /\ ~t.steering_disengage
               /\ t.brake_pressed = (t.brake_pedal_switch \/ t.brake_pressure_detected)
               /\ t.brake_pressed /\ ~s.brake_pressed =>
                      t.acc_main_on = s.acc_main_on /\ (c => allowed)
<1>1. m \in VwMessages \cup [id : {"OTHER", "STOCK_ECU"}]
  BY DEF Messages
<1> DEFINE t == vwSignals(long, s, m)
<1>2. CASE m.id = "TSK_06"
  <2> DEFINE on == m.status # "off"
             prev == IF long THEN s.cruise_engaged_prev ELSE m.status = "engaged"
             s1 == [s EXCEPT !.acc_main_on = on, !.cruise_engaged_prev = prev]
  <2>1. t = [s1 EXCEPT !.brake_pressed = s1.brake_pedal_switch \/ s1.brake_pressure_detected]
    BY <1>2 DEF vwSignals
  <2>2. /\ s1 \in Signals /\ s1.brake_pedal_switch = s.brake_pedal_switch
        /\ s1.brake_pressure_detected = s.brake_pressure_detected
        /\ s1.steering_disengage = s.steering_disengage
    <3>1. on \in BOOLEAN /\ prev \in BOOLEAN BY DEF Signals
    <3> HIDE DEF on, prev
    <3> QED BY <3>1 DEF Signals
  <2> HIDE DEF s1
  <2>3. /\ ~t.steering_disengage
        /\ t.brake_pressed = s.brake_pressed
        /\ t.brake_pedal_switch = s.brake_pedal_switch
        /\ t.brake_pressure_detected = s.brake_pressure_detected
    BY <2>1, <2>2 DEF Signals
  <2> QED BY <2>3
<1>3. CASE m.id = "GRA_ACC_01"
  <2>1. m.set \in BOOLEAN /\ m.resume \in BOOLEAN /\ m.cancel \in BOOLEAN
    BY <1>1, <1>3 DEF VwMessages, Flag
  <2> QED BY <1>3, <2>1 DEF vwSignals, vwControls, setReleased, Signals
<1>4. CASE m.id \in {"MOTOR_14", "ESP_05", "ESP_19"}
  <2>1. m.on \in BOOLEAN
    BY <1>1, <1>4 DEF VwMessages, Flag
  <2> QED BY <1>4, <2>1 DEF vwSignals, vwControls, Signals
<1>5. CASE m.id \notin {"TSK_06", "GRA_ACC_01", "MOTOR_14", "ESP_05", "ESP_19"}
  BY <1>5 DEF vwSignals, vwControls, Signals
<1> QED BY <1>2, <1>3, <1>4, <1>5

(* What safety_rx_hook passes to AOL for such a message is a VwCall.       *)
Told(s, allowed) ==
    /\ s \in Signals /\ allowed \in BOOLEAN
    /\ ~s.steering_disengage
    /\ s.brake_pressed = (s.brake_pedal_switch \/ s.brake_pressure_detected)
    /\ s.brake_pressed /\ ~sig.brake_pressed =>
           s.acc_main_on = sig.acc_main_on /\ (allowed => controls_allowed)
    /\ allowed => s.acc_main_on

(* A message that tells AOL something: one call on what the mode now knows. *)
LEMMA ToldCall ==
    ASSUME PInv, VInv, NEW s, NEW allowed, Told(s, allowed)
    PROVE  LET left == generic_rx_checks(allowed, sig, s)
               in   == aolInput(s, left, "UNAVAILABLE")
           IN  /\ left \in BOOLEAN /\ in \in AolInput /\ VwCall(aol, in)
               /\ in.acc_main = s.acc_main_on /\ in.op_allowed = left
               /\ in.braking = s.brake_pressed
<1> DEFINE left == generic_rx_checks(allowed, sig, s)
           in   == aolInput(s, left, "UNAVAILABLE")
<1>1. left \in BOOLEAN /\ (left => allowed)
  BY DEF generic_rx_checks, Told, Signals, PInv, TypeOK
<1> HIDE DEF left
<1>2. /\ in \in AolInput /\ in.acc_main = s.acc_main_on /\ in.op_allowed = left
      /\ in.braking = s.brake_pressed /\ in.steering = s.steering_disengage
      /\ in.button = "UNAVAILABLE"
  BY <1>1 DEF aolInput, AolInput, Signals, Told, ButtonState
<1> HIDE DEF in
<1>3. /\ sig \in Signals /\ controls_allowed \in BOOLEAN
      /\ ~aol.steering /\ (sig.brake_pressed => aol.braking)
      /\ (sig.acc_main_on => aol.acc_main) /\ (controls_allowed => aol.op_allowed)
  BY DEF PInv, TypeOK, VInv, AolSaw
<1>4. brakeRises(aol, in) => ~requests(aol, in)
  BY <1>1, <1>2, <1>3 DEF brakeRises, requests, buttonRises, Told, Signals
<1>5. VwCall(aol, in)
  BY <1>1, <1>2, <1>3, <1>4 DEF VwCall, Told
<1> QED BY <1>1, <1>2, <1>5 DEF left, in

(* Without an AOL button, every message is one that Told describes.        *)
LEMMA RxTells ==
    ASSUME PInv, VInv, NoAolButton, is_car_safety_mode(mode), NEW m \in Messages(mode)
    PROVE  /\ Told(rxSignals(mode, sig, m), rxControls(mode, sig, controls_allowed, m))
           /\ rxButton(mode, aol_button_press, m) = "UNAVAILABLE"
<1>1. mode # "TESLA"
  BY DEF NoAolButton, is_car_safety_mode
<1>2. /\ sig \in Signals /\ controls_allowed \in BOOLEAN /\ (controls_allowed => sig.acc_main_on)
      /\ (mode = "VOLKSWAGEN_MQB_LONG") \in BOOLEAN
  BY <1>1 DEF PInv, TypeOK, ControlsNeedMain
<1>3. /\ ~sig.steering_disengage
      /\ sig.brake_pressed = (sig.brake_pedal_switch \/ sig.brake_pressure_detected)
  BY DEF VInv, VwSignals
<1> DEFINE long == mode = "VOLKSWAGEN_MQB_LONG"
<1>4. /\ rxSignals(mode, sig, m) = vwSignals(long, sig, m)
      /\ rxControls(mode, sig, controls_allowed, m) = vwControls(long, sig, controls_allowed, m)
      /\ rxButton(mode, aol_button_press, m) = aol_button_press
  BY <1>1 DEF rxSignals, rxControls, rxButton
<1> HIDE DEF long
<1>5. /\ vwSignals(long, sig, m) \in Signals
      /\ vwControls(long, sig, controls_allowed, m) \in BOOLEAN
      /\ vwControls(long, sig, controls_allowed, m) => vwSignals(long, sig, m).acc_main_on
  BY <1>1, <1>2, VwFacts DEF long
<1>6. /\ ~vwSignals(long, sig, m).steering_disengage
      /\ vwSignals(long, sig, m).brake_pressed
            = (vwSignals(long, sig, m).brake_pedal_switch
                 \/ vwSignals(long, sig, m).brake_pressure_detected)
      /\ vwSignals(long, sig, m).brake_pressed /\ ~sig.brake_pressed =>
            /\ vwSignals(long, sig, m).acc_main_on = sig.acc_main_on
            /\ vwControls(long, sig, controls_allowed, m) => controls_allowed
  BY <1>1, <1>2, <1>3, VwHook DEF long
<1>7. aol_button_press = "UNAVAILABLE"
  BY DEF VInv, AolSaw
<1> QED BY <1>4, <1>5, <1>6, <1>7 DEF Told

(* The hook on such a message keeps the invariant.                         *)
LEMMA AfterRxKeepsV ==
    ASSUME PInv, VInv, is_car_safety_mode(mode), NEW s, NEW allowed, NEW stock,
           Told(s, allowed), afterRx(s, allowed, "UNAVAILABLE", stock)
    PROVE  VInv'
<1> DEFINE left == generic_rx_checks(allowed, sig, s)
           in   == aolInput(s, left, "UNAVAILABLE")
<1>1. /\ left \in BOOLEAN /\ in \in AolInput /\ VwCall(aol, in)
      /\ in.acc_main = s.acc_main_on /\ in.op_allowed = left /\ in.braking = s.brake_pressed
  BY ToldCall
<1>2. /\ sig' = s /\ controls_allowed' = left /\ aol_button_press' = "UNAVAILABLE"
      /\ aol' = aol_state_updates(aol, in, relayChecks[mode]) /\ mode' = mode
  BY DEF afterRx
<1>3. relayChecks[mode] \in {2, 3, 6}
  BY CarModesAssumption DEF is_car_safety_mode, KnownCarModes, relayChecks
<1>4. aol \in AolState /\ OnMain(aol)
  BY DEF PInv, TypeOK, VInv, SteersOnMain
<1> HIDE DEF left, in
<1>5. /\ aol'.acc_main = in.acc_main /\ aol'.op_allowed = in.op_allowed
      /\ aol'.braking = in.braking /\ ~aol'.steering /\ OnMain(aol')
  BY <1>1, <1>2, <1>3, <1>4, VwUpdates
<1>6. VwSignals'
  BY <1>2 DEF VwSignals, Told, is_car_safety_mode
<1>7. AolSaw'
  BY <1>1, <1>2, <1>5 DEF AolSaw
<1>8. SteersOnMain'
  BY <1>5 DEF SteersOnMain, OnMain
<1> QED BY <1>6, <1>7, <1>8 DEF VInv

(* safety_rx_hook, for a valid and for an invalid message.                 *)
LEMMA ReceiveKeepsV == ASSUME PInv, VInv, NoAolButton, ReceiveStep PROVE VInv'
<1>1. CASE \E m \in Messages(mode) : Rx(m)
  <2>1. PICK m \in Messages(mode) : Rx(m)
    BY <1>1
  <2>2. /\ is_car_safety_mode(mode)
        /\ afterRx(rxSignals(mode, sig, m), rxControls(mode, sig, controls_allowed, m),
                   rxButton(mode, aol_button_press, m), m.id = "STOCK_ECU")
    BY <2>1 DEF Rx
  <2> QED BY <2>2, RxTells, AfterRxKeepsV
<1>2. CASE RxInvalid
  <2>1. is_car_safety_mode(mode) /\ afterRx(sig, FALSE, "UNAVAILABLE", FALSE)
    BY <1>2 DEF RxInvalid, VInv, AolSaw
  <2>2. Told(sig, FALSE)
    BY DEF Told, VInv, VwSignals, PInv, TypeOK
  <2> QED BY <2>1, <2>2, AfterRxKeepsV
<1> QED BY <1>1, <1>2 DEF ReceiveStep

(* Where nothing is known, AOL has seen all there is.                      *)
LEMMA NothingTold ==
    /\ ~NoSignals.steering_disengage /\ ~NoSignals.brake_pressed /\ ~NoSignals.acc_main_on
    /\ NoSignals.brake_pressed = (NoSignals.brake_pedal_switch \/ NoSignals.brake_pressure_detected)
BY DEF NoSignals

(* A new safety mode forgets the signals; AOL may remember them.           *)
LEMMA SetModeKeepsV == ASSUME VInv, NEW m, set_safety_mode(m) PROVE VInv'
<1>1. controls_allowed' = FALSE /\ sig' = NoSignals /\ UNCHANGED <<aol, aol_button_press>>
  BY DEF set_safety_mode, set_safety_hooks, aolVars
<1> QED BY <1>1, NothingTold DEF VInv, VwSignals, AolSaw, SteersOnMain, OnMain

(* The requests of the host.                                               *)
LEMMA HostKeepsV == ASSUME PInv, VInv, HostStep PROVE VInv'
<1>1. CASE \E m \in SafetyMode : SetSafetyMode(m)
  BY <1>1, SetModeKeepsV DEF SetSafetyMode
<1>2. CASE \E cfg \in AolConfigs : SetAlternativeExperience(cfg)
  <2>1. PICK cfg \in AolConfigs : SetAlternativeExperience(cfg)
    BY <1>2
  <2>2. /\ aol'.steering = aol.steering /\ aol'.braking = aol.braking
        /\ aol'.op_allowed = aol.op_allowed /\ aol'.requested = FALSE /\ aol'.allowed = FALSE
    BY <2>1 DEF SetAlternativeExperience, aol_set_system_state, AolState, PInv, TypeOK
  <2>3. /\ UNCHANGED <<mode, controls_allowed, sig, aol_button_press>>
        /\ ~is_car_safety_mode(mode)
    BY <2>1 DEF SetAlternativeExperience, safetyVars
  <2> QED BY <2>2, <2>3, NothingTold
          DEF VInv, VwSignals, AolSaw, SteersOnMain, OnMain, is_car_safety_mode
<1>3. CASE (\E r \in Reports : Heartbeat(r)) \/ DisableHeartbeat
  <2>1. UNCHANGED <<mode, controls_allowed, sig, aol, aol_button_press>>
    BY <1>3 DEF Heartbeat, DisableHeartbeat, safetyVars, aolVars
  <2> QED BY <2>1 DEF VInv, VwSignals, AolSaw, SteersOnMain, OnMain, is_car_safety_mode
<1> QED BY <1>1, <1>2, <1>3 DEF HostStep

(* The tick, with its heartbeat check and mismatch counts.                 *)
LEMMA TickKeepsV ==
    ASSUME PInv, VInv, NEW started \in BOOLEAN, NEW lagging \in BOOLEAN,
           NEW invalid \in BOOLEAN, Tick(started, lagging, invalid)
    PROVE  VInv'
<1>1. PICK silence \in BOOLEAN, c1 \in BOOLEAN, c2 \in BOOLEAN :
        /\ mode' = IF silence THEN "SILENT" ELSE mode
        /\ sig' = IF silence THEN NoSignals ELSE sig
        /\ controls_allowed' => controls_allowed /\ ~silence
        /\ aol' = exitIf(c2, exitIf(c1, aol, "HEARTBEAT_ENGAGED_MISMATCH"), "LAG")
        /\ aol_button_press' = aol_button_press
  <2> DEFINE counter  == min(heartbeat_counter + 1, HEARTBEAT_CAP)
             disabled == heartbeatDisabled(mode, heartbeat_disabled)
             lost     == ~disabled /\ counter >= heartbeatLimit(started)
             aolCount == mismatchesOnTick(aol.allowed, heartbeat_engaged_aol,
                                          heartbeat_engaged_aol_mismatches)
             silence  == lost /\ mode # "SILENT"
             c1 == unused(aol.allowed, heartbeat_engaged_aol) /\ aolCount >= MAX_MISMATCHES
             c2 == is_car_safety_mode(mode) /\ ~silence /\ lagging
  <2>1. silence \in BOOLEAN /\ c1 \in BOOLEAN /\ c2 \in BOOLEAN
    BY DEF unused
  <2>2. /\ mode' = IF silence THEN "SILENT" ELSE mode
        /\ sig' = IF silence THEN NoSignals ELSE sig
        /\ controls_allowed' => controls_allowed /\ ~silence
        /\ aol' = exitIf(c2, exitIf(c1, aol, "HEARTBEAT_ENGAGED_MISMATCH"), "LAG")
        /\ aol_button_press' = aol_button_press
    BY DEF Tick, aol_heartbeat_engaged_check
  <2> HIDE DEF silence, c1, c2
  <2> QED BY <2>1, <2>2
<1>2. /\ aol \in AolState /\ "LAG" \in DisengageReason
      /\ "HEARTBEAT_ENGAGED_MISMATCH" \in DisengageReason
  BY DEF PInv, TypeOK, DisengageReason
<1> DEFINE b == exitIf(c1, aol, "HEARTBEAT_ENGAGED_MISMATCH")
<1>3. /\ b \in AolState /\ b.pause_on_brake = aol.pause_on_brake
      /\ b.acc_main = aol.acc_main /\ b.op_allowed = aol.op_allowed
      /\ b.braking = aol.braking /\ b.steering = aol.steering
      /\ (b.allowed <=> aol.allowed /\ ~c1)
      /\ (b.requested <=> aol.requested /\ ~(aol.allowed /\ c1))
  BY <1>2, ExitFields
<1>4. aol' = exitIf(c2, b, "LAG")
  BY <1>1
<1> HIDE DEF b
<1>5. /\ aol'.pause_on_brake = aol.pause_on_brake
      /\ aol'.acc_main = aol.acc_main /\ aol'.op_allowed = aol.op_allowed
      /\ aol'.braking = aol.braking /\ aol'.steering = aol.steering
      /\ (aol'.allowed <=> b.allowed /\ ~c2)
      /\ (aol'.requested <=> b.requested /\ ~(b.allowed /\ c2))
  <2> DEFINE e == exitIf(c2, b, "LAG")
  <2>1. /\ e.pause_on_brake = b.pause_on_brake
        /\ e.acc_main = b.acc_main /\ e.op_allowed = b.op_allowed
        /\ e.braking = b.braking /\ e.steering = b.steering
        /\ (e.allowed <=> b.allowed /\ ~c2)
        /\ (e.requested <=> b.requested /\ ~(b.allowed /\ c2))
    BY <1>2, <1>3, ExitFields
  <2>2. aol' = e
    BY <1>4
  <2> HIDE DEF e
  <2> QED BY <1>3, <2>1, <2>2
<1>6. SteersOnMain'
  BY <1>3, <1>5 DEF VInv, SteersOnMain, OnMain
<1>7. AolSaw'
  BY <1>1, <1>5, NothingTold DEF VInv, AolSaw
<1>8. VwSignals'
  <2>1. CASE silence
    BY <1>1, <2>1, NothingTold DEF VwSignals
  <2>2. CASE ~silence
    <3>1. mode' = mode /\ sig' = sig /\ (controls_allowed' => controls_allowed)
      BY <1>1, <2>2
    <3> QED BY <3>1 DEF VInv, VwSignals, is_car_safety_mode
  <2> QED BY <2>1, <2>2
<1> QED BY <1>6, <1>7, <1>8 DEF VInv

(* At power-up nothing is known, requested or allowed.                     *)
LEMMA InitVInv == Init => VInv
BY NothingTold, CarModesAssumption
   DEF Init, AolBoot, VInv, VwSignals, AolSaw, SteersOnMain, OnMain, is_car_safety_mode,
       KnownCarModes

(* Every step keeps what the theorems need.                                *)
LEMMA NextVInv == ASSUME NoAolButton PROVE PInv /\ VInv /\ [Next]_vars => VInv'
<1> SUFFICES ASSUME PInv, VInv, [Next]_vars PROVE VInv'
  OBVIOUS
<1>1. CASE ReceiveStep
  BY <1>1, ReceiveKeepsV
<1>2. CASE TickStep
  BY <1>2, TickKeepsV DEF TickStep
<1>3. CASE HarnessChange
  BY <1>3, SetModeKeepsV DEF HarnessChange
<1>4. CASE HostStep
  BY <1>4, HostKeepsV
<1>5. CASE UNCHANGED vars
  BY <1>5 DEF vars, safetyVars, aolVars, VInv, VwSignals, AolSaw, SteersOnMain, OnMain,
              is_car_safety_mode
<1> QED BY <1>1, <1>2, <1>3, <1>4, <1>5 DEF Next

(* What AOL has seen and asked for in a panda without an AOL button, for   *)
(* every order of messages, mode changes, ticks and requests.              *)
THEOREM PandaAolInv == ASSUME NoAolButton PROVE Spec => []VInv
<1>1. PInv /\ VInv /\ [Next]_vars => VInv'
  BY NextVInv
<1> QED BY <1>1, InitVInv, PandaInvariance, PTL DEF Spec

(* Without pause on brake, AOL steers a Volkswagen only while the main     *)
(* switch it last saw is on.                                               *)
THEOREM AolMainSafety == ASSUME NoAolButton PROVE Spec => []AolNeedsMain
<1>1. VInv => AolNeedsMain
  BY DEF VInv, SteersOnMain, OnMain, AolNeedsMain
<1> QED BY <1>1, PandaAolInv, PTL

(* How often safety_rx_hook repeats the AOL update for one message makes   *)
(* no difference on a Volkswagen without pause on brake.                   *)
THEOREM RepeatSafety == ASSUME NoAolButton PROVE Spec => []RepeatedUpdatesAgree
<1>1. PInv /\ VInv => RepeatedUpdatesAgree
  <2> SUFFICES ASSUME PInv, VInv, mode \in {"VOLKSWAGEN_MQB", "VOLKSWAGEN_MQB_LONG"},
                      ~aol.pause_on_brake, NEW m \in Messages(mode)
               PROVE  LET s    == rxSignals(mode, sig, m)
                          left == generic_rx_checks(rxControls(mode, sig, controls_allowed, m),
                                                    sig, s)
                          in   == aolInput(s, left, rxButton(mode, aol_button_press, m))
                      IN  aol_state_updates(aol, in, relayChecks[mode]) = aol_state_update(aol, in)
    BY DEF RepeatedUpdatesAgree
  <2>1. is_car_safety_mode(mode)
    BY DEF PInv, TypeOK, SafetyMode, is_car_safety_mode
  <2> DEFINE s    == rxSignals(mode, sig, m)
             c    == rxControls(mode, sig, controls_allowed, m)
             left == generic_rx_checks(c, sig, s)
             in   == aolInput(s, left, "UNAVAILABLE")
  <2>2. Told(s, c) /\ rxButton(mode, aol_button_press, m) = "UNAVAILABLE"
    BY <2>1, RxTells
  <2> HIDE DEF s, c
  <2>3. in \in AolInput /\ VwCall(aol, in)
    BY <2>2, ToldCall
  <2>4. relayChecks[mode] \in {2, 3, 6}
    BY DEF relayChecks
  <2>5. aol \in AolState /\ OnMain(aol)
    BY DEF PInv, TypeOK, VInv, SteersOnMain
  <2> HIDE DEF left, in
  <2>6. aol_state_updates(aol, in, relayChecks[mode]) = aol_state_update(aol, in)
    BY <2>3, <2>4, <2>5, VwUpdates
  <2> QED BY <2>2, <2>6 DEF in, left, s, c
<1> QED BY <1>1, PandaInvariance, PandaAolInv, PTL
=============================================================================
