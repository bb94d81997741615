---------------------------- MODULE PandaSafety ----------------------------
(***************************************************************************)
(* The panda: the microcontroller between the driving computer and the     *)
(* car.  Three handlers share its state, all at one interrupt priority so  *)
(* that each runs to its end: a CAN message received from the car          *)
(* (safety_rx_hook), the once-a-second part of tick_handler, and a control *)
(* request from the host (comms_control_handler).                          *)
(*                                                                         *)
(* The messages of a car are abstracted to the signals the permission      *)
(* logic reads; speeds, torques and the gas pedal, which only the limits   *)
(* on transmitted commands use, are left out.                              *)
(***************************************************************************)
EXTENDS AolSafety

CONSTANTS
    CarModes,       \* the car safety modes the host may ask for
    AolConfigs,     \* the alternative experiences the host may ask for
    OnBus,          \* the identifiers of the messages the car sends
    Reports         \* what the host's heartbeats may say of it: <<engaged, AOL engaged>>

KnownCarModes == {"VOLKSWAGEN_MQB", "VOLKSWAGEN_MQB_LONG", "TESLA"}

ASSUME CarModesAssumption   == CarModes \subseteq KnownCarModes
ASSUME AolConfigsAssumption == AolConfigs \subseteq AolConfig
ASSUME ReportsAssumption    == Reports \subseteq BOOLEAN \X BOOLEAN

HEARTBEAT_IGNITION_CNT_ON  == 5
HEARTBEAT_IGNITION_CNT_OFF == 2
MAX_MISMATCHES             == 3
RELAY_TRNS_TIMEOUT         == 1

(* Bounds: beyond these values the counters are only ever compared.        *)
HEARTBEAT_CAP    == HEARTBEAT_IGNITION_CNT_ON
MISMATCH_CAP     == MAX_MISMATCHES + 1
SAFETY_MODE_CAP  == RELAY_TRNS_TIMEOUT + 1

VARIABLES
    mode,                   \* current_safety_mode
    controls_allowed,
    sig,                    \* what the safety mode knows of the car
    aol_button_press,
    aol,                    \* m_aol_state
    relay_malfunction,
    safety_mode_cnt,
    heartbeat_counter,      \* seconds since the host was heard
    heartbeat_lost,
    heartbeat_disabled,
    heartbeat_engaged,      \* what the host last said of itself
    heartbeat_engaged_aol,
    heartbeat_engaged_mismatches,
    heartbeat_engaged_aol_mismatches

safetyVars    == <<mode, controls_allowed, sig, relay_malfunction, safety_mode_cnt>>
aolVars       == <<aol_button_press, aol>>
heartbeatVars == <<heartbeat_counter, heartbeat_lost, heartbeat_disabled,
                   heartbeat_engaged, heartbeat_engaged_aol>>
mismatchVars  == <<heartbeat_engaged_mismatches, heartbeat_engaged_aol_mismatches>>
vars == <<safetyVars, aolVars, heartbeatVars, mismatchVars>>

SafetyMode == {"SILENT", "NOOUTPUT", "ELM327"} \cup CarModes

is_car_safety_mode(m) == m \in CarModes

min(a, b) == IF a < b THEN a ELSE b

-----------------------------------------------------------------------------
(* What a safety mode remembers of the car.  The previous values that      *)
(* generic_rx_checks keeps of the brake and the steering wheel are their   *)
(* values before the message.                                              *)
Signals ==
    [acc_main_on : BOOLEAN, brake_pressed : BOOLEAN, vehicle_moving : BOOLEAN,
     steering_disengage : BOOLEAN, cruise_engaged_prev : BOOLEAN,
     brake_pedal_switch : BOOLEAN, brake_pressure_detected : BOOLEAN,
     set_button_prev : BOOLEAN, resume_button_prev : BOOLEAN,
     autopark : BOOLEAN, autopark_prev : BOOLEAN]

(* The state set_safety_hooks and the init hooks leave: Autopark is        *)
(* assumed until the car says otherwise.                                   *)
NoSignals ==
    [acc_main_on |-> FALSE, brake_pressed |-> FALSE, vehicle_moving |-> FALSE,
     steering_disengage |-> FALSE, cruise_engaged_prev |-> FALSE,
     brake_pedal_switch |-> FALSE, brake_pressure_detected |-> FALSE,
     set_button_prev |-> FALSE, resume_button_prev |-> FALSE,
     autopark |-> TRUE, autopark_prev |-> FALSE]

(* Calls of stock_ecu_check for a message: transmit messages whose relay   *)
(* is checked.                                                             *)
relayChecks == [VOLKSWAGEN_MQB |-> 3, VOLKSWAGEN_MQB_LONG |-> 6, TESLA |-> 2]

(* The messages of the bus, with the signals that matter.  "OTHER" carries *)
(* none of them; "STOCK_ECU" is a message the panda should be the one to   *)
(* send.                                                                   *)
Flag(id) == [id : {id}, on : BOOLEAN]

VwMessages ==
    [id : {"TSK_06"}, status : {"off", "ready", "engaged"}]
        \cup [id : {"GRA_ACC_01"}, set : BOOLEAN, resume : BOOLEAN, cancel : BOOLEAN]
        \cup Flag("MOTOR_14") \cup Flag("ESP_05") \cup Flag("ESP_19")

TeslaMessages ==
    [id : {"DI_state"}, cruise : BOOLEAN, autopark : BOOLEAN]
        \cup [id : {"ESP_B"}, moving : BOOLEAN, mismatch : BOOLEAN]
        \cup Flag("EPAS3S_sysStatus") \cup Flag("IBST_status") \cup Flag("UI_status2")

Messages(m) ==
    {msg \in (IF m = "TESLA" THEN TeslaMessages ELSE VwMessages)
                 \cup [id : {"OTHER", "STOCK_ECU"}] : msg.id \in OnBus}

-----------------------------------------------------------------------------
(* Enter on the rising edge of the car's own cruise, exit when it is off. *)
pcm_cruise_check(engaged, s, allowed) ==
    engaged /\ (allowed \/ ~s.cruise_engaged_prev)

(* Volkswagen MQB: volkswagen_mqb_rx_hook.  The brake is pressed when the  *)
(* pedal switch or the brake pressure says so.                             *)
vwSignals(long, s, m) ==
    LET s1 == IF m.id = "TSK_06" THEN
                 [s EXCEPT !.acc_main_on = m.status # "off",
                           !.cruise_engaged_prev = IF long THEN @ ELSE m.status = "engaged"]
              ELSE IF m.id = "GRA_ACC_01" /\ long THEN
                 [s EXCEPT !.set_button_prev = m.set, !.resume_button_prev = m.resume]
              ELSE IF m.id = "MOTOR_14" THEN [s EXCEPT !.brake_pedal_switch = m.on]
              ELSE IF m.id = "ESP_05"   THEN [s EXCEPT !.brake_pressure_detected = m.on]
              ELSE IF m.id = "ESP_19"   THEN [s EXCEPT !.vehicle_moving = m.on]
              ELSE s
    IN [s1 EXCEPT !.brake_pressed = s1.brake_pedal_switch \/ s1.brake_pressure_detected]

(* openpilot longitudinal: set or resume is released *)
setReleased(s, m) == \/ s.set_button_prev /\ ~m.set
                     \/ s.resume_button_prev /\ ~m.resume

(* mutant: the main switch is not looked at when set is released *)
vwControlsAnyMain(long, s, allowed, m) ==
    IF m.id = "TSK_06" THEN
        /\ m.status # "off"
        /\ IF long THEN allowed ELSE pcm_cruise_check(m.status = "engaged", s, allowed)
    ELSE IF m.id = "GRA_ACC_01" THEN
        /\ ~m.cancel
        /\ IF long /\ setReleased(s, m) THEN TRUE ELSE allowed
    ELSE allowed

vwControls(long, s, allowed, m) ==
    IF m.id = "TSK_06" THEN
        /\ m.status # "off"
        /\ IF long THEN allowed ELSE pcm_cruise_check(m.status = "engaged", s, allowed)
    ELSE IF m.id = "GRA_ACC_01" THEN
        /\ ~m.cancel
        /\ IF long /\ setReleased(s, m) THEN s.acc_main_on ELSE allowed
    ELSE allowed

(* Tesla: tesla_rx_hook.  While Autopark runs, cruise does not count.      *)
teslaAutopark(s, m) ==
    m.autopark /\ (s.autopark \/ (~s.autopark_prev /\ ~s.cruise_engaged_prev))

(* mutant: Autopark as it was before this message *)
teslaCruiseStale(s, m) == m.cruise /\ ~s.autopark

teslaCruise(s, m) == m.cruise /\ ~teslaAutopark(s, m)

teslaSignals(s, m) ==
    IF m.id = "DI_state" THEN
        [s EXCEPT !.autopark = teslaAutopark(s, m), !.autopark_prev = m.autopark,
                  !.cruise_engaged_prev = teslaCruise(s, m)]
    ELSE IF m.id = "ESP_B"            THEN [s EXCEPT !.vehicle_moving = m.moving]
    ELSE IF m.id = "EPAS3S_sysStatus" THEN [s EXCEPT !.steering_disengage = m.on]
    ELSE IF m.id = "IBST_status"      THEN [s EXCEPT !.brake_pressed = m.on]
    ELSE s

teslaControls(s, allowed, m) ==
    IF m.id = "DI_state"   THEN pcm_cruise_check(teslaCruise(s, m), s, allowed)
    ELSE IF m.id = "ESP_B" THEN allowed /\ ~m.mismatch
    ELSE allowed

-----------------------------------------------------------------------------
(* current_hooks->rx *)
rxSignals(md, s, m) ==
    IF md = "TESLA" THEN teslaSignals(s, m)
                    ELSE vwSignals(md = "VOLKSWAGEN_MQB_LONG", s, m)

rxControls(md, s, allowed, m) ==
    IF md = "TESLA" THEN teslaControls(s, allowed, m)
                    ELSE vwControls(md = "VOLKSWAGEN_MQB_LONG", s, allowed, m)

rxButton(md, button, m) ==
    IF md = "TESLA" /\ m.id = "UI_status2"
    THEN IF m.on THEN "PRESSED" ELSE "NOT_PRESSED"
    ELSE button

(* mutant: a pedal held since standstill does not exit controls *)
generic_rx_checks_edge(allowed, prev, s) ==
    /\ allowed
    /\ ~(s.brake_pressed /\ ~prev.brake_pressed)
    /\ ~(s.steering_disengage /\ ~prev.steering_disengage)

(* What is left of controls_allowed after generic_rx_checks. *)
generic_rx_checks(allowed, prev, s) ==
    /\ allowed
    /\ ~(s.brake_pressed /\ (~prev.brake_pressed \/ s.vehicle_moving))
    /\ ~(s.steering_disengage /\ ~prev.steering_disengage)

(* What stock_ecu_check passes to aol_state_update. *)
aolInput(s, allowed, button) ==
    [acc_main |-> s.acc_main_on, op_allowed |-> allowed, braking |-> s.brake_pressed,
     steering |-> s.steering_disengage, button |-> button]

(* mutant: mismatches counted before controls were allowed are kept *)
mismatchesOnRxKept(prev, allowed, mismatches) == mismatches

mismatchesOnRx(prev, allowed, mismatches) ==
    IF allowed /\ ~prev THEN 0 ELSE mismatches

(* safety_rx_hook once the hook of the safety mode has made the signals s, *)
(* the permission allowed and the button what they are.                    *)
afterRx(s, allowed, button, stock) ==
    LET left == generic_rx_checks(allowed, sig, s)
    IN /\ sig' = s
       /\ controls_allowed' = left
       /\ aol_button_press' = button
       /\ aol' = aol_state_updates(aol, aolInput(s, left, button), relayChecks[mode])
       /\ relay_malfunction' = (relay_malfunction
                                  \/ (stock /\ safety_mode_cnt > RELAY_TRNS_TIMEOUT))
       /\ heartbeat_engaged_mismatches' =
              mismatchesOnRx(controls_allowed, left, heartbeat_engaged_mismatches)
       /\ UNCHANGED <<mode, safety_mode_cnt, heartbeatVars,
                      heartbeat_engaged_aol_mismatches>>

Rx(m) ==
    /\ is_car_safety_mode(mode)
    /\ afterRx(rxSignals(mode, sig, m), rxControls(mode, sig, controls_allowed, m),
               rxButton(mode, aol_button_press, m), m.id = "STOCK_ECU")

(* A message whose checksum, counter or quality flag is wrong: is_msg_valid *)
(* exits controls and the hook does not see it.                            *)
RxInvalid ==
    /\ is_car_safety_mode(mode)
    /\ afterRx(sig, FALSE, aol_button_press, FALSE)

-----------------------------------------------------------------------------
(* set_safety_mode.  A car mode and ELM327 count as hearing from the host. *)
heardFrom(m) == is_car_safety_mode(m) \/ m = "ELM327"

(* set_safety_hooks: everything but the AOL state and the mismatch counts  *)
(* starts again.                                                           *)
set_safety_hooks(m) ==
    /\ mode' = m
    /\ controls_allowed' = FALSE
    /\ sig' = NoSignals
    /\ relay_malfunction' = FALSE
    /\ safety_mode_cnt' = 0

set_safety_mode(m) ==
    /\ set_safety_hooks(m)
    /\ heartbeat_counter' = IF heardFrom(m) THEN 0 ELSE heartbeat_counter
    /\ heartbeat_lost' = (heartbeat_lost /\ ~heardFrom(m))
    /\ UNCHANGED <<aolVars, mismatchVars, heartbeat_disabled, heartbeat_engaged,
                   heartbeat_engaged_aol>>

(* Host request 0xdc. *)
SetSafetyMode(m) == set_safety_mode(m)

(* The harness is seen the other way round, lost or found: tick_handler    *)
(* sets the current mode again.                                            *)
HarnessChange == set_safety_mode(mode)

(* Host request 0xdf. *)
SetAlternativeExperience(cfg) ==
    /\ ~is_car_safety_mode(mode)
    /\ aol' = aol_set_system_state(aol, cfg)
    /\ UNCHANGED <<safetyVars, aol_button_press, heartbeatVars, mismatchVars>>

(* Host request 0xf3. *)
Heartbeat(r) ==
    /\ heartbeat_counter' = 0
    /\ heartbeat_lost' = FALSE
    /\ heartbeat_disabled' = FALSE
    /\ heartbeat_engaged' = r[1]
    /\ heartbeat_engaged_aol' = r[2]
    /\ UNCHANGED <<safetyVars, aolVars, mismatchVars>>

(* Host request 0xf8. *)
DisableHeartbeat ==
    /\ ~is_car_safety_mode(mode)
    /\ heartbeat_disabled' = TRUE
    /\ UNCHANGED <<safetyVars, aolVars, heartbeat_counter, heartbeat_lost,
                   heartbeat_engaged, heartbeat_engaged_aol, mismatchVars>>
-----------------------------------------------------------------------------
(* The once-a-second part of tick_handler. *)

(* mutant: the request to do without heartbeats holds in a car mode too *)
heartbeatDisabledAlways(m, disabled) == disabled

heartbeatDisabled(m, disabled) == disabled /\ ~is_car_safety_mode(m)

heartbeatLimit(started) ==
    IF started THEN HEARTBEAT_IGNITION_CNT_ON ELSE HEARTBEAT_IGNITION_CNT_OFF

(* A permission the host does not use. *)
unused(allowed, engaged) == allowed /\ ~engaged

(* mutant: the count starts again every second *)
mismatchesOnTickLost(allowed, engaged, mismatches) ==
    IF unused(allowed, engaged) THEN 1 ELSE 0

mismatchesOnTick(allowed, engaged, mismatches) ==
    IF unused(allowed, engaged) THEN min(mismatches + 1, MISMATCH_CAP) ELSE 0

(* aol_heartbeat_engaged_check *)
aol_heartbeat_engaged_check(a, engaged, mismatches) ==
    exitIf(unused(a.allowed, engaged) /\ mismatches >= MAX_MISMATCHES,
           a, "HEARTBEAT_ENGAGED_MISMATCH")

(* started: the ignition is on; lagging: a checked message has not been    *)
(* seen for too long; invalid: the last one seen was not valid.            *)
Tick(started, lagging, invalid) ==
    LET counter == min(heartbeat_counter + 1, HEARTBEAT_CAP)
        disabled == heartbeatDisabled(mode, heartbeat_disabled)
        lost    == ~disabled /\ counter >= heartbeatLimit(started)
        count   == mismatchesOnTick(controls_allowed, heartbeat_engaged,
                                    heartbeat_engaged_mismatches)
        allowed == controls_allowed /\ count < MAX_MISMATCHES
        aolCount == mismatchesOnTick(aol.allowed, heartbeat_engaged_aol,
                                     heartbeat_engaged_aol_mismatches)
        aol1    == aol_heartbeat_engaged_check(aol, heartbeat_engaged_aol, aolCount)
        silence == lost /\ mode # "SILENT"
        checked == is_car_safety_mode(mode) /\ ~silence    \* safety_tick has rx_checks
        nextcnt == min((IF silence THEN 0 ELSE safety_mode_cnt) + 1, SAFETY_MODE_CAP)
    IN /\ heartbeat_counter' = counter
       /\ heartbeat_disabled' = disabled
       /\ heartbeat_engaged_mismatches' = count
       /\ heartbeat_engaged_aol_mismatches' = aolCount
       /\ heartbeat_lost' = (heartbeat_lost \/ (lost /\ is_car_safety_mode(mode)))
       /\ heartbeat_engaged' = (heartbeat_engaged /\ ~lost)
       /\ mode' = IF silence THEN "SILENT" ELSE mode
       /\ sig' = IF silence THEN NoSignals ELSE sig
       /\ relay_malfunction' = (relay_malfunction /\ ~silence)
       /\ controls_allowed' = (allowed /\ ~silence /\ ~(checked /\ (lagging \/ invalid)))
       /\ aol' = exitIf(checked /\ lagging, aol1, "LAG")
       /\ safety_mode_cnt' = nextcnt
       /\ UNCHANGED <<aol_button_press, heartbeat_engaged_aol>>

-----------------------------------------------------------------------------
Init ==
    /\ mode = "SILENT"
    /\ controls_allowed = FALSE
    /\ sig = NoSignals
    /\ aol_button_press = "UNAVAILABLE"
    /\ aol = AolBoot
    /\ relay_malfunction = FALSE
    /\ safety_mode_cnt = 0
    /\ heartbeat_counter = 0 /\ heartbeat_lost = FALSE /\ heartbeat_disabled = FALSE
    /\ heartbeat_engaged = FALSE /\ heartbeat_engaged_aol = FALSE
    /\ heartbeat_engaged_mismatches = 0 /\ heartbeat_engaged_aol_mismatches = 0

ReceiveStep == (\E m \in Messages(mode) : Rx(m)) \/ RxInvalid
TickStep    == \E started, lagging, invalid \in BOOLEAN : Tick(started, lagging, invalid)
HostStep    == \/ \E m \in SafetyMode : SetSafetyMode(m)
               \/ \E cfg \in AolConfigs : SetAlternativeExperience(cfg)
               \/ \E r \in Reports : Heartbeat(r)
               \/ DisableHeartbeat

Next == ReceiveStep \/ TickStep \/ HarnessChange \/ HostStep

Spec == Init /\ [][Next]_vars

(* The tick timer does not stop. *)
FairSpec == Spec /\ WF_vars(TickStep)

-----------------------------------------------------------------------------
TypeOK ==
    /\ mode \in SafetyMode
    /\ controls_allowed \in BOOLEAN
    /\ sig \in Signals
    /\ aol_button_press \in ButtonState
    /\ aol \in AolState
    /\ relay_malfunction \in BOOLEAN
    /\ safety_mode_cnt \in 0 .. SAFETY_MODE_CAP
    /\ heartbeat_counter \in 0 .. HEARTBEAT_CAP
    /\ heartbeat_lost \in BOOLEAN
    /\ heartbeat_disabled \in BOOLEAN
    /\ heartbeat_engaged \in BOOLEAN
    /\ heartbeat_engaged_aol \in BOOLEAN
    /\ heartbeat_engaged_mismatches \in 0 .. MAX_MISMATCHES
    /\ heartbeat_engaged_aol_mismatches \in 0 .. MISMATCH_CAP

(* A panda in a car mode has heard from the host less than                 *)
(* HEARTBEAT_IGNITION_CNT_ON seconds ago: no order of mode changes, of     *)
(* requests to do without heartbeats and of ticks keeps the car's commands *)
(* flowing from a host that has gone.                                      *)
CarModeHasHost == is_car_safety_mode(mode) => heartbeat_counter < HEARTBEAT_IGNITION_CNT_ON

(* Controls a host has not used for MAX_MISMATCHES seconds are not allowed *)
(* any more, and a fresh permission starts with a fresh count.             *)
UnusedControlsExit == controls_allowed => heartbeat_engaged_mismatches < MAX_MISMATCHES

(* A moving car with its brake pressed allows no controls, whichever of    *)
(* the pedal and the motion the panda hears of last.                       *)
BrakeStopsControls ==
    ~(controls_allowed /\ sig.brake_pressed /\ sig.vehicle_moving)

(* On a Volkswagen, controls are allowed only with the main switch on,     *)
(* however engagement was asked for.                                       *)
ControlsNeedMain ==
    controls_allowed /\ mode # "TESLA" => sig.acc_main_on

(* On a Tesla, controls are allowed only while the car's own cruise is on  *)
(* and never during Autopark, whichever of the two is seen first.          *)
ControlsNeedCruise ==
    controls_allowed /\ mode = "TESLA" => sig.cruise_engaged_prev /\ ~sig.autopark

(* With pause on brake, AOL does not steer a braking car, also when it was *)
(* asked for while braking.                                                *)
PauseHoldsWhileBraking ==
    aol.pause_on_brake /\ aol.allowed => ~sig.brake_pressed

(* Without pause on brake, AOL steers a Volkswagen only while the main     *)
(* switch it last saw is on.                                               *)
AolNeedsMain ==
    mode \in {"VOLKSWAGEN_MQB", "VOLKSWAGEN_MQB_LONG"} /\ ~aol.pause_on_brake /\ aol.allowed
        => aol.acc_main

(* On a Volkswagen without pause on brake, how often safety_rx_hook        *)
(* repeats the AOL update for one message (3 or 6 times) does not matter:  *)
(* no call undoes what the edges of the first decided.  A pending request, *)
(* which pause on brake or a remembered button can leave, breaks this: the *)
(* next call grants what the first one blocked.                            *)
RepeatedUpdatesAgree ==
    mode \in {"VOLKSWAGEN_MQB", "VOLKSWAGEN_MQB_LONG"} /\ ~aol.pause_on_brake =>
      LET input(m) ==
            LET s    == rxSignals(mode, sig, m)
                left == generic_rx_checks(rxControls(mode, sig, controls_allowed, m), sig, s)
            IN aolInput(s, left, rxButton(mode, aol_button_press, m))
      IN \A in \in {input(m) : m \in Messages(mode)} :
           aol_state_updates(aol, in, relayChecks[mode]) = aol_state_update(aol, in)

(* test_brake_disengage_with_acc_main_off says that AOL stays off when the *)
(* brake is released after the main switch was turned off while braking.   *)
PausedAolNeedsMain ==
    mode \in {"VOLKSWAGEN_MQB", "VOLKSWAGEN_MQB_LONG"} /\ aol.pause_on_brake /\ aol.allowed
        => aol.acc_main

(* A host that has gone loses the car: a car mode without heartbeats ends. *)
HostLossEnds == is_car_safety_mode(mode) ~> (~is_car_safety_mode(mode) \/ heartbeat_counter = 0)

(* Controls the host does not use are withdrawn.                           *)
UnusedControlsEnd == unused(controls_allowed, heartbeat_engaged)
                         ~> ~unused(controls_allowed, heartbeat_engaged)

(* So is an AOL permission the host does not use, although its count is    *)
(* not started again when it is granted.                                   *)
UnusedAolEnds == unused(aol.allowed, heartbeat_engaged_aol)
                     ~> ~unused(aol.allowed, heartbeat_engaged_aol)
=============================================================================
