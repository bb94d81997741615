-------------------------- MODULE SelfdriveDProofs --------------------------
(***************************************************************************)
(* What holds of selfdrived for every car, every set of carState messages  *)
(* and system events, and every value of the two time limits.              *)
(*                                                                         *)
(* The second part is about when Always-On Lateral comes on and when it    *)
(* lets go, in every interleaving with the thread that refreshes the       *)
(* parameters.  All of it rests on what the stages of AolEvents leave of a *)
(* frame's events; a lemma for each stage says what it does to the events  *)
(* that decide: the enable events, the pedal, and AOL's own enable and     *)
(* disable.                                                                *)
(***************************************************************************)
EXTENDS SelfdriveD, TLAPS

(* Nothing is engaged before selfdrived is initialized or in dashcam mode, *)
(* and AOL only where it is configured.                                    *)
EngagedOnlyWhenRunning ==
    /\ enabled \/ aolEnabled => initialized /\ ~cp.passive
    /\ aolEnabled => cp.aolEnabled

(* The inductive invariant.  The type invariant bounds mismatch_counter by *)
(* the limit, which needs MismatchDisengages (the counter grows only while *)
(* engaged), which in turn needs EngagedOnlyWhenRunning (an engaged        *)
(* selfdrived does evaluate the mismatch event in every frame).            *)
IInv == TypeOK /\ MismatchDisengages /\ SoftDisableHasTime /\ EngagedOnlyWhenRunning

-----------------------------------------------------------------------------
(* The engagement machine stays within its states, whatever the types.     *)
LEMMA NextStateType ==
    ASSUME NEW st \in States, NEW t, NEW T
    PROVE  nextState(st, t, T) \in States
  BY DEF nextState, entryState, runningState, softDisablingState, States, ENABLED_STATES, ACTIVE_STATES

(* A tick keeps the timer in range and takes one frame off a running one.   *)
LEMMA TickType ==
    ASSUME NEW t \in 0 .. SOFT_DISABLE_TIME
    PROVE  /\ tick(t) \in 0 .. SOFT_DISABLE_TIME
           /\ t > 0 => tick(t) = t - 1
  BY SoftDisableTimeAssumption DEF tick

(* So does a frame of the engagement machine, which may also restart it.    *)
LEMMA NextTimerType ==
    ASSUME NEW st, NEW t \in 0 .. SOFT_DISABLE_TIME, NEW T
    PROVE  nextTimer(st, t, T) \in 0 .. SOFT_DISABLE_TIME
  BY TickType, SoftDisableTimeAssumption DEF nextTimer

(* softDisabling is entered with a full timer and kept only with time left. *)
LEMMA SoftDisablingHasTime ==
    ASSUME NEW st \in States, NEW t \in 0 .. SOFT_DISABLE_TIME, NEW T,
           nextState(st, tick(t), T) = "softDisabling"
    PROVE  nextTimer(st, t, T) > 0
  <1>1. CASE st # "softDisabling"
    BY <1>1, SoftDisableTimeAssumption DEF nextTimer
  <1>2. CASE st = "softDisabling"
    <2>1. tick(t) > 0
      BY <1>2 DEF nextState, softDisablingState
    <2> QED  BY <1>2, <2>1 DEF nextTimer
  <1> QED  BY <1>1, <1>2

(* A user or immediate disable event leaves the machine disabled: it is    *)
(* disabled from any other state, and none of these events lets it enter   *)
(* ("noEntry") when it is disabled.                                        *)
LEMMA StopLeavesDisabled ==
    ASSUME NEW st \in States, NEW t, NEW T, stopNow(T), "noEntry" \in T
    PROVE  nextState(st, t, T) = "disabled"
  BY DEF nextState, entryState, runningState, softDisablingState, States, ENABLED_STATES, ACTIVE_STATES

(* The events of immediateNoEntryEvents do both.                           *)
LEMMA ImmediateTypes ==
    ASSUME NEW evs, NEW e \in immediateNoEntryEvents, e \in evs
    PROVE  stopNow(typesOf(evs, EVENTS)) /\ "noEntry" \in typesOf(evs, EVENTS)
  <1>1. e \in EVENTS["immediateDisable"]
    BY DEF EVENTS
  <1>2. e \in EVENTS["noEntry"]
    BY DEF EVENTS
  <1>3. {"immediateDisable", "noEntry"} \subseteq DOMAIN EVENTS
    BY DEF EVENTS
  <1>4. {"immediateDisable", "noEntry"} \subseteq typesOf(evs, EVENTS)
    BY <1>1, <1>2, <1>3 DEF typesOf, contains
  <1> QED  BY <1>4 DEF stopNow

(* The alert types of a frame are event types.                             *)
LEMMA AlertTypesType ==
    ASSUME NEW st, NEW t, NEW T
    PROVE  alertTypes(st, t, T) \subseteq ET
  BY DEF alertTypes, When, ET

(* AOL stays within its states, whatever the pulse.                         *)
LEMMA AolNextStateType ==
    ASSUME NEW st \in AolStates, NEW p, NEW t
    PROVE  aolNextState(st, p, t) \in AolStates
  BY DEF aolNextState, handleDisabled, handlePaused, handleRunning,
         handleSoftDisabling, running, forcedState, AolStates,
         LATERAL_CONTROLLED_STATES, TORQUE_DELIVERING_STATES

(* AOL keeps the shared timer in range, never shortens it, and leaves it   *)
(* alone while the engagement machine is engaged.                          *)
LEMMA AolTimerType ==
    ASSUME NEW st, NEW p, NEW t \in 0 .. SOFT_DISABLE_TIME, NEW e
    PROVE  /\ aolTimer(st, p, t, e) \in 0 .. SOFT_DISABLE_TIME
           /\ aolTimer(st, p, t, e) >= t
           /\ e => aolTimer(st, p, t, e) = t
  BY SoftDisableTimeAssumption DEF aolTimer

(* The alert types that AOL appends are event types.                       *)
LEMMA AolAlertsType ==
    ASSUME NEW st, NEW p, NEW t, NEW e
    PROVE  aolAlerts(st, p, t, e) \subseteq ET
  BY DEF aolAlerts, When, ET

-----------------------------------------------------------------------------
(* A frame's mismatch counter: it may reach the limit, never pass it.      *)
LEMMA SampledMismatches ==
    ASSUME TypeOK, MismatchDisengages, NEW c \in sampledMismatches
    PROVE  c \in 0 .. MISMATCH_LIMIT
  BY InputsAssumption DEF TypeOK, MismatchDisengages, sampledMismatches

(* What the engagement machine returns in a frame.                         *)
MachineOK(m, run, c) ==
    /\ m.state \in States
    /\ m.timer \in 0 .. SOFT_DISABLE_TIME
    /\ m.alerts \subseteq ET
    /\ m.enabled = (m.state \in ENABLED_STATES)
    /\ m.active = (m.state \in ACTIVE_STATES)
    /\ m.state = "softDisabling" => m.timer > 0
    /\ m.enabled => run /\ c < MISMATCH_LIMIT

(* A frame's mismatch event disengages before the counter passes the limit, *)
(* and a machine that does not run is not engaged.                          *)
LEMMA MachineStep ==
    ASSUME IInv, NEW cs, NEW sys, NEW init \in BOOLEAN, initialized => init,
           NEW c \in sampledMismatches
    PROVE  MachineOK(updateMachine(updateEvents(cs, sys, init, c), init /\ ~cp.passive),
                     init /\ ~cp.passive, c)
  <1> DEFINE run == init /\ ~cp.passive
             evs == updateEvents(cs, sys, init, c)
             T   == typesOf(evs, EVENTS)
             m   == updateMachine(evs, run)
  <1>1. CASE ~run
    <2>1. m = [state |-> state, timer |-> soft_disable_timer,
               alerts |-> current_alert_types, enabled |-> enabled, active |-> active]
      BY <1>1 DEF updateMachine
    <2>2. ~enabled
      BY <1>1 DEF IInv, EngagedOnlyWhenRunning
    <2> QED  BY <2>1, <2>2 DEF MachineOK, IInv, TypeOK, SoftDisableHasTime
  <1>2. CASE run
    <2> DEFINE new == nextState(state, tick(soft_disable_timer), T)
    <2>1. m = [state   |-> new,
               timer   |-> nextTimer(state, soft_disable_timer, T),
               alerts  |-> alertTypes(state, soft_disable_timer, T),
               enabled |-> new \in ENABLED_STATES,
               active  |-> new \in ACTIVE_STATES]
      BY <1>2 DEF updateMachine
    <2>2. state \in States /\ soft_disable_timer \in 0 .. SOFT_DISABLE_TIME
      BY DEF IInv, TypeOK
    <2>3. new \in States
      BY <2>2, NextStateType
    <2>4. nextTimer(state, soft_disable_timer, T) \in 0 .. SOFT_DISABLE_TIME
      BY <2>2, NextTimerType
    <2>5. new = "softDisabling" => nextTimer(state, soft_disable_timer, T) > 0
      BY <2>2, SoftDisablingHasTime
    <2>6. alertTypes(state, soft_disable_timer, T) \subseteq ET
      BY AlertTypesType
    <2>7. new \in ENABLED_STATES => c < MISMATCH_LIMIT
      <3>1. SUFFICES ASSUME c >= MISMATCH_LIMIT PROVE new = "disabled"
        <4>1. c \in Nat /\ MISMATCH_LIMIT \in Nat
          BY SampledMismatches, InputsAssumption DEF IInv
        <4> QED  BY <4>1 DEF ENABLED_STATES, ACTIVE_STATES
      <3>2. "controlsMismatch" \in evs
        BY <1>2, <3>1 DEF updateEvents, mismatchEvents, When
      <3>3. "controlsMismatch" \in immediateNoEntryEvents
        BY DEF immediateNoEntryEvents
      <3> QED  BY <3>2, <3>3, <2>2, ImmediateTypes, StopLeavesDisabled
    <2>8. /\ m.state = new
          /\ m.timer = nextTimer(state, soft_disable_timer, T)
          /\ m.alerts = alertTypes(state, soft_disable_timer, T)
          /\ m.enabled = (new \in ENABLED_STATES)
          /\ m.active = (new \in ACTIVE_STATES)
      BY <2>1
    <2> HIDE DEF new, m, T
    <2>9. m.state = "softDisabling" => m.timer > 0
      BY <2>5, <2>8
    <2>10. m.enabled => run /\ c < MISMATCH_LIMIT
      BY <1>2, <2>7, <2>8
    <2>11. MachineOK(m, run, c)
      BY <2>3, <2>4, <2>6, <2>8, <2>9, <2>10 DEF MachineOK
    <2> QED  BY <2>11 DEF m
  <1> QED  BY <1>1, <1>2

(* What AOL makes of it: its own state and flags, and a shared timer that  *)
(* is still in range and that an engaged selfdrived keeps.                 *)
LEMMA AolStep ==
    ASSUME IInv, NEW cs, NEW evs, NEW m, NEW run \in BOOLEAN, updateAol(cs, evs, m, run),
           m.timer \in 0 .. SOFT_DISABLE_TIME, m.alerts \subseteq ET,
           m.enabled \in BOOLEAN
    PROVE  /\ aolState' \in AolStates
           /\ aolEnabled' = (aolState' \in LATERAL_CONTROLLED_STATES)
           /\ aolActive' = (aolState' \in TORQUE_DELIVERING_STATES)
           /\ soft_disable_timer' \in 0 .. SOFT_DISABLE_TIME
           /\ m.enabled => soft_disable_timer' = m.timer
           /\ current_alert_types' \subseteq ET
           /\ enabled_prev' \in BOOLEAN
           /\ aolEnabled' => (run /\ cp.aolEnabled) \/ aolEnabled
  <1>1. CASE run /\ cp.aolEnabled
    <2>1. PICK p : /\ aolState' = aolNextState(aolState, p, m.timer)
                   /\ soft_disable_timer' = aolTimer(aolState, p, m.timer, m.enabled)
                   /\ current_alert_types' =
                        m.alerts \cup aolAlerts(aolState, p, m.timer, m.enabled)
      BY <1>1 DEF updateAol
    <2>2. aolState' \in AolStates
      BY <2>1, AolNextStateType DEF IInv, TypeOK
    <2>3. /\ soft_disable_timer' \in 0 .. SOFT_DISABLE_TIME
          /\ m.enabled => soft_disable_timer' = m.timer
      BY <2>1, AolTimerType
    <2>4. current_alert_types' \subseteq ET
      BY <2>1, AolAlertsType
    <2> QED  BY <1>1, <2>2, <2>3, <2>4 DEF updateAol
  <1>2. CASE ~(run /\ cp.aolEnabled)
    <2>1. /\ soft_disable_timer' = m.timer
          /\ current_alert_types' = m.alerts
          /\ enabled_prev' = IF cp.aolEnabled THEN m.enabled ELSE enabled_prev
          /\ UNCHANGED <<aolState, aolEnabled, aolActive>>
      BY <1>2 DEF updateAol
    <2> QED  BY <2>1 DEF IInv, TypeOK
  <1> QED  BY <1>1, <1>2

(* A frame keeps the inductive invariant.                                  *)
LEMMA StepPreservesIInv == IInv /\ Step => IInv'
  <1> SUFFICES ASSUME IInv, Step PROVE IInv'
    OBVIOUS
  <1>0. initialized' \in {initialized, TRUE}
    BY DEF Step
  <1>1. initialized' \in BOOLEAN /\ (initialized => initialized')
    BY <1>0 DEF IInv, TypeOK
  <1> DEFINE run == initialized' /\ ~cp.passive
  <1>2. PICK cs \in CarStates \cup {CS_prev}, sys \in SystemEvents :
           /\ frame' = 1 - frame
           /\ mismatch_counter' \in sampledMismatches
           /\ \E evs \in {updateEvents(cs, sys, initialized', mismatch_counter')} :
              \E m \in {updateMachine(evs, run)} :
                /\ state' = m.state /\ enabled' = m.enabled /\ active' = m.active
                /\ updateAol(cs, evs, m, run)
           /\ CS_prev' = cs
           /\ UNCHANGED <<cp, cached>>
    BY DEF Step
  <1> DEFINE evs == updateEvents(cs, sys, initialized', mismatch_counter')
             m   == updateMachine(evs, run)
  <1>3. /\ state' = m.state /\ enabled' = m.enabled /\ active' = m.active
        /\ updateAol(cs, evs, m, run)
    BY <1>2
  <1>4. MachineOK(m, run, mismatch_counter')
    BY <1>1, <1>2, MachineStep
  <1> HIDE DEF m, evs
  <1>5. /\ aolState' \in AolStates
        /\ aolEnabled' = (aolState' \in LATERAL_CONTROLLED_STATES)
        /\ aolActive' = (aolState' \in TORQUE_DELIVERING_STATES)
        /\ soft_disable_timer' \in 0 .. SOFT_DISABLE_TIME
        /\ m.enabled => soft_disable_timer' = m.timer
        /\ current_alert_types' \subseteq ET
        /\ enabled_prev' \in BOOLEAN
        /\ aolEnabled' => (run /\ cp.aolEnabled) \/ aolEnabled
    <2>1. /\ m.timer \in 0 .. SOFT_DISABLE_TIME
          /\ m.alerts \subseteq ET
          /\ m.enabled \in BOOLEAN
      BY <1>4 DEF MachineOK
    <2>2. run \in BOOLEAN
      BY <1>1
    <2> HIDE DEF run
    <2> QED  BY <1>3, <2>1, <2>2, AolStep
  <1>6. mismatch_counter' \in 0 .. MISMATCH_LIMIT
    BY <1>2, SampledMismatches DEF IInv
  <1>7. cp' = cp /\ CS_prev' \in CarStates \cup {NoCarState}
        /\ unified' = unified /\ mainToggle' = mainToggle
        /\ disengage_on_accelerator' = disengage_on_accelerator
        /\ frame' \in {0, 1}
    BY <1>2 DEF cached, IInv, TypeOK
  <1>8. TypeOK'
    BY <1>1, <1>3, <1>4, <1>5, <1>6, <1>7 DEF MachineOK, IInv, TypeOK
  <1>9. MismatchDisengages'
    BY <1>3, <1>4 DEF MachineOK, MismatchDisengages
  <1>10. SoftDisableHasTime'
    BY <1>3, <1>4, <1>5 DEF MachineOK, SoftDisableHasTime, ENABLED_STATES, ACTIVE_STATES
  <1>11. EngagedOnlyWhenRunning'
    BY <1>1, <1>3, <1>4, <1>5, <1>7 DEF MachineOK, IInv, EngagedOnlyWhenRunning
  <1> QED  BY <1>8, <1>9, <1>10, <1>11 DEF IInv

(* Refreshing a cached parameter touches no machine.                       *)
LEMMA ParamsThreadPreservesIInv == IInv /\ ParamsThread => IInv'
  <1> SUFFICES ASSUME IInv, ParamsThread PROVE IInv'
    OBVIOUS
  <1>1. unified' \in BOOLEAN /\ mainToggle' \in BOOLEAN
        /\ disengage_on_accelerator' \in BOOLEAN
    BY DEF ParamsThread, IInv, TypeOK
  <1>2. UNCHANGED <<cp, frame, initialized, state, soft_disable_timer, current_alert_types,
                    enabled, active, mismatch_counter, aolState, aolEnabled,
                    aolActive, enabled_prev, CS_prev>>
    BY DEF ParamsThread, machine, aol
  <1> QED  BY <1>1, <1>2 DEF IInv, TypeOK, MismatchDisengages, SoftDisableHasTime,
                             EngagedOnlyWhenRunning

(* A stuttering step changes nothing that the invariant reads.             *)
LEMMA StutterPreservesIInv == IInv /\ UNCHANGED vars => IInv'
  BY DEF vars, machine, aol, cached, IInv, TypeOK, MismatchDisengages,
         SoftDisableHasTime, EngagedOnlyWhenRunning

(* selfdrived starts disengaged, with both machines off.                   *)
LEMMA InitIInv == Init => IInv
  <1> SUFFICES ASSUME Init PROVE IInv
    OBVIOUS
  <1>1. disengage_on_accelerator \in BOOLEAN
    BY InputsAssumption DEF Init, CarType
  <1>2. state \in States /\ state \notin ENABLED_STATES /\ state \notin ACTIVE_STATES
    BY DEF Init, States, ENABLED_STATES, ACTIVE_STATES
  <1>3. /\ aolState \in AolStates
        /\ aolState \notin LATERAL_CONTROLLED_STATES
        /\ aolState \notin TORQUE_DELIVERING_STATES
    BY DEF Init, AolStates, LATERAL_CONTROLLED_STATES, TORQUE_DELIVERING_STATES
  <1>5. /\ enabled = FALSE /\ (state \in ENABLED_STATES) = FALSE
        /\ active = FALSE /\ (state \in ACTIVE_STATES) = FALSE
        /\ aolEnabled = FALSE /\ (aolState \in LATERAL_CONTROLLED_STATES) = FALSE
        /\ aolActive = FALSE /\ (aolState \in TORQUE_DELIVERING_STATES) = FALSE
    BY <1>2, <1>3 DEF Init
  <1>6. /\ soft_disable_timer \in 0 .. SOFT_DISABLE_TIME
        /\ mismatch_counter \in 0 .. MISMATCH_LIMIT
        /\ current_alert_types \subseteq ET
    BY InputsAssumption, SoftDisableTimeAssumption DEF Init, ET
  <1>4. TypeOK
    BY <1>1, <1>2, <1>3, <1>5, <1>6, Zenon DEF Init, TypeOK
  <1> QED  BY <1>4 DEF Init, IInv, MismatchDisengages, SoftDisableHasTime,
                       EngagedOnlyWhenRunning

(* The inductive invariant holds throughout.                               *)
THEOREM Invariance == Spec => []IInv
  <1>1. IInv /\ [Next]_vars => IInv'
    BY StepPreservesIInv, ParamsThreadPreservesIInv, StutterPreservesIInv DEF Next
  <1> QED  BY InitIInv, <1>1, PTL DEF Spec

(* Type correctness of selfdrived, its mismatch counter and timer bounded. *)
THEOREM TypeCorrect == Spec => []TypeOK
  BY Invariance, PTL DEF IInv

(* Engagement never outlives MISMATCH_LIMIT frames of panda refusal.       *)
THEOREM MismatchSafety == Spec => []MismatchDisengages
  BY Invariance, PTL DEF IInv

(* softDisabling never lasts beyond its timer.                             *)
THEOREM SoftDisableSafety == Spec => []SoftDisableHasTime
  BY Invariance, PTL DEF IInv

-----------------------------------------------------------------------------
(* In a soft disabling frame AOL leaves the engagement machine's timer to  *)
(* that machine, which takes one frame off it.                             *)
LEMMA SoftDisablingStep ==
    ASSUME IInv, Step, IsFrame, state = "softDisabling", state' = "softDisabling"
    PROVE  soft_disable_timer' = soft_disable_timer - 1
  <1> DEFINE run == initialized' /\ ~cp.passive
  <1>1. PICK cs \in CarStates \cup {CS_prev}, sys \in SystemEvents :
           \E evs \in {updateEvents(cs, sys, initialized', mismatch_counter')} :
           \E m \in {updateMachine(evs, run)} :
              state' = m.state /\ updateAol(cs, evs, m, run)
    BY DEF Step
  <1> DEFINE evs == updateEvents(cs, sys, initialized', mismatch_counter')
             m   == updateMachine(evs, run)
             T   == typesOf(evs, EVENTS)
  <1>2. state' = m.state /\ updateAol(cs, evs, m, run)
    BY <1>1
  <1>3. run
    BY DEF IsFrame
  <1>4. /\ m.timer = nextTimer(state, soft_disable_timer, T)
        /\ m.enabled = (m.state \in ENABLED_STATES)
    BY <1>3 DEF updateMachine
  <1>5. m.timer = soft_disable_timer - 1
    <2>1. nextTimer(state, soft_disable_timer, T) = tick(soft_disable_timer)
      BY DEF nextTimer
    <2>2. soft_disable_timer \in 0 .. SOFT_DISABLE_TIME /\ soft_disable_timer > 0
      BY DEF IInv, TypeOK, SoftDisableHasTime
    <2> QED  BY <1>4, <2>1, <2>2, TickType
  <1> HIDE DEF m, evs, T
  <1>6. m.enabled
    BY <1>2, <1>4 DEF ENABLED_STATES, ACTIVE_STATES
  <1>7. soft_disable_timer' = m.timer
    BY <1>2, <1>6 DEF updateAol, aolTimer
  <1> QED  BY <1>5, <1>7

(* Nothing, AOL included, extends a soft disable of the engagement machine. *)
THEOREM SoftDisableRuns == Spec => SoftDisableRunsOut
  <1> DEFINE A == IsFrame /\ state = "softDisabling" /\ state' = "softDisabling"
                    => soft_disable_timer' = soft_disable_timer - 1
  <1>1. IInv /\ [Next]_vars => [A]_vars
    <2>1. ASSUME IInv, Step PROVE A
      BY <2>1, SoftDisablingStep
    <2>2. ASSUME ParamsThread PROVE A
      BY <2>2 DEF ParamsThread, IsFrame
    <2> QED  BY <2>1, <2>2 DEF Next
  <1> QED  BY <1>1, Invariance, PTL DEF Spec, SoftDisableRunsOut

-----------------------------------------------------------------------------
(* A lost CAN bus.  Keeps(x): x is a pair of event sets of a frame in which *)
(* the CAN bus is missing.                                                  *)
Keeps(x) == x = [evs |-> x.evs, iq |-> x.iq] /\ "canBusMissing" \in x.evs

(* The two ways a stage changes a pair.                                    *)
LEMMA AddKeeps ==
    ASSUME NEW x, Keeps(x), NEW names
    PROVE  Keeps(addIQ(x, names))
  BY DEF Keeps, addIQ

(* Only a stage that names the event can remove it.                        *)
LEMMA RemoveKeeps ==
    ASSUME NEW x, Keeps(x), NEW names, "canBusMissing" \notin names
    PROVE  Keeps(removeStock(x, names))
  BY DEF Keeps, removeStock

(* No stage of AOL's rewriting removes it.                                 *)
LEMMA RewritingKeeps ==
    ASSUME NEW f, NEW x, Keeps(x)
    PROVE  Keeps(aolUpdateEvents(f, x))
  <1>1. ASSUME NEW y, Keeps(y) PROVE Keeps(soloStage(f, y))
    <2> DEFINE silent == silencedAs(f)
               hit    == {e \in y.evs \cap DOMAIN silent : silent[e] # {}}
               muted  == {"preEnableStandstill", "belowEngageSpeed", "speedTooLow",
                          "cruiseDisabled", "manualRestart"}
    <2>1. "canBusMissing" \notin DOMAIN silent
      BY DEF silencedAs
    <2>2. "canBusMissing" \notin hit \cup muted
      BY <2>1
    <2>3. Keeps(removeStock(y, hit \cup muted))
      BY <1>1, <2>2, RemoveKeeps
    <2>4. PICK names : soloStage(f, y) \in {y, addIQ(removeStock(y, hit \cup muted), names)}
      BY DEF soloStage
    <2> QED  BY <1>1, <2>3, <2>4, AddKeeps
  <1>2. ASSUME NEW y, Keeps(y) PROVE Keeps(wrongCarModeStage(f, y))
    <2>1. Keeps(removeStock(y, {"wrongCarMode"}))
      BY <1>2, RemoveKeeps
    <2> QED  BY <2>1, AddKeeps DEF wrongCarModeStage
  <1>3. ASSUME NEW y, Keeps(y) PROVE Keeps(engageStage(f, y))
    <2> DEFINE names == IF blockUnifiedEngagementMode(f)
                        THEN {"pcmEnable", "buttonEnable"} ELSE {}
    <2>1. Keeps(removeStock(y, names))
      BY <1>3, RemoveKeeps
    <2> QED  BY <1>3, <2>1, AddKeeps DEF engageStage
  <1>4. ASSUME NEW y, Keeps(y) PROVE Keeps(buttonStage(f, y))
    BY <1>4, AddKeeps DEF buttonStage
  <1>5. ASSUME NEW y, Keeps(y) PROVE Keeps(availabilityStage(f, y))
    <2>1. Keeps(removeStock(y, {"buttonEnable"}))
      BY <1>5, RemoveKeeps
    <2> QED  BY <1>5, <2>1, AddKeeps DEF availabilityStage
  <1>6. ASSUME NEW y, Keeps(y) PROVE Keeps(cancelStage(f, y))
    BY <1>6, AddKeeps DEF cancelStage
  <1>7. ASSUME NEW y, Keeps(y) PROVE Keeps(resumeStage(f, y))
    BY <1>7, AddKeeps DEF resumeStage
  <1>8. ASSUME NEW y, Keeps(y) PROVE Keeps(ignoreStage(y))
    BY <1>8, RemoveKeeps DEF ignoreStage
  <1>9. Keeps(wrongCarModeStage(f, soloStage(f, x)))
    BY <1>1, <1>2
  <1>10. Keeps(buttonStage(f, engageStage(f, wrongCarModeStage(f, soloStage(f, x)))))
    BY <1>9, <1>3, <1>4
  <1> QED  BY <1>10, <1>5, <1>6, <1>7, <1>8 DEF aolUpdateEvents

(* An immediate disable event in the pulse leaves AOL off or paused: it    *)
(* also closes the gate.                                                   *)
LEMMA CutStopsAol ==
    ASSUME NEW st \in AolStates, NEW p, NEW t, p.cut = TRUE, p.gate = TRUE
    PROVE  aolNextState(st, p, t) \notin TORQUE_DELIVERING_STATES
  BY DEF aolNextState, handleDisabled, handlePaused, handleRunning, forced,
         handleSoftDisabling, forcedState, TORQUE_DELIVERING_STATES

(* A frame without a CAN bus, the event not muted.                         *)
LEMMA CanLossStep ==
    ASSUME IInv, Step, IsFrame, CS_prev'.canTimeout,
           ~(CS_prev'.gearShifter = "park" /\ aolEnabled)
    PROVE  ~active' /\ ~aolActive'
  <1> DEFINE run == initialized' /\ ~cp.passive
  <1>1. PICK cs \in CarStates \cup {CS_prev}, sys \in SystemEvents :
           /\ \E evs \in {updateEvents(cs, sys, initialized', mismatch_counter')} :
              \E m \in {updateMachine(evs, run)} :
                 active' = m.active /\ updateAol(cs, evs, m, run)
           /\ CS_prev' = cs
    BY DEF Step
  <1> DEFINE evs == updateEvents(cs, sys, initialized', mismatch_counter')
             m   == updateMachine(evs, run)
             T   == typesOf(evs, EVENTS)
  <1>2. active' = m.active /\ updateAol(cs, evs, m, run)
    BY <1>1
  <1>3. run
    BY DEF IsFrame
  <1>4. "canBusMissing" \in evs
    BY <1>1, <1>3 DEF updateEvents, canEvents, When
  <1>5. "canBusMissing" \in immediateNoEntryEvents
    BY DEF immediateNoEntryEvents
  <1>6. ~active'
    <2>1. m.active = (nextState(state, tick(soft_disable_timer), T) \in ACTIVE_STATES)
      BY <1>3 DEF updateMachine
    <2>2. nextState(state, tick(soft_disable_timer), T) = "disabled"
      <3>1. stopNow(T) /\ "noEntry" \in T
        BY <1>4, <1>5, ImmediateTypes
      <3>2. state \in States
        BY DEF IInv, TypeOK
      <3> HIDE DEF T
      <3> QED  BY <3>1, <3>2, StopLeavesDisabled
    <2> QED  BY <1>2, <2>1, <2>2 DEF ACTIVE_STATES
  <1> HIDE DEF m
  <1>7. ~aolActive'
    <2>1. CASE ~cp.aolEnabled
      <3>1. aolActive' = aolActive
        BY <1>2, <2>1 DEF updateAol
      <3>2. ~aolEnabled
        BY <2>1 DEF IInv, EngagedOnlyWhenRunning
      <3>3. ~aolActive
        BY <3>2 DEF IInv, TypeOK, LATERAL_CONTROLLED_STATES
      <3> QED  BY <3>1, <3>3
    <2>2. CASE cp.aolEnabled
      <3>1. PICK p \in {aolPulse(cs, evs, m.enabled)} :
               aolState' = aolNextState(aolState, p, m.timer)
        BY <1>2, <1>3, <2>2 DEF updateAol
      <3>2. aolActive' = (aolState' \in TORQUE_DELIVERING_STATES)
        BY <1>2, <1>3, <2>2 DEF updateAol
      <3>3. p.cut = TRUE /\ p.gate = TRUE
        <4>1. PICK x : Keeps(x) /\ p = capturePulse(x.evs, x.iq)
          <5> DEFINE x0 == [evs |-> evs, iq |-> {}]
          <5>1. Keeps(x0)
            BY <1>4 DEF Keeps
          <5> HIDE DEF x0
          <5>2. PICK f : p = capturePulse(aolUpdateEvents(f, x0).evs, aolUpdateEvents(f, x0).iq)
            BY <3>1 DEF aolPulse, x0
          <5> QED  BY <5>1, <5>2, RewritingKeeps
        <4>2. contains(x.evs, EVENTS, "immediateDisable") /\ contains(x.evs, EVENTS, "noEntry")
          BY <4>1, <1>5 DEF contains, Keeps, EVENTS
        <4> QED  BY <4>1, <4>2 DEF capturePulse
      <3>4. aolState \in AolStates
        BY DEF IInv, TypeOK
      <3> QED  BY <3>1, <3>2, <3>3, <3>4, CutStopsAol
    <2> QED  BY <2>1, <2>2
  <1> QED  BY <1>6, <1>7

(* A frame without a CAN bus leaves nothing in control, unless the event   *)
(* is muted.                                                               *)
THEOREM CanLossSafety == Spec => CanLossStopsControl
  <1> DEFINE A == IsFrame /\ CS_prev'.canTimeout
                    /\ ~(CS_prev'.gearShifter = "park" /\ aolEnabled)
                    => ~active' /\ ~aolActive'
  <1>1. IInv /\ [Next]_vars => [A]_vars
    <2>1. ASSUME IInv, Step PROVE A
      BY <2>1, CanLossStep
    <2>2. ASSUME ParamsThread PROVE A
      BY <2>2 DEF ParamsThread, IsFrame
    <2> QED  BY <2>1, <2>2 DEF Next
  <1> QED  BY <1>1, Invariance, PTL DEF Spec, CanLossStopsControl
-----------------------------------------------------------------------------
(* A pair of event sets, and how a stage changes one.                      *)
Pair(x) == x = [evs |-> x.evs, iq |-> x.iq]

(* addIQ leaves the stock events alone.                                    *)
LEMMA AddFields ==
    ASSUME NEW x, Pair(x), NEW names
    PROVE  /\ Pair(addIQ(x, names))
           /\ addIQ(x, names).evs = x.evs
           /\ addIQ(x, names).iq = x.iq \cup names
  BY DEF Pair, addIQ

(* removeStock leaves AOL's own events alone.                              *)
LEMMA RemoveFields ==
    ASSUME NEW x, Pair(x), NEW names
    PROVE  /\ Pair(removeStock(x, names))
           /\ removeStock(x, names).evs = x.evs \ names
           /\ removeStock(x, names).iq = x.iq
  BY DEF Pair, removeStock

-----------------------------------------------------------------------------
(* The silent events stand for reasons to pause, never for a request.      *)
LEMMA SilencedNames ==
    ASSUME NEW f
    PROVE  /\ DOMAIN silencedAs(f) = {"doorOpen", "seatbeltNotLatched", "wrongGear",
                                      "reverseGear", "brakeHold", "parkBrake"}
           /\ \A e \in DOMAIN silencedAs(f) : silencedAs(f)[e] \subseteq PAUSE_WITH_IQ_EVENTS
  <1>1. DOMAIN silencedAs(f) = {"doorOpen", "seatbeltNotLatched", "wrongGear",
                                "reverseGear", "brakeHold", "parkBrake"}
    BY DEF silencedAs
  <1>2. /\ silencedAs(f)["doorOpen"] \subseteq PAUSE_WITH_IQ_EVENTS
        /\ silencedAs(f)["seatbeltNotLatched"] \subseteq PAUSE_WITH_IQ_EVENTS
        /\ silencedAs(f)["wrongGear"] \subseteq PAUSE_WITH_IQ_EVENTS
    BY DEF silencedAs, When, PAUSE_WITH_IQ_EVENTS
  <1>3. /\ silencedAs(f)["reverseGear"] \subseteq PAUSE_WITH_IQ_EVENTS
        /\ silencedAs(f)["brakeHold"] \subseteq PAUSE_WITH_IQ_EVENTS
        /\ silencedAs(f)["parkBrake"] \subseteq PAUSE_WITH_IQ_EVENTS
    BY DEF silencedAs, PAUSE_WITH_IQ_EVENTS
  <1> QED  BY <1>1, <1>2, <1>3

(* AOL steering alone, in a frame that brakes.                             *)
Braking(f, x) == steeringModeOnBrake(f.cp) = "SUSPEND" /\ pedalPressedNonGasPressed(f, x)

(* soloStage: no request is lost or invented, and a brake that is to pause *)
(* AOL does ask for the pause.                                             *)
LEMMA SoloStage ==
    ASSUME NEW f, NEW x, Pair(x), NEW y, y = soloStage(f, x)
    PROVE  /\ Pair(y) /\ y.evs \subseteq x.evs /\ x.iq \subseteq y.iq
           /\ \A e \in {"pcmEnable", "buttonEnable", "pedalPressed"} : e \in y.evs <=> e \in x.evs
           /\ y.iq \subseteq x.iq \cup PAUSE_WITH_IQ_EVENTS \cup {"silentLkasDisable"}
           /\ f.ssEnabled => y = x
           /\ f.enabled /\ ~f.ssEnabled /\ f.st # "paused" /\ Braking(f, x)
                => "silentLkasDisable" \in y.iq
  <1> DEFINE silent == silencedAs(f)
             hit    == {e \in x.evs \cap DOMAIN silent : silent[e] # {}}
             braked == Braking(f, x)
             pause  == When((hit # {} \/ braked) /\ f.st # "paused", "silentLkasDisable")
             muted  == {"preEnableStandstill", "belowEngageSpeed", "speedTooLow",
                        "cruiseDisabled", "manualRestart"}
             said   == pause \cup UNION {silent[e] : e \in hit}
             z      == removeStock(x, hit \cup muted)
  <1>1. y = IF f.enabled /\ ~f.ssEnabled THEN addIQ(z, said) ELSE x
    BY DEF soloStage, Braking
  <1>2. /\ Pair(addIQ(z, said))
        /\ addIQ(z, said).evs = x.evs \ (hit \cup muted)
        /\ addIQ(z, said).iq = x.iq \cup said
    <2> HIDE DEF said, hit, muted
    <2> QED  BY AddFields, RemoveFields
  <1>3. \A e \in {"pcmEnable", "buttonEnable", "pedalPressed"} : e \notin hit \cup muted
    BY SilencedNames
  <1>4. UNION {silent[e] : e \in hit} \subseteq PAUSE_WITH_IQ_EVENTS
    BY SilencedNames
  <1>5. /\ pause \subseteq {"silentLkasDisable"}
        /\ f.st # "paused" /\ Braking(f, x) => "silentLkasDisable" \in pause
    BY DEF When
  <1>6. /\ said \subseteq PAUSE_WITH_IQ_EVENTS \cup {"silentLkasDisable"}
        /\ f.st # "paused" /\ Braking(f, x) => "silentLkasDisable" \in said
    BY <1>4, <1>5
  <1> HIDE DEF said, hit, muted, z
  <1> QED  BY <1>1, <1>2, <1>3, <1>6

(* wrongCarModeStage touches nothing else.                                 *)
LEMMA WrongCarModeStage ==
    ASSUME NEW f, NEW x, Pair(x), NEW y, y = wrongCarModeStage(f, x)
    PROVE  /\ Pair(y) /\ y.evs = x.evs \ {"wrongCarMode"} /\ x.iq \subseteq y.iq
           /\ y.iq \subseteq x.iq \cup {"wrongCarModeAlertOnly"}
  BY AddFields, RemoveFields DEF wrongCarModeStage, When

(* engageStage: the enable events pass unless unified engagement is        *)
(* blocked; the main switch asks only on its rising edge.                  *)
LEMMA EngageStage ==
    ASSUME NEW f, NEW x, Pair(x), NEW y, y = engageStage(f, x)
    PROVE  /\ Pair(y) /\ x.iq \subseteq y.iq
           /\ y.evs \subseteq x.evs /\ x.evs \ {"pcmEnable", "buttonEnable"} \subseteq y.evs
           /\ ~blockUnifiedEngagementMode(f) => y.evs = x.evs
           /\ blockUnifiedEngagementMode(f) => y.evs \cap {"pcmEnable", "buttonEnable"} = {}
           /\ y.iq \subseteq x.iq \cup {"pedalPressedAlertOnly", "lkasEnable"}
           /\ "lkasEnable" \in y.iq \ x.iq =>
                 f.mainToggle /\ f.cs.lateralAvailable /\ ~f.prev.lateralAvailable
  <1>1. CASE enableRequested(x)
    <2> DEFINE names == IF blockUnifiedEngagementMode(f) THEN {"pcmEnable", "buttonEnable"} ELSE {}
               more  == When(pedalPressedNonGasPressed(f, x), "pedalPressedAlertOnly")
    <2>1. y = addIQ(removeStock(x, names), more)
      BY <1>1 DEF engageStage
    <2>2. more \subseteq {"pedalPressedAlertOnly"}
      BY DEF When
    <2> HIDE DEF more
    <2>3. Pair(y) /\ y.evs = x.evs \ names /\ y.iq = x.iq \cup more
      <3> HIDE DEF names
      <3> QED  BY <2>1, AddFields, RemoveFields
    <2> QED  BY <2>2, <2>3
  <1>2. CASE ~enableRequested(x)
    <2> DEFINE more == When(f.mainToggle /\ f.cs.lateralAvailable /\ ~f.prev.lateralAvailable,
                            "lkasEnable")
    <2>1. y = addIQ(x, more)
      BY <1>2 DEF engageStage
    <2>2. /\ more \subseteq {"lkasEnable"}
          /\ more # {} => f.mainToggle /\ f.cs.lateralAvailable /\ ~f.prev.lateralAvailable
      BY DEF When
    <2> HIDE DEF more
    <2>3. Pair(y) /\ y.evs = x.evs /\ y.iq = x.iq \cup more
      BY <2>1, AddFields
    <2> QED  BY <1>2, <2>2, <2>3 DEF enableRequested
  <1> QED  BY <1>1, <1>2

(* buttonStage: the LKAS button asks for an AOL that is off.               *)
LEMMA ButtonStage ==
    ASSUME NEW f, NEW x, Pair(x), NEW y, y = buttonStage(f, x)
    PROVE  /\ Pair(y) /\ y.evs = x.evs /\ x.iq \subseteq y.iq
           /\ y.iq \subseteq x.iq \cup {"manualLongitudinalRequired", "lkasEnable",
                                        "manualSteeringRequired", "lkasDisable"}
           /\ "lkasEnable" \in y.iq \ x.iq =>
                 "lkas" \in f.cs.buttons /\ hasRuntimeLkasToggle(f) /\ ~f.enabled
  <1> DEFINE lkas == "lkas" \in f.cs.buttons /\ hasRuntimeLkasToggle(f)
             more == When("cancel" \in f.cs.buttons /\ ~f.ssEnabled /\ f.ssEnabledPrev,
                          "manualLongitudinalRequired")
                       \cup When(lkas /\ ~f.enabled, "lkasEnable")
                       \cup When(lkas /\ f.enabled /\ f.ssEnabled, "manualSteeringRequired")
                       \cup When(lkas /\ f.enabled /\ ~f.ssEnabled, "lkasDisable")
  <1>1. y = addIQ(x, more)
    BY DEF buttonStage
  <1>2. /\ more \subseteq {"manualLongitudinalRequired", "lkasEnable",
                           "manualSteeringRequired", "lkasDisable"}
        /\ "lkasEnable" \in more => lkas /\ ~f.enabled
    BY DEF When
  <1> HIDE DEF more
  <1>3. Pair(y) /\ y.evs = x.evs /\ y.iq = x.iq \cup more
    BY <1>1, AddFields
  <1> QED  BY <1>2, <1>3

(* availabilityStage: no button enable without lateral control, and the    *)
(* falling edge of the main switch disables.                               *)
LEMMA AvailabilityStage ==
    ASSUME NEW f, NEW x, Pair(x), NEW y, y = availabilityStage(f, x)
    PROVE  /\ Pair(y) /\ x.iq \subseteq y.iq /\ y.iq \subseteq x.iq \cup {"lkasDisable"}
           /\ y.evs \subseteq x.evs /\ x.evs \ {"buttonEnable"} \subseteq y.evs
           /\ f.cs.lateralAvailable \/ noMainCruise(f.cp) => y = x
           /\ ~(f.cs.lateralAvailable \/ noMainCruise(f.cp)) => "buttonEnable" \notin y.evs
           /\ ~(f.cs.lateralAvailable \/ noMainCruise(f.cp)) /\ f.prev.lateralAvailable
                 => "lkasDisable" \in y.iq
  <1>1. CASE f.cs.lateralAvailable \/ noMainCruise(f.cp)
    BY <1>1 DEF availabilityStage
  <1>2. CASE ~(f.cs.lateralAvailable \/ noMainCruise(f.cp))
    <2> DEFINE more == When(f.prev.lateralAvailable, "lkasDisable")
    <2>1. y = addIQ(removeStock(x, {"buttonEnable"}), more)
      BY <1>2 DEF availabilityStage
    <2>2. more \subseteq {"lkasDisable"} /\ (f.prev.lateralAvailable => "lkasDisable" \in more)
      BY DEF When
    <2> HIDE DEF more
    <2>3. Pair(y) /\ y.evs = x.evs \ {"buttonEnable"} /\ y.iq = x.iq \cup more
      BY <2>1, AddFields, RemoveFields
    <2> QED  BY <1>2, <2>2, <2>3
  <1> QED  BY <1>1, <1>2

(* cancelStage: the brake disables, where it is set to cancel.             *)
LEMMA CancelStage ==
    ASSUME NEW f, NEW x, Pair(x), NEW y, y = cancelStage(f, x)
    PROVE  /\ Pair(y) /\ y.evs = x.evs /\ x.iq \subseteq y.iq
           /\ y.iq \subseteq x.iq \cup {"lkasDisable"}
           /\ steeringModeOnBrake(f.cp) = "CANCEL" /\ pedalPressedNonGasPressed(f, x) /\ f.enabled
                 => "lkasDisable" \in y.iq
  <1> DEFINE more == When(/\ steeringModeOnBrake(f.cp) = "CANCEL"
                          /\ pedalPressedNonGasPressed(f, x)
                          /\ f.enabled, "lkasDisable")
  <1>1. y = addIQ(x, more)
    BY DEF cancelStage
  <1>2. /\ more \subseteq {"lkasDisable"}
        /\ steeringModeOnBrake(f.cp) = "CANCEL" /\ pedalPressedNonGasPressed(f, x) /\ f.enabled
              => "lkasDisable" \in more
    BY DEF When
  <1> HIDE DEF more
  <1>3. Pair(y) /\ y.evs = x.evs /\ y.iq = x.iq \cup more
    BY <1>1, AddFields
  <1> QED  BY <1>2, <1>3

(* resumeStage: only an AOL that is paused, and not by a brake.            *)
LEMMA ResumeStage ==
    ASSUME NEW f, NEW x, Pair(x), NEW y, y = resumeStage(f, x)
    PROVE  /\ Pair(y) /\ y.evs = x.evs /\ x.iq \subseteq y.iq
           /\ y.iq \subseteq x.iq \cup {"silentLkasEnable"}
           /\ "silentLkasEnable" \in y.iq \ x.iq => f.st = "paused" /\ ~Braking(f, x)
  <1> DEFINE more == When(shouldSilentLkasEnable(f, x) /\ f.st = "paused", "silentLkasEnable")
  <1>1. y = addIQ(x, more)
    BY DEF resumeStage
  <1>2. /\ more \subseteq {"silentLkasEnable"}
        /\ more # {} => f.st = "paused" /\ ~Braking(f, x)
    BY DEF When, shouldSilentLkasEnable, Braking
  <1> HIDE DEF more
  <1>3. Pair(y) /\ y.evs = x.evs /\ y.iq = x.iq \cup more
    BY <1>1, AddFields
  <1> QED  BY <1>2, <1>3

(* ignoreStage keeps the enable events.                                    *)
LEMMA IgnoreStage ==
    ASSUME NEW x, Pair(x), NEW y, y = ignoreStage(x)
    PROVE  /\ Pair(y) /\ y.iq = x.iq /\ y.evs \subseteq x.evs
           /\ \A e \in {"pcmEnable", "buttonEnable"} : e \in y.evs <=> e \in x.evs
  BY RemoveFields DEF ignoreStage
-----------------------------------------------------------------------------
(* What is left of a frame's events: where each request and each disable   *)
(* that AOL's machine sees came from, and which ones it is sure to see.    *)
LEMMA Rewritten ==
    ASSUME NEW f, NEW evs, NEW y, y = aolUpdateEvents(f, [evs |-> evs, iq |-> {}])
    PROVE  /\ y.evs \subseteq evs
           /\ "silentLkasEnable" \in y.iq =>
                 f.st = "paused" /\ ~Braking(f, [evs |-> evs, iq |-> {}])
           /\ "lkasEnable" \in y.iq =>
                 \/ f.mainToggle /\ f.cs.lateralAvailable /\ ~f.prev.lateralAvailable
                 \/ "lkas" \in f.cs.buttons /\ hasRuntimeLkasToggle(f) /\ ~f.enabled
           /\ blockUnifiedEngagementMode(f) => y.evs \cap {"pcmEnable", "buttonEnable"} = {}
           /\ "buttonEnable" \in y.evs => f.cs.lateralAvailable \/ noMainCruise(f.cp)
           /\ ~(f.cs.lateralAvailable \/ noMainCruise(f.cp)) /\ f.prev.lateralAvailable
                 => "lkasDisable" \in y.iq
           /\ steeringModeOnBrake(f.cp) = "CANCEL" /\ f.enabled
                /\ pedalPressedNonGasPressed(f, [evs |-> evs, iq |-> {}])
                 => "lkasDisable" \in y.iq
           /\ f.enabled /\ ~f.ssEnabled /\ f.st # "paused"
                /\ Braking(f, [evs |-> evs, iq |-> {}])
                 => "silentLkasDisable" \in y.iq
           /\ ~blockUnifiedEngagementMode(f) /\ (f.cs.lateralAvailable \/ noMainCruise(f.cp))
                 => \A e \in {"pcmEnable", "buttonEnable"} : e \in evs => e \in y.evs
           /\ f.ssEnabled => y.iq \cap EVENTS_IQ["noEntry"] = {}
  <1> DEFINE x0 == [evs |-> evs, iq |-> {}]
             x1 == soloStage(f, x0)
             x2 == wrongCarModeStage(f, x1)
             x3 == engageStage(f, x2)
             x4 == buttonStage(f, x3)
             x5 == availabilityStage(f, x4)
             x6 == cancelStage(f, x5)
             x7 == resumeStage(f, x6)
  <1>0. Pair(x0) /\ x0.evs = evs /\ x0.iq = {}
    BY DEF Pair
  <1>y. y = ignoreStage(x7)
    BY DEF aolUpdateEvents
  <1> HIDE DEF x0
  <1>1. /\ Pair(x1) /\ x1.evs \subseteq evs
        /\ \A e \in {"pcmEnable", "buttonEnable", "pedalPressed"} : e \in x1.evs <=> e \in evs
        /\ x1.iq \subseteq PAUSE_WITH_IQ_EVENTS \cup {"silentLkasDisable"}
        /\ f.ssEnabled => x1.iq = {}
        /\ f.enabled /\ ~f.ssEnabled /\ f.st # "paused" /\ Braking(f, x0)
             => "silentLkasDisable" \in x1.iq
    BY <1>0, SoloStage
  <1> HIDE DEF x1
  <1>2. /\ Pair(x2) /\ x2.evs = x1.evs \ {"wrongCarMode"} /\ x1.iq \subseteq x2.iq
        /\ x2.iq \subseteq x1.iq \cup {"wrongCarModeAlertOnly"}
    BY <1>1, WrongCarModeStage
  <1> HIDE DEF x2
  <1>3. /\ Pair(x3) /\ x2.iq \subseteq x3.iq
        /\ x3.evs \subseteq x2.evs /\ x2.evs \ {"pcmEnable", "buttonEnable"} \subseteq x3.evs
        /\ ~blockUnifiedEngagementMode(f) => x3.evs = x2.evs
        /\ blockUnifiedEngagementMode(f) => x3.evs \cap {"pcmEnable", "buttonEnable"} = {}
        /\ x3.iq \subseteq x2.iq \cup {"pedalPressedAlertOnly", "lkasEnable"}
        /\ "lkasEnable" \in x3.iq \ x2.iq =>
              f.mainToggle /\ f.cs.lateralAvailable /\ ~f.prev.lateralAvailable
    BY <1>2, EngageStage
  <1> HIDE DEF x3
  <1>4. /\ Pair(x4) /\ x4.evs = x3.evs /\ x3.iq \subseteq x4.iq
        /\ x4.iq \subseteq x3.iq \cup {"manualLongitudinalRequired", "lkasEnable",
                                       "manualSteeringRequired", "lkasDisable"}
        /\ "lkasEnable" \in x4.iq \ x3.iq =>
              "lkas" \in f.cs.buttons /\ hasRuntimeLkasToggle(f) /\ ~f.enabled
    BY <1>3, ButtonStage
  <1> HIDE DEF x4
  <1>5. /\ Pair(x5) /\ x4.iq \subseteq x5.iq /\ x5.iq \subseteq x4.iq \cup {"lkasDisable"}
        /\ x5.evs \subseteq x4.evs /\ x4.evs \ {"buttonEnable"} \subseteq x5.evs
        /\ f.cs.lateralAvailable \/ noMainCruise(f.cp) => x5 = x4
        /\ ~(f.cs.lateralAvailable \/ noMainCruise(f.cp)) => "buttonEnable" \notin x5.evs
        /\ ~(f.cs.lateralAvailable \/ noMainCruise(f.cp)) /\ f.prev.lateralAvailable
              => "lkasDisable" \in x5.iq
    BY <1>4, AvailabilityStage
  <1> HIDE DEF x5
  <1>6. /\ Pair(x6) /\ x6.evs = x5.evs /\ x5.iq \subseteq x6.iq
        /\ x6.iq \subseteq x5.iq \cup {"lkasDisable"}
        /\ steeringModeOnBrake(f.cp) = "CANCEL" /\ pedalPressedNonGasPressed(f, x5) /\ f.enabled
              => "lkasDisable" \in x6.iq
    BY <1>5, CancelStage
  <1> HIDE DEF x6
  <1>7. /\ Pair(x7) /\ x7.evs = x6.evs /\ x6.iq \subseteq x7.iq
        /\ x7.iq \subseteq x6.iq \cup {"silentLkasEnable"}
        /\ "silentLkasEnable" \in x7.iq \ x6.iq => f.st = "paused" /\ ~Braking(f, x6)
    BY <1>6, ResumeStage
  <1> HIDE DEF x7
  <1>8. /\ y.iq = x7.iq /\ y.evs \subseteq x7.evs
        /\ \A e \in {"pcmEnable", "buttonEnable"} : e \in y.evs <=> e \in x7.evs
    BY <1>y, <1>7, IgnoreStage
  <1>9. /\ y.evs \subseteq evs
        /\ "pedalPressed" \in evs <=> "pedalPressed" \in x5.evs
        /\ "pedalPressed" \in evs <=> "pedalPressed" \in x6.evs
    BY <1>1, <1>2, <1>3, <1>4, <1>5, <1>6, <1>7, <1>8
  <1>10. /\ pedalPressedNonGasPressed(f, x0) <=> pedalPressedNonGasPressed(f, x5)
         /\ pedalPressedNonGasPressed(f, x0) <=> pedalPressedNonGasPressed(f, x6)
         /\ Braking(f, x0) <=> Braking(f, x6)
    BY <1>0, <1>9 DEF pedalPressedNonGasPressed, Braking
  <1>11. "silentLkasEnable" \in y.iq => f.st = "paused" /\ ~Braking(f, x0)
    <2>1. "silentLkasEnable" \notin x6.iq
      BY <1>1, <1>2, <1>3, <1>4, <1>5, <1>6 DEF PAUSE_WITH_IQ_EVENTS
    <2> QED  BY <1>7, <1>8, <1>10, <2>1
  <1>12. "lkasEnable" \in y.iq =>
            \/ f.mainToggle /\ f.cs.lateralAvailable /\ ~f.prev.lateralAvailable
            \/ "lkas" \in f.cs.buttons /\ hasRuntimeLkasToggle(f) /\ ~f.enabled
    <2>1. "lkasEnable" \notin x2.iq
      BY <1>1, <1>2 DEF PAUSE_WITH_IQ_EVENTS
    <2> QED  BY <1>3, <1>4, <1>5, <1>6, <1>7, <1>8, <2>1
  <1>13. /\ blockUnifiedEngagementMode(f) => y.evs \cap {"pcmEnable", "buttonEnable"} = {}
         /\ "buttonEnable" \in y.evs => f.cs.lateralAvailable \/ noMainCruise(f.cp)
    BY <1>3, <1>4, <1>5, <1>6, <1>7, <1>8
  <1>14. /\ ~(f.cs.lateralAvailable \/ noMainCruise(f.cp)) /\ f.prev.lateralAvailable
               => "lkasDisable" \in y.iq
         /\ steeringModeOnBrake(f.cp) = "CANCEL" /\ f.enabled /\ pedalPressedNonGasPressed(f, x0)
               => "lkasDisable" \in y.iq
    BY <1>5, <1>6, <1>7, <1>8, <1>10
  <1>15. f.enabled /\ ~f.ssEnabled /\ f.st # "paused" /\ Braking(f, x0)
             => "silentLkasDisable" \in y.iq
    BY <1>1, <1>2, <1>3, <1>4, <1>5, <1>6, <1>7, <1>8
  <1>16. ~blockUnifiedEngagementMode(f) /\ (f.cs.lateralAvailable \/ noMainCruise(f.cp))
            => \A e \in {"pcmEnable", "buttonEnable"} : e \in evs => e \in y.evs
    BY <1>1, <1>2, <1>3, <1>4, <1>5, <1>6, <1>7, <1>8
  <1>17. f.ssEnabled => y.iq \cap EVENTS_IQ["noEntry"] = {}
    <2> SUFFICES ASSUME f.ssEnabled PROVE y.iq \cap EVENTS_IQ["noEntry"] = {}
      OBVIOUS
    <2>1. y.iq \subseteq {"wrongCarModeAlertOnly", "pedalPressedAlertOnly", "lkasEnable",
                          "manualLongitudinalRequired", "manualSteeringRequired", "lkasDisable",
                          "silentLkasEnable"}
      BY <1>1, <1>2, <1>3, <1>4, <1>5, <1>6, <1>7, <1>8
    <2>2. EVENTS_IQ["noEntry"] = PAUSE_WITH_IQ_EVENTS \cup {"controlsMismatchLateral"}
      BY DEF EVENTS_IQ
    <2> QED  BY <2>1, <2>2 DEF PAUSE_WITH_IQ_EVENTS
  <1> QED  BY <1>9, <1>11, <1>12, <1>13, <1>14, <1>15, <1>16, <1>17 DEF x0

(* The pulse: what wakes AOL, what kills it, what gates it.                *)
LEMMA PulseFields ==
    ASSUME NEW evs, NEW iq, NEW p, p = capturePulse(evs, iq)
    PROVE  /\ p.wake <=> \/ "pcmEnable" \in evs \/ "buttonEnable" \in evs
                         \/ "lkasEnable" \in iq \/ "silentLkasEnable" \in iq
           /\ "lkasDisable" \in iq \/ "silentLkasDisable" \in iq => p.kill
           /\ p.gate <=> evs \cap EVENTS["noEntry"] # {} \/ iq \cap EVENTS_IQ["noEntry"] # {}
  <1>1. /\ p.wake <=> contains(evs, EVENTS, "enable") \/ contains(iq, EVENTS_IQ, "enable")
        /\ p.kill <=> contains(evs, EVENTS, "userDisable") \/ contains(iq, EVENTS_IQ, "userDisable")
        /\ p.gate <=> contains(evs, EVENTS, "noEntry") \/ contains(iq, EVENTS_IQ, "noEntry")
    BY DEF capturePulse
  <1>2. /\ EVENTS["enable"] = {"pcmEnable", "buttonEnable"}
        /\ EVENTS_IQ["enable"] = {"lkasEnable", "silentLkasEnable"}
        /\ EVENTS_IQ["userDisable"] = {"lkasDisable", "manualSteeringRequired", "silentLkasDisable"}
    BY DEF EVENTS, EVENTS_IQ
  <1>3. p.wake <=> \/ "pcmEnable" \in evs \/ "buttonEnable" \in evs
                   \/ "lkasEnable" \in iq \/ "silentLkasEnable" \in iq
    BY <1>1, <1>2 DEF contains
  <1>4. "lkasDisable" \in iq \/ "silentLkasDisable" \in iq => p.kill
    BY <1>1, <1>2 DEF contains
  <1>5. p.gate <=> evs \cap EVENTS["noEntry"] # {} \/ iq \cap EVENTS_IQ["noEntry"] # {}
    BY <1>1 DEF contains
  <1> QED  BY <1>3, <1>4, <1>5

(* A kill stops every AOL that is on; without a wake, an AOL that is off   *)
(* or paused does not begin to steer.                                      *)
LEMMA KillStopsAol ==
    ASSUME NEW st \in AolStates, NEW p, NEW t
    PROVE  /\ p.kill /\ st # "disabled" => aolNextState(st, p, t) \notin TORQUE_DELIVERING_STATES
           /\ ~p.wake /\ st = "disabled" => aolNextState(st, p, t) = "disabled"
           /\ ~p.wake /\ st = "paused" => aolNextState(st, p, t) \notin TORQUE_DELIVERING_STATES
           /\ p.wake /\ ~p.gate /\ st = "disabled"
                 => aolNextState(st, p, t) \in TORQUE_DELIVERING_STATES
  BY DEF aolNextState, handleDisabled, handlePaused, handleRunning, forced, running,
         handleSoftDisabling, forcedState, TORQUE_DELIVERING_STATES

(* The frame as AOL sees it; e is the engagement flag after this frame.    *)
theFrame(cs, e) ==
    [cs |-> cs, prev |-> CS_prev, ssEnabled |-> e, ssEnabledPrev |-> enabled_prev,
     st |-> aolState, enabled |-> aolEnabled, cp |-> cp, unified |-> unified,
     mainToggle |-> mainToggle, disengageOnAccel |-> cp.disengageOnAccel]

(* One frame with both machines running, taken apart.                      *)
LEMMA FrameParts ==
    ASSUME Step, IsFrame
    PROVE  \E sys, evs, m, y, p :
              /\ sys \in SystemEvents
              /\ evs = updateEvents(CS_prev', sys, initialized', mismatch_counter')
              /\ m = updateMachine(evs, TRUE)
              /\ state' = m.state /\ enabled' = m.enabled
              /\ y = aolUpdateEvents(theFrame(CS_prev', m.enabled), [evs |-> evs, iq |-> {}])
              /\ p = capturePulse(y.evs, y.iq)
              /\ cp.aolEnabled =>
                    /\ aolState' = aolNextState(aolState, p, m.timer)
                    /\ soft_disable_timer' = aolTimer(aolState, p, m.timer, m.enabled)
                    /\ aolEnabled' = (aolState' \in LATERAL_CONTROLLED_STATES)
                    /\ aolActive' = (aolState' \in TORQUE_DELIVERING_STATES)
              /\ ~cp.aolEnabled => UNCHANGED <<aolState, aolEnabled, aolActive>>
              /\ CS_prev' \in CarStates \cup {CS_prev}
  <1>1. initialized' /\ ~cp.passive
    BY DEF IsFrame
  <1> DEFINE run == initialized' /\ ~cp.passive
  <1>2. PICK cs \in CarStates \cup {CS_prev}, sys \in SystemEvents :
           /\ \E evs \in {updateEvents(cs, sys, initialized', mismatch_counter')} :
              \E m \in {updateMachine(evs, run)} :
                 /\ state' = m.state /\ enabled' = m.enabled
                 /\ updateAol(cs, evs, m, run)
           /\ CS_prev' = cs
    BY DEF Step
  <1> DEFINE evs == updateEvents(cs, sys, initialized', mismatch_counter')
             m   == updateMachine(evs, TRUE)
             y   == aolUpdateEvents(theFrame(cs, m.enabled), [evs |-> evs, iq |-> {}])
             p   == capturePulse(y.evs, y.iq)
  <1>3. run = TRUE
    BY <1>1
  <1>4. state' = m.state /\ enabled' = m.enabled /\ updateAol(cs, evs, m, TRUE)
    BY <1>2, <1>3
  <1> HIDE DEF m, evs, run
  <1>5. p = aolPulse(cs, evs, m.enabled)
    BY DEF aolPulse, theFrame
  <1> HIDE DEF p
  <1>6. cp.aolEnabled =>
           /\ aolState' = aolNextState(aolState, p, m.timer)
           /\ soft_disable_timer' = aolTimer(aolState, p, m.timer, m.enabled)
           /\ aolEnabled' = (aolState' \in LATERAL_CONTROLLED_STATES)
           /\ aolActive' = (aolState' \in TORQUE_DELIVERING_STATES)
    BY <1>4, <1>5 DEF updateAol
  <1>7. ~cp.aolEnabled => UNCHANGED <<aolState, aolEnabled, aolActive>>
    BY <1>4 DEF updateAol
  <1> HIDE DEF y
  <1>8. CS_prev' = cs
    BY <1>2
  <1> QED  BY <1>4, <1>6, <1>7, <1>8 DEF evs, m, y, p
-----------------------------------------------------------------------------
(* selfdrive.enabled_prev is what enabled was at the end of the last       *)
(* frame: nothing changes enabled between two frames.  Without it unified  *)
(* engagement could be blocked in the very frame that engages.             *)
PrevFollows == cp.aolEnabled => enabled_prev = enabled

AInv == IInv /\ PrevFollows

(* Every frame copies the flag, also one in which nothing runs.            *)
LEMMA StepKeepsPrev == PrevFollows /\ Step => PrevFollows'
  <1> SUFFICES ASSUME PrevFollows, Step PROVE PrevFollows'
    OBVIOUS
  <1>1. PICK cs, evs, m, run : enabled' = m.enabled /\ updateAol(cs, evs, m, run)
    BY DEF Step
  <1>2. cp' = cp
    BY DEF Step
  <1> QED  BY <1>1, <1>2 DEF updateAol, PrevFollows

(* The inductive invariant of selfdrived with AOL.                         *)
THEOREM AolInvariance == Spec => []AInv
  <1>1. Init => PrevFollows
    BY DEF Init, PrevFollows
  <1>2. PrevFollows /\ [Next]_vars => PrevFollows'
    <2> SUFFICES ASSUME PrevFollows, [Next]_vars PROVE PrevFollows'
      OBVIOUS
    <2>1. CASE ParamsThread \/ UNCHANGED vars
      BY <2>1 DEF ParamsThread, vars, machine, aol, PrevFollows
    <2> QED  BY <2>1, StepKeepsPrev DEF Next
  <1>3. Spec => []PrevFollows
    BY <1>1, <1>2, PTL DEF Spec
  <1> QED  BY <1>3, Invariance, PTL DEF AInv

-----------------------------------------------------------------------------
(* A brake that is set to pause or cancel AOL disengages cruise, so that   *)
(* AOL sees the pedal alone and in the same frame.                         *)
LEMMA BrakeStep ==
    ASSUME IInv, Step, IsFrame, aolEnabled, steeringModeOnBrake(cp) # "CONTINUE",
           BrakesIn(CS_prev'), aolActive \/ CS_prev.lateralAvailable \/ ~mainToggle
    PROVE  ~aolActive'
  <1>1. PICK sys, evs, m, y, p :
              /\ sys \in SystemEvents
              /\ evs = updateEvents(CS_prev', sys, initialized', mismatch_counter')
              /\ m = updateMachine(evs, TRUE)
              /\ y = aolUpdateEvents(theFrame(CS_prev', m.enabled), [evs |-> evs, iq |-> {}])
              /\ p = capturePulse(y.evs, y.iq)
              /\ cp.aolEnabled =>
                    /\ aolState' = aolNextState(aolState, p, m.timer)
                    /\ aolActive' = (aolState' \in TORQUE_DELIVERING_STATES)
    BY FrameParts
  <1>2. /\ cp.aolEnabled /\ state \in States /\ cp \in CarType
        /\ aolState \in AolStates /\ aolState # "disabled"
        /\ aolActive <=> aolState \in TORQUE_DELIVERING_STATES
    BY InputsAssumption
    DEF IInv, EngagedOnlyWhenRunning, TypeOK, LATERAL_CONTROLLED_STATES, TORQUE_DELIVERING_STATES
  <1>3. "pedalPressed" \in evs
    <2>1. CS_prev'.canValid /\ pedalPressed(CS_prev') /\ initialized' /\ ~cp.passive
      BY DEF BrakesIn, IsFrame
    <2> QED  BY <1>1, <2>1 DEF updateEvents, When
  <1>4. ~m.enabled
    <2> DEFINE T == typesOf(evs, EVENTS)
    <2>1. "userDisable" \in T /\ "noEntry" \in T
      <3>1. /\ "userDisable" \in DOMAIN EVENTS /\ "noEntry" \in DOMAIN EVENTS
            /\ "pedalPressed" \in EVENTS["userDisable"]
            /\ "pedalPressed" \in EVENTS["noEntry"]
        BY DEF EVENTS, userNoEntryEvents
      <3> QED  BY <1>3, <3>1 DEF typesOf, contains
    <2>2. m.enabled = (nextState(state, tick(soft_disable_timer), T) \in ENABLED_STATES)
      BY <1>1 DEF updateMachine
    <2> HIDE DEF T
    <2>3. nextState(state, tick(soft_disable_timer), T) = "disabled"
      BY <1>2, <2>1, StopLeavesDisabled DEF stopNow
    <2> QED  BY <2>2, <2>3 DEF ENABLED_STATES, ACTIVE_STATES
  <1> DEFINE f  == theFrame(CS_prev', m.enabled)
             x0 == [evs |-> evs, iq |-> {}]
  <1>5. /\ f.cs = CS_prev' /\ f.prev = CS_prev /\ ~f.ssEnabled /\ f.enabled
        /\ f.st = aolState /\ f.cp = cp /\ (f.mainToggle <=> mainToggle)
        /\ f.disengageOnAccel = cp.disengageOnAccel
    BY <1>4 DEF theFrame
  <1>6. pedalPressedNonGasPressed(f, x0)
    BY <1>3, <1>5 DEF pedalPressedNonGasPressed, BrakesIn
  <1>7. steeringModeOnBrake(cp) \in {"SUSPEND", "CANCEL"}
    BY <1>2 DEF steeringModeOnBrake, CarType, BrakeInterventionMode
  <1>8. y = aolUpdateEvents(f, x0)
    BY <1>1
  <1> HIDE DEF f, x0
  <1>9. CASE steeringModeOnBrake(cp) = "CANCEL"
    <2>1. "lkasDisable" \in y.iq
      BY <1>5, <1>6, <1>8, <1>9, Rewritten DEF x0
    <2> QED  BY <1>1, <1>2, <2>1, PulseFields, KillStopsAol
  <1>10. CASE steeringModeOnBrake(cp) = "SUSPEND"
    <2>1. Braking(f, x0)
      BY <1>5, <1>6, <1>10 DEF Braking
    <2>2. CASE aolState # "paused"
      <3>1. "silentLkasDisable" \in y.iq
        BY <1>5, <1>8, <2>1, <2>2, Rewritten DEF x0
      <3> QED  BY <1>1, <1>2, <3>1, PulseFields, KillStopsAol
    <2>3. CASE aolState = "paused"
      <3>1. ~aolActive
        BY <1>2, <2>3 DEF TORQUE_DELIVERING_STATES
      <3>2. blockUnifiedEngagementMode(f)
        BY <1>5 DEF blockUnifiedEngagementMode
      <3>3. "pcmEnable" \notin y.evs /\ "buttonEnable" \notin y.evs
        BY <1>8, <3>2, Rewritten DEF x0
      <3>4. "silentLkasEnable" \notin y.iq
        BY <1>8, <2>1, Rewritten DEF x0
      <3>5. "lkasEnable" \notin y.iq
        BY <1>5, <1>8, <3>1, Rewritten DEF x0
      <3>6. ~p.wake
        BY <1>1, <3>3, <3>4, <3>5, PulseFields
      <3> QED  BY <1>1, <1>2, <2>3, <3>6, KillStopsAol
    <2> QED  BY <2>2, <2>3
  <1> QED  BY <1>7, <1>9, <1>10

(* The brake stops AOL's steering, whatever cruise was doing.              *)
THEOREM BrakeSafety == Spec => BrakeStopsSteering
  <1> DEFINE A == IsFrame /\ aolEnabled /\ steeringModeOnBrake(cp) # "CONTINUE"
                    /\ BrakesIn(CS_prev')
                    /\ (aolActive \/ CS_prev.lateralAvailable \/ ~mainToggle)
                    => ~aolActive'
  <1>1. IInv /\ [Next]_vars => [A]_vars
    <2>1. ASSUME IInv, Step PROVE A
      BY <2>1, BrakeStep
    <2>2. ASSUME ParamsThread PROVE A
      BY <2>2 DEF ParamsThread, IsFrame
    <2> QED  BY <2>1, <2>2 DEF Next
  <1> QED  BY <1>1, Invariance, PTL DEF Spec, BrakeStopsSteering

-----------------------------------------------------------------------------
(* Whether a frame engages is up to carState alone: true of every car but  *)
(* Honda, whose own rising edge is among the system events, and the body,  *)
(* which always wants to engage.                                           *)
EnableFromCarState == \A sys \in SystemEvents : sys \cap {"pcmEnable", "buttonEnable"} = {}

(* Cruise is not engaged while the main switch is off.                     *)
CruiseNeedsMain == \A cs \in CarStates : cs.cruiseEnabled => cs.lateralAvailable

(* Where the enable events of a frame come from.                           *)
LEMMA EnableEvents ==
    ASSUME EnableFromCarState, NEW cs, NEW sys \in SystemEvents, NEW init, NEW c
    PROVE  /\ "buttonEnable" \in updateEvents(cs, sys, init, c) => cs.buttonEnable
           /\ "pcmEnable" \in updateEvents(cs, sys, init, c)
                 => cs.cruiseEnabled /\ ~CS_prev.cruiseEnabled
  <1> DEFINE common == createCommonEvents(cs)
  <1>1. /\ "buttonEnable" \notin sys /\ "pcmEnable" \notin sys
    BY DEF EnableFromCarState
  <1>2. /\ "buttonEnable" \in common => cs.buttonEnable
        /\ "pcmEnable" \in common => cs.cruiseEnabled /\ ~CS_prev.cruiseEnabled
    BY DEF createCommonEvents, When
  <1> HIDE DEF common
  <1>3. updateEvents(cs, sys, init, c)
            \subseteq sys \cup common \cup {"pedalPressed", "selfdriveInitializing",
                                           "controlsMismatch", "canBusMissing", "canError"}
    BY DEF updateEvents, mismatchEvents, canEvents, When, common
  <1> QED  BY <1>1, <1>2, <1>3

(* An AOL that is off needs a request to come on.                          *)
LEMMA RequestStep ==
    ASSUME EnableFromCarState, AInv, Step, aolState = "disabled", aolState' # "disabled"
    PROVE  \/ "lkas" \in CS_prev'.buttons
           \/ mainToggle /\ CS_prev'.lateralAvailable /\ ~CS_prev.lateralAvailable
           \/ unified /\ CS_prev'.buttonEnable
           \/ unified /\ CS_prev'.cruiseEnabled /\ ~CS_prev.cruiseEnabled
  <1>1. cp.aolEnabled /\ IsFrame
    BY DEF Step, updateAol, IsFrame, AInv, IInv, TypeOK
  <1>2. PICK sys, evs, m, y, p :
              /\ sys \in SystemEvents
              /\ evs = updateEvents(CS_prev', sys, initialized', mismatch_counter')
              /\ y = aolUpdateEvents(theFrame(CS_prev', m.enabled), [evs |-> evs, iq |-> {}])
              /\ p = capturePulse(y.evs, y.iq)
              /\ aolState' = aolNextState(aolState, p, m.timer)
    BY <1>1, FrameParts
  <1> DEFINE f == theFrame(CS_prev', m.enabled)
  <1>3. /\ f.cs = CS_prev' /\ f.prev = CS_prev /\ f.st = aolState
        /\ (f.mainToggle <=> mainToggle) /\ (f.unified <=> unified)
    BY DEF theFrame
  <1>4. p.wake
    <2>1. aolState \in AolStates
      BY DEF AInv, IInv, TypeOK
    <2> QED  BY <1>2, <2>1, KillStopsAol
  <1>5. y = aolUpdateEvents(f, [evs |-> evs, iq |-> {}])
    BY <1>2
  <1> HIDE DEF f
  <1>6. CASE "pcmEnable" \in y.evs \/ "buttonEnable" \in y.evs
    <2>1. ~blockUnifiedEngagementMode(f) /\ y.evs \subseteq evs
      BY <1>5, <1>6, Rewritten
    <2>2. unified
      BY <1>3, <2>1 DEF blockUnifiedEngagementMode
    <2> QED  BY <1>2, <1>6, <2>1, <2>2, EnableEvents
  <1>7. CASE "lkasEnable" \in y.iq
    BY <1>3, <1>5, <1>7, Rewritten
  <1>8. "silentLkasEnable" \notin y.iq
    BY <1>3, <1>5, Rewritten
  <1> QED  BY <1>2, <1>4, <1>6, <1>7, <1>8, PulseFields

(* AOL comes on only in a frame in which the driver asks for it.           *)
THEOREM RequestSafety == ASSUME EnableFromCarState PROVE Spec => AolStartsOnlyOnRequest
  <1> DEFINE A == aolState = "disabled" /\ aolState' # "disabled" =>
                    \/ "lkas" \in CS_prev'.buttons
                    \/ mainToggle /\ CS_prev'.lateralAvailable /\ ~CS_prev.lateralAvailable
                    \/ unified /\ CS_prev'.buttonEnable
                    \/ unified /\ CS_prev'.cruiseEnabled /\ ~CS_prev.cruiseEnabled
  <1>1. AInv /\ [Next]_vars => [A]_vars
    <2>1. ASSUME AInv, Step PROVE A
      BY <2>1, RequestStep
    <2>2. ASSUME ParamsThread PROVE A
      BY <2>2 DEF ParamsThread, aol
    <2> QED  BY <2>1, <2>2 DEF Next
  <1> QED  BY <1>1, AolInvariance, PTL DEF Spec, AolStartsOnlyOnRequest

-----------------------------------------------------------------------------
(* The main switch going off disables an AOL that is on; one that is off   *)
(* could only be asked for by cruise engaging in that frame.               *)
LEMMA MainOffStep ==
    ASSUME EnableFromCarState, CruiseNeedsMain, IInv, Step, IsFrame,
           CS_prev.lateralAvailable, ~CS_prev'.lateralAvailable, ~noMainCruise(cp)
    PROVE  ~aolActive'
  <1>1. PICK sys, evs, m, y, p :
              /\ sys \in SystemEvents
              /\ evs = updateEvents(CS_prev', sys, initialized', mismatch_counter')
              /\ y = aolUpdateEvents(theFrame(CS_prev', m.enabled), [evs |-> evs, iq |-> {}])
              /\ p = capturePulse(y.evs, y.iq)
              /\ cp.aolEnabled =>
                    /\ aolState' = aolNextState(aolState, p, m.timer)
                    /\ aolActive' = (aolState' \in TORQUE_DELIVERING_STATES)
              /\ ~cp.aolEnabled => UNCHANGED <<aolState, aolEnabled, aolActive>>
              /\ CS_prev' \in CarStates \cup {CS_prev}
    BY FrameParts
  <1>2. /\ aolState \in AolStates
        /\ aolActive => aolEnabled
        /\ aolEnabled => cp.aolEnabled
    BY DEF IInv, TypeOK, EngagedOnlyWhenRunning, LATERAL_CONTROLLED_STATES
  <1>3. CASE ~cp.aolEnabled
    BY <1>1, <1>2, <1>3
  <1>4. CASE cp.aolEnabled
    <2> DEFINE f == theFrame(CS_prev', m.enabled)
    <2>1. f.cs = CS_prev' /\ f.prev = CS_prev /\ f.st = aolState /\ f.cp = cp
      BY DEF theFrame
    <2>2. y = aolUpdateEvents(f, [evs |-> evs, iq |-> {}])
      BY <1>1
    <2> HIDE DEF f
    <2>3. "lkasDisable" \in y.iq /\ "buttonEnable" \notin y.evs
      BY <2>1, <2>2, Rewritten
    <2>4. CASE aolState # "disabled"
      BY <1>1, <1>2, <1>4, <2>3, <2>4, PulseFields, KillStopsAol
    <2>5. CASE aolState = "disabled"
      <3>1. "pcmEnable" \notin y.evs
        <4>1. CS_prev' \in CarStates
          BY <1>1
        <4>2. ~CS_prev'.cruiseEnabled
          BY <4>1 DEF CruiseNeedsMain
        <4>3. "pcmEnable" \notin evs
          BY <1>1, <4>2, EnableEvents
        <4>4. y.evs \subseteq evs
          BY <2>2, Rewritten
        <4> QED  BY <4>3, <4>4
      <3>2. "silentLkasEnable" \notin y.iq
        BY <2>1, <2>2, <2>5, Rewritten
      <3>3. "lkasEnable" \notin y.iq
        <4>1. ~hasRuntimeLkasToggle(f)
          BY <2>1 DEF hasRuntimeLkasToggle, noMainCruise
        <4> QED  BY <2>1, <2>2, <4>1, Rewritten
      <3>4. ~p.wake
        BY <1>1, <2>3, <3>1, <3>2, <3>3, PulseFields
      <3>5. aolState' = "disabled"
        BY <1>1, <1>2, <1>4, <2>5, <3>4, KillStopsAol
      <3> QED  BY <1>1, <1>4, <3>5 DEF TORQUE_DELIVERING_STATES
    <2> QED  BY <2>4, <2>5
  <1> QED  BY <1>3, <1>4

(* Switching the main cruise off never leaves AOL steering.                *)
THEOREM MainOffSafety ==
    ASSUME EnableFromCarState, CruiseNeedsMain
    PROVE  Spec => MainOffStopsSteering
  <1> DEFINE A == IsFrame /\ CS_prev.lateralAvailable /\ ~CS_prev'.lateralAvailable
                    /\ ~noMainCruise(cp) => ~aolActive'
  <1>1. IInv /\ [Next]_vars => [A]_vars
    <2>1. ASSUME IInv, Step PROVE A
      BY <2>1, MainOffStep
    <2>2. ASSUME ParamsThread PROVE A
      BY <2>2 DEF ParamsThread, IsFrame
    <2> QED  BY <2>1, <2>2 DEF Next
  <1> QED  BY <1>1, Invariance, PTL DEF Spec, MainOffStopsSteering

-----------------------------------------------------------------------------
(* The frame in which cruise engages: nothing gates it, and AOL keeps the  *)
(* enable event, because enabled_prev is still false.                      *)
LEMMA UnifiedStep ==
    ASSUME AInv, Step, IsFrame, cp.aolEnabled, unified, ~enabled, enabled',
           aolState = "disabled", CS_prev'.lateralAvailable \/ noMainCruise(cp)
    PROVE  aolEnabled'
  <1>1. PICK sys, evs, m, y, p :
              /\ sys \in SystemEvents
              /\ m = updateMachine(evs, TRUE)
              /\ enabled' = m.enabled
              /\ y = aolUpdateEvents(theFrame(CS_prev', m.enabled), [evs |-> evs, iq |-> {}])
              /\ p = capturePulse(y.evs, y.iq)
              /\ aolState' = aolNextState(aolState, p, m.timer)
              /\ aolEnabled' = (aolState' \in LATERAL_CONTROLLED_STATES)
    BY FrameParts
  <1>2. /\ state = "disabled" /\ aolState \in AolStates
        /\ ~aolEnabled /\ ~enabled_prev
    BY DEF AInv, PrevFollows, IInv, TypeOK, States, LATERAL_CONTROLLED_STATES,
           TORQUE_DELIVERING_STATES
  <1>3. /\ "pcmEnable" \in evs \/ "buttonEnable" \in evs
        /\ evs \cap EVENTS["noEntry"] = {}
    <2> DEFINE T == typesOf(evs, EVENTS)
    <2>1. m.enabled = (nextState(state, tick(soft_disable_timer), T) \in ENABLED_STATES)
      BY <1>1 DEF updateMachine
    <2>2. nextState(state, tick(soft_disable_timer), T) = entryState(T)
      BY <1>2 DEF nextState
    <2> HIDE DEF T
    <2>3. "enable" \in T /\ "noEntry" \notin T
      BY <1>1, <2>1, <2>2 DEF entryState, ENABLED_STATES, ACTIVE_STATES
    <2>4. "noEntry" \in DOMAIN EVENTS /\ EVENTS["enable"] = {"pcmEnable", "buttonEnable"}
      BY DEF EVENTS
    <2> QED  BY <2>3, <2>4 DEF T, typesOf, contains
  <1> DEFINE f == theFrame(CS_prev', m.enabled)
  <1>4. /\ f.cs = CS_prev' /\ f.cp = cp /\ (f.unified <=> unified) /\ (f.enabled <=> aolEnabled)
        /\ (f.ssEnabled <=> m.enabled) /\ (f.ssEnabledPrev <=> enabled_prev)
    BY DEF theFrame
  <1>5. y = aolUpdateEvents(f, [evs |-> evs, iq |-> {}])
    BY <1>1
  <1> HIDE DEF f
  <1>6. ~blockUnifiedEngagementMode(f)
    BY <1>2, <1>4 DEF blockUnifiedEngagementMode
  <1>7. /\ "pcmEnable" \in y.evs \/ "buttonEnable" \in y.evs
        /\ y.evs \subseteq evs
        /\ y.iq \cap EVENTS_IQ["noEntry"] = {}
    BY <1>1, <1>3, <1>4, <1>5, <1>6, Rewritten
  <1>8. p.wake /\ ~p.gate
    <2>1. y.evs \cap EVENTS["noEntry"] = {}
      BY <1>3, <1>7
    <2> QED  BY <1>1, <1>7, <2>1, PulseFields
  <1>9. aolState' \in TORQUE_DELIVERING_STATES
    BY <1>1, <1>2, <1>8, KillStopsAol
  <1> QED  BY <1>1, <1>9 DEF LATERAL_CONTROLLED_STATES

(* In unified mode AOL comes on with cruise, in the same frame.            *)
THEOREM UnifiedSafety == Spec => UnifiedEngagement
  <1> DEFINE A == IsFrame /\ cp.aolEnabled /\ unified /\ ~enabled /\ enabled'
                    /\ aolState = "disabled"
                    /\ (CS_prev'.lateralAvailable \/ noMainCruise(cp)) => aolEnabled'
  <1>1. AInv /\ [Next]_vars => [A]_vars
    <2>1. ASSUME AInv, Step PROVE A
      BY <2>1, UnifiedStep
    <2>2. ASSUME ParamsThread PROVE A
      BY <2>2 DEF ParamsThread, IsFrame
    <2> QED  BY <2>1, <2>2 DEF Next
  <1> QED  BY <1>1, AolInvariance, PTL DEF Spec, UnifiedEngagement

-----------------------------------------------------------------------------
(* AOL in softDisabling lives on the engagement machine's timer, which     *)
(* loses a frame unless that machine starts it anew.                       *)
LEMMA AolSoftDisablingStep ==
    ASSUME IInv, Step, IsFrame, aolState = "softDisabling", aolState' = "softDisabling"
    PROVE  \/ soft_disable_timer' < soft_disable_timer
           \/ state # "softDisabling" /\ state' = "softDisabling"
  <1>1. cp.aolEnabled
    BY DEF IInv, TypeOK, EngagedOnlyWhenRunning, LATERAL_CONTROLLED_STATES, TORQUE_DELIVERING_STATES
  <1>2. PICK evs, m, p :
              /\ m = updateMachine(evs, TRUE)
              /\ state' = m.state
              /\ aolState' = aolNextState(aolState, p, m.timer)
              /\ soft_disable_timer' = aolTimer(aolState, p, m.timer, m.enabled)
    BY <1>1, FrameParts
  <1> DEFINE T == typesOf(evs, EVENTS)
  <1>3. /\ m.state = nextState(state, tick(soft_disable_timer), T)
        /\ m.timer = nextTimer(state, soft_disable_timer, T)
    BY <1>2 DEF updateMachine
  <1> HIDE DEF T
  <1>4. soft_disable_timer' = m.timer
    BY <1>2 DEF aolTimer
  <1>5. m.timer > 0
    BY <1>2 DEF aolNextState, handleSoftDisabling, forced, forcedState
  <1>6. CASE state # "softDisabling" /\ m.state = "softDisabling"
    BY <1>2, <1>6
  <1>7. CASE ~(state # "softDisabling" /\ m.state = "softDisabling")
    <2>1. m.timer = tick(soft_disable_timer)
      BY <1>3, <1>7 DEF nextTimer
    <2>2. soft_disable_timer \in Nat
      BY SoftDisableTimeAssumption DEF IInv, TypeOK
    <2>3. soft_disable_timer' = soft_disable_timer - 1
      BY <1>4, <1>5, <2>1, <2>2 DEF tick
    <2> QED  BY <2>2, <2>3
  <1> QED  BY <1>6, <1>7

(* AOL's own soft disable runs out as well.                                *)
THEOREM AolSoftDisableRuns == Spec => AolSoftDisableRunsOut
  <1> DEFINE A == IsFrame /\ aolState = "softDisabling" /\ aolState' = "softDisabling"
                    => \/ soft_disable_timer' < soft_disable_timer
                       \/ state # "softDisabling" /\ state' = "softDisabling"
  <1>1. IInv /\ [Next]_vars => [A]_vars
    <2>1. ASSUME IInv, Step PROVE A
      BY <2>1, AolSoftDisablingStep
    <2>2. ASSUME ParamsThread PROVE A
      BY <2>2 DEF ParamsThread, IsFrame
    <2> QED  BY <2>1, <2>2 DEF Next
  <1> QED  BY <1>1, Invariance, PTL DEF Spec, AolSoftDisableRunsOut
=============================================================================
