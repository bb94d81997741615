---------------------------- MODULE StateMachine ----------------------------
(***************************************************************************)
(* The engagement state machine of selfdrived: what one frame's event      *)
(* types T do to its state, to the soft disable timer and to the alert     *)
(* types of the frame.  Time is counted in frames of DT_CTRL.              *)
(***************************************************************************)
EXTENDS Naturals, OnroadEvents

CONSTANT SOFT_DISABLE_TIME   \* in frames; int(3 / DT_CTRL) = 300 in the code

ASSUME SoftDisableTimeAssumption == SOFT_DISABLE_TIME \in Nat \ {0}

ACTIVE_STATES  == {"enabled", "softDisabling", "overriding"}
ENABLED_STATES == {"preEnabled"} \cup ACTIVE_STATES
States         == {"disabled"} \cup ENABLED_STATES

-----------------------------------------------------------------------------
(* mutant: the timer is never decremented *)
tickStuck(timer) == timer

tick(timer) == IF timer = 0 THEN 0 ELSE timer - 1

stopNow(T)    == T \cap {"userDisable", "immediateDisable"} # {}
overridden(T) == T \cap {"overrideLateral", "overrideLongitudinal"} # {}

(* The state at entry: the DISABLED section of update. *)
entryState(T) ==
    IF "enable" \notin T \/ "noEntry" \in T THEN "disabled"
    ELSE IF "preEnable" \in T THEN "preEnabled"
    ELSE IF overridden(T)     THEN "overriding"
                              ELSE "enabled"

runningState(T) ==
    IF "softDisable" \in T THEN "softDisabling"
    ELSE IF overridden(T)  THEN "overriding"
                           ELSE "enabled"

(* mutant: one frame too many *)
softDisablingStateLate(timer, T) ==
    IF "softDisable" \notin T THEN "enabled"
    ELSE IF timer >= 0        THEN "softDisabling"
                              ELSE "disabled"

softDisablingState(timer, T) ==
    IF "softDisable" \notin T THEN "enabled"
    ELSE IF timer > 0         THEN "softDisabling"
                              ELSE "disabled"

(* The state after a frame; timer is the timer already ticked.  User and   *)
(* immediate disable have priority in every state but disabled.            *)
nextState(st, timer, T) ==
    IF st = "disabled"           THEN entryState(T)
    ELSE IF stopNow(T)           THEN "disabled"
    ELSE IF st = "softDisabling" THEN softDisablingState(timer, T)
    ELSE IF st = "preEnabled"    THEN (IF "preEnable" \in T THEN "preEnabled" ELSE "enabled")
    ELSE runningState(T)

(* mutant: the timer is reset in every soft disabling frame *)
nextTimerRestarted(st, timer, T) ==
    IF nextState(st, tick(timer), T) = "softDisabling"
    THEN SOFT_DISABLE_TIME
    ELSE tick(timer)

(* The timer is reset on entrance in softDisabling and ticks otherwise. *)
nextTimer(st, timer, T) ==
    IF st # "softDisabling" /\ nextState(st, tick(timer), T) = "softDisabling"
    THEN SOFT_DISABLE_TIME
    ELSE tick(timer)

(* current_alert_types. *)
alertTypes(st, timer, T) ==
    LET new == nextState(st, tick(timer), T) IN
    {"permanent"}
      \cup When(st # "disabled" /\ "userDisable" \in T, "userDisable")
      \cup When(st # "disabled" /\ "userDisable" \notin T
                  /\ "immediateDisable" \in T, "immediateDisable")
      \cup When(new = "softDisabling", "softDisable")
      \cup When(st = "preEnabled" /\ new = "preEnabled", "preEnable")
      \cup (IF st \in {"enabled", "overriding"} /\ new = "overriding"
            THEN {"overrideLateral", "overrideLongitudinal"} ELSE {})
      \cup When(st = "disabled" /\ new # "disabled", "enable")
      \cup When(st = "disabled" /\ {"enable", "noEntry"} \subseteq T, "noEntry")
      \cup When(new \in ACTIVE_STATES, "warning")
=============================================================================
