------------------------------ MODULE AolEngine ------------------------------
(***************************************************************************)
(* The state machine of Always-On Lateral (AOL).  It runs in the same frame *)
(* as the engagement state machine, right after it, and borrows that        *)
(* machine's soft disable timer and alert types.                            *)
(*                                                                          *)
(* A pulse is the digest of the frame's events that the handlers test:      *)
(*   wake     an enable event          kill   a user disable event          *)
(*   gate     a no-entry event         cut    an immediate disable event    *)
(*   cooldown a soft disable event     hands  a lateral override event      *)
(*   hush     silentLkasDisable        pit    an event that allows pausing  *)
(***************************************************************************)
EXTENDS StateMachine

TORQUE_DELIVERING_STATES  == {"enabled", "softDisabling", "overriding"}
LATERAL_CONTROLLED_STATES == {"paused"} \cup TORQUE_DELIVERING_STATES
AolStates                 == {"disabled"} \cup LATERAL_CONTROLLED_STATES

Pulses == [wake : BOOLEAN, gate : BOOLEAN, cooldown : BOOLEAN, kill : BOOLEAN,
           cut : BOOLEAN, hands : BOOLEAN, hush : BOOLEAN, pit : BOOLEAN]

capturePulse(evs, iq) ==
    LET sees(type) == contains(evs, EVENTS, type) \/ contains(iq, EVENTS_IQ, type)
    IN [wake     |-> sees("enable"),
        gate     |-> sees("noEntry"),
        cooldown |-> sees("softDisable"),
        kill     |-> sees("userDisable"),
        cut      |-> sees("immediateDisable"),
        hands    |-> sees("overrideLateral"),
        hush     |-> "silentLkasDisable" \in iq,
        pit      |-> \/ evs \cap PAUSE_WITH_STOCK_EVENTS # {}
                     \/ iq \cap PAUSE_WITH_IQ_EVENTS # {}]

-----------------------------------------------------------------------------
(* _run_global_cutoffs: every handler but the disabled one runs it first.  *)
forced(p)      == p.kill \/ p.cut
forcedState(p) == IF p.kill /\ p.hush THEN "paused" ELSE "disabled"

running(p) == IF p.hands THEN "overriding" ELSE "enabled"

handleDisabled(p) ==
    IF ~p.wake THEN "disabled"
    ELSE IF p.gate THEN (IF p.pit THEN "paused" ELSE "disabled")
    ELSE running(p)

handlePaused(p) ==
    IF forced(p) THEN forcedState(p)
    ELSE IF ~p.wake \/ p.gate THEN "paused"
    ELSE running(p)

(* The handlers of enabled and overriding differ only in their alerts.     *)
handleRunning(p) ==
    IF forced(p) THEN forcedState(p)
    ELSE IF p.cooldown THEN "softDisabling"
    ELSE running(p)

handleSoftDisabling(p, timer) ==
    IF forced(p) THEN forcedState(p)
    ELSE IF ~p.cooldown THEN "enabled"
    ELSE IF timer > 0 THEN "softDisabling" ELSE "disabled"

aolNextState(st, p, timer) ==
    IF st = "disabled"           THEN handleDisabled(p)
    ELSE IF st = "paused"        THEN handlePaused(p)
    ELSE IF st = "softDisabling" THEN handleSoftDisabling(p, timer)
    ELSE handleRunning(p)

(* mutant: the grace period is also started by an AOL that already soft    *)
(* disables                                                                *)
aolTimerRestarted(st, p, timer, ssEnabled) ==
    IF ~ssEnabled /\ st # "disabled" /\ aolNextState(st, p, timer) = "softDisabling"
    THEN SOFT_DISABLE_TIME
    ELSE timer

(* _start_grace_period: the shared timer is started only when the          *)
(* engagement machine is off, which is expected to have started it itself  *)
(* otherwise.                                                               *)
aolTimer(st, p, timer, ssEnabled) ==
    IF ~ssEnabled /\ st \in {"enabled", "overriding"}
                  /\ aolNextState(st, p, timer) = "softDisabling"
    THEN SOFT_DISABLE_TIME
    ELSE timer

(* The alert types that the AOL machine appends to those of the frame.     *)
aolAlerts(st, p, timer, ssEnabled) ==
    LET new  == aolNextState(st, p, timer)
        on   == st # "disabled"
        solo == IF on /\ p.kill THEN {}
                ELSE When(on /\ p.cut, "immediateDisable")
                  \cup When(~on /\ p.wake /\ p.gate, "noEntry")
                  \cup When(st = "paused" /\ ~p.cut /\ p.wake /\ p.gate, "noEntry")
                  \cup When(st \in {"disabled", "paused"}
                              /\ new \in TORQUE_DELIVERING_STATES, "enable")
                  \cup When(new = "softDisabling", "softDisable")
                  \cup When(st = "enabled" /\ new = "overriding", "overrideLateral")
                  \cup When(new \in TORQUE_DELIVERING_STATES, "warning")
    IN (IF ssEnabled THEN {} ELSE solo)
         \cup When(on /\ p.kill, "userDisable")
         \cup When(st = "overriding" /\ new = "overriding", "overrideLateral")
=============================================================================
