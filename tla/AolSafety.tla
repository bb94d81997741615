----------------------------- MODULE AolSafety -----------------------------
(***************************************************************************)
(* The panda's own judgement of Always-On Lateral: whether the safety      *)
(* firmware lets steering commands through although cruise is not engaged. *)
(* It is a function of edges: each call of aol_state_update compares the   *)
(* car's signals with those of the call before.                            *)
(*                                                                         *)
(* The state a is a record:                                                *)
(*   system_enabled, disengage_on_brake, pause_on_brake   the configuration *)
(*   acc_main, op_allowed, braking, steering, button      the previous call *)
(*   active_reason, pending_reasons                       why it is off    *)
(*   requested, allowed                                   the permission   *)
(* and in is what the call passes: the same five signals, now.             *)
(***************************************************************************)
EXTENDS Naturals

DisengageReason == {"BRAKE", "LAG", "ACC_MAIN_OFF", "HEARTBEAT_ENGAGED_MISMATCH",
                    "STEERING_DISENGAGE"}
ButtonState     == {"UNAVAILABLE", "NOT_PRESSED", "PRESSED"}

AolConfig == [system_enabled : BOOLEAN, disengage_on_brake : BOOLEAN,
              pause_on_brake : BOOLEAN]

AolState ==
    [system_enabled : BOOLEAN, disengage_on_brake : BOOLEAN, pause_on_brake : BOOLEAN,
     acc_main : BOOLEAN, op_allowed : BOOLEAN, braking : BOOLEAN,
     steering : BOOLEAN, button : ButtonState,
     active_reason : DisengageReason \cup {"NONE"},
     pending_reasons : SUBSET DisengageReason,
     requested : BOOLEAN, allowed : BOOLEAN]

AolInput == [acc_main : BOOLEAN, op_allowed : BOOLEAN, braking : BOOLEAN,
             steering : BOOLEAN, button : ButtonState]

-----------------------------------------------------------------------------
(* The zero-initialised m_aol_state of a panda that has just booted.       *)
AolBoot ==
    [system_enabled |-> FALSE, disengage_on_brake |-> FALSE, pause_on_brake |-> FALSE,
     acc_main |-> FALSE, op_allowed |-> FALSE, braking |-> FALSE,
     steering |-> FALSE, button |-> "NOT_PRESSED",
     active_reason |-> "NONE", pending_reasons |-> {},
     requested |-> FALSE, allowed |-> FALSE]

(* aol_set_system_state.  The previous values of op_allowed, braking and   *)
(* steering survive it.                                                    *)
aol_set_system_state(a, cfg) ==
    [a EXCEPT !.system_enabled     = cfg.system_enabled,
              !.disengage_on_brake = cfg.disengage_on_brake,
              !.pause_on_brake     = cfg.pause_on_brake,
              !.acc_main = FALSE, !.button = "UNAVAILABLE",
              !.active_reason = "NONE", !.pending_reasons = {},
              !.requested = FALSE, !.allowed = FALSE]

(* A request is dropped only together with a permission. *)
aol_exit_controls(a, reason) ==
    IF a.allowed
    THEN [a EXCEPT !.pending_reasons = @ \cup {reason}, !.active_reason = reason,
                   !.requested = FALSE, !.allowed = FALSE]
    ELSE [a EXCEPT !.pending_reasons = @ \cup {reason}]

exitIf(cond, a, reason) == IF cond THEN aol_exit_controls(a, reason) ELSE a

-----------------------------------------------------------------------------
(* Edges.  A button that is unavailable has none. *)
buttonRises(a, in) == in.button = "PRESSED" /\ a.button # "PRESSED"
brakeRises(a, in)  == in.braking /\ ~a.braking
brakeFalls(a, in)  == ~in.braking /\ a.braking
(* mutant: only where the main switch also ended cruise *)
mainFallsCruising(a, in) == ~in.acc_main /\ a.acc_main /\ a.op_allowed
mainFalls(a, in)   == ~in.acc_main /\ a.acc_main
steerRises(a, in)  == in.steering /\ ~a.steering

requests(a, in) == \/ in.acc_main /\ ~a.acc_main
                   \/ in.op_allowed /\ ~a.op_allowed
                   \/ buttonRises(a, in)

(* A primary blocker ends all processing of the call. *)
blocked(a, in) == \/ mainFalls(a, in)
                  \/ steerRises(a, in)
                  \/ a.disengage_on_brake /\ brakeRises(a, in)

(* mutant: the engagement of this call is not remembered *)
sampledNoOp(a, in) ==
    [a EXCEPT !.acc_main = in.acc_main,
              !.braking = in.braking, !.steering = in.steering,
              !.button = IF in.button = "UNAVAILABLE" THEN @ ELSE in.button,
              !.requested = @ \/ requests(a, in)]

(* The signals of this call, seen and remembered, and any new request.     *)
sampled(a, in) ==
    [a EXCEPT !.acc_main = in.acc_main, !.op_allowed = in.op_allowed,
              !.braking = in.braking, !.steering = in.steering,
              !.button = IF in.button = "UNAVAILABLE" THEN @ ELSE in.button,
              !.requested = @ \/ requests(a, in)]

(* The exits of this call, in the order of the code.                       *)
exited(a, in) ==
    LET a1 == exitIf(mainFalls(a, in), sampled(a, in), "ACC_MAIN_OFF")
        a2 == exitIf(steerRises(a, in), a1, "STEERING_DISENGAGE")
    IN exitIf(brakeRises(a, in)
                /\ (a.disengage_on_brake \/ (a.pause_on_brake /\ ~blocked(a, in))),
              a2, "BRAKE")

(* The brake is released, and it was the only reason to be off.            *)
resumes(a, in) ==
    /\ a.pause_on_brake /\ ~blocked(a, in) /\ brakeFalls(a, in)
    /\ a.active_reason = "BRAKE" /\ a.pending_reasons = {"BRAKE"}

asks(a, in) == exited(a, in).requested \/ resumes(a, in)

(* mutant: a request made while braking is granted at once *)
grantsBraking(a, in) ==
    ~blocked(a, in) /\ asks(a, in) /\ ~exited(a, in).allowed

grants(a, in) ==
    /\ ~blocked(a, in) /\ ~(a.pause_on_brake /\ in.braking)
    /\ asks(a, in) /\ ~exited(a, in).allowed

aol_state_update(a, in) ==
    IF grants(a, in)
    THEN [exited(a, in) EXCEPT !.requested = FALSE, !.allowed = TRUE,
                               !.active_reason = "NONE", !.pending_reasons = {}]
    ELSE [exited(a, in) EXCEPT !.requested = asks(a, in)]

(* The call is made n times in a row, once for each transmit message whose *)
(* relay is checked: 2, 3 or 6 times in the modes modelled.                *)
aol_state_updates(a, in, n) ==
    LET twice(x) == aol_state_update(aol_state_update(x, in), in)
    IN IF n = 2 THEN twice(a)
       ELSE IF n = 3 THEN aol_state_update(twice(a), in)
       ELSE twice(twice(twice(a)))
=============================================================================
