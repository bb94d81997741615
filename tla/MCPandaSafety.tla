--------------------------- MODULE MCPandaSafety ---------------------------
(* Instances of PandaSafety for TLC. *)
EXTENDS PandaSafety

Vw     == {"VOLKSWAGEN_MQB"}
VwLong == {"VOLKSWAGEN_MQB_LONG"}
Tesla  == {"TESLA"}

(* Two of the three brake modes of apply_aol_experience_flags. *)
Pause     == [system_enabled |-> TRUE, disengage_on_brake |-> FALSE, pause_on_brake |-> TRUE]
Disengage == [system_enabled |-> TRUE, disengage_on_brake |-> TRUE, pause_on_brake |-> FALSE]

DisengageOnly == {Disengage}
PauseOnly     == {Pause}

(* What the car sends: cruise, buttons, pedal and motion; fewer of them     *)
(* and a message without signals; cruise, pedal and an ECU that should be  *)
(* silent.                                                                 *)
VwDriving   == {"TSK_06", "GRA_ACC_01", "ESP_05", "ESP_19"}
VwPedals    == {"TSK_06", "GRA_ACC_01", "ESP_05", "OTHER"}
TeslaCruise == {"DI_state", "IBST_status", "STOCK_ECU"}

EngagedOnly == {<<TRUE, TRUE>>}
BothOrNone  == EngagedOnly \cup {<<FALSE, FALSE>>}
=============================================================================
