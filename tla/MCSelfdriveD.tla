---------------------------- MODULE MCSelfdriveD ----------------------------
(* Small instances of SelfdriveD: which cars, which carState messages and   *)
(* which other events a run lets happen.                                    *)
EXTENDS SelfdriveD

Moving == [canValid |-> TRUE, canTimeout |-> FALSE, standstill |-> FALSE,
           slow |-> FALSE, gearShifter |-> "drive", doorOpen |-> FALSE,
           seatbeltUnlatched |-> FALSE, brakeHoldActive |-> FALSE,
           parkingBrake |-> FALSE, brakePressed |-> FALSE, gasPressed |-> FALSE,
           steeringPressed |-> FALSE, lateralAvailable |-> TRUE,
           cruiseAvailable |-> TRUE, cruiseEnabled |-> FALSE,
           cruiseFaultLateralMode |-> FALSE, blockPcmEnable |-> FALSE,
           buttonEnable |-> FALSE, buttons |-> {}]

Stopped == [Moving EXCEPT !.standstill = TRUE, !.slow = TRUE]

MainOff(cs) == [cs EXCEPT !.cruiseAvailable = FALSE, !.lateralAvailable = FALSE]

(* Cruise is faulted, which leaves lateral control (Volkswagen).           *)
FaultLateral(cs) == [cs EXCEPT !.cruiseAvailable = FALSE, !.cruiseFaultLateralMode = TRUE,
                               !.blockPcmEnable = TRUE]

CanLost(cs) == [cs EXCEPT !.canValid = FALSE, !.canTimeout = TRUE]

(* Pedals, the LKAS button and cruise, moving and stopped. *)
PedalStates ==
    {[cs EXCEPT !.brakePressed = b, !.gasPressed = g, !.cruiseEnabled = c, !.buttons = k] :
        cs \in {Moving, Stopped}, b \in BOOLEAN, g \in BOOLEAN, c \in BOOLEAN,
        k \in {{}, {"lkas"}}}

(* Gears, doors, belts, hold and main switch, with and without the brake.  *)
PauseStates ==
    LET at == {[cs EXCEPT !.brakePressed = b] : cs \in {Moving, Stopped}, b \in BOOLEAN}
    IN at \cup {MainOff(cs) : cs \in at}
       \cup {[cs EXCEPT !.cruiseEnabled = TRUE] : cs \in at}
       \cup {[cs EXCEPT !.doorOpen = TRUE] : cs \in at}
       \cup {[cs EXCEPT !.gearShifter = g, !.parkingBrake = (g = "park")] :
               cs \in at, g \in {"park", "reverse"}}
       \cup {MainOff([Stopped EXCEPT !.gearShifter = "park"]),
             [Stopped EXCEPT !.seatbeltUnlatched = TRUE],
             [Stopped EXCEPT !.brakeHoldActive = TRUE],
             [Moving EXCEPT !.buttons = {"lkas"}],
             [Stopped EXCEPT !.buttons = {"lkas"}],
             FaultLateral(Moving), FaultLateral([Moving EXCEPT !.brakePressed = TRUE]),
             FaultLateral([Moving EXCEPT !.cruiseEnabled = TRUE])}

(* Cruise by buttons, lost CAN, override: with the device's own faults.    *)
FaultStates ==
    {Moving, [Moving EXCEPT !.buttonEnable = TRUE, !.buttons = {"setCruise"}],
     [Moving EXCEPT !.buttons = {"lkas"}], [Moving EXCEPT !.buttons = {"cancel"}],
     [Moving EXCEPT !.steeringPressed = TRUE], [Moving EXCEPT !.gasPressed = TRUE],
     Stopped, [Stopped EXCEPT !.brakePressed = TRUE],
     [Stopped EXCEPT !.brakePressed = TRUE, !.buttonEnable = TRUE],
     [Stopped EXCEPT !.gearShifter = "park"],
     CanLost(Moving), CanLost([Stopped EXCEPT !.gearShifter = "park"]),
     [Moving EXCEPT !.canValid = FALSE], MainOff(Moving)}

(* Few enough for the temporal properties: reasons to pause, reasons to    *)
(* soft disable, and cruise.                                               *)
LivenessStates ==
    {Moving, [Moving EXCEPT !.brakePressed = TRUE],
     [Stopped EXCEPT !.doorOpen = TRUE], [Moving EXCEPT !.doorOpen = TRUE],
     [Moving EXCEPT !.cruiseEnabled = TRUE],
     [Moving EXCEPT !.cruiseEnabled = TRUE, !.doorOpen = TRUE]}

Car == [brand |-> "volkswagen", pcmCruise |-> TRUE,
        openpilotLongitudinalControl |-> TRUE, steeringMode |-> "SUSPEND",
        aolEnabled |-> TRUE, passive |-> FALSE, disengageOnAccel |-> FALSE]

DrivingStates == PedalStates \cup PauseStates

PauseCars == {[Car EXCEPT !.steeringMode = m] : m \in BrakeInterventionMode}
DrivingCars == PauseCars \cup {[Car EXCEPT !.disengageOnAccel = TRUE]}
LivenessCars == {Car}
FaultCars == {[Car EXCEPT !.pcmCruise = FALSE],
              [Car EXCEPT !.pcmCruise = FALSE, !.brand = "tesla"],
              [Car EXCEPT !.pcmCruise = FALSE, !.aolEnabled = FALSE],
              [Car EXCEPT !.passive = TRUE]}

NoFaults == {{}}
Faults   == {{}, {"overheat"}, {"tooDistracted"}, {"steerUnavailable"}, {"cruiseDisabled"}}
=============================================================================
