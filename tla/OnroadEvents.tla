---------------------------- MODULE OnroadEvents ----------------------------
(***************************************************************************)
(* The onroad events of selfdrived and the event types they carry.  An     *)
(* event is known to the state machines only through its types (ET): the   *)
(* tables EVENTS and EVENTS_IQ map each event name to the set of alerts it *)
(* has, one for each type.  Alert texts, sounds and priorities are left    *)
(* out; only the presence of a type is kept.                               *)
(*                                                                         *)
(* A frame's events are a set of names.  The code keeps a sorted list in   *)
(* which a name may occur twice; none of the names that are removed again  *)
(* within a frame is ever added twice.                                     *)
(***************************************************************************)

ET == {"enable", "preEnable", "overrideLateral", "overrideLongitudinal",
       "noEntry", "warning", "userDisable", "softDisable",
       "immediateDisable", "permanent"}

-----------------------------------------------------------------------------
(* Groups of stock events that carry the same disabling types. *)

softDisableEvents ==
    {"locationdTemporaryError", "paramsdTemporaryError", "steerTempUnavailable",
     "steerTimeLimit", "excessiveActuation", "wrongGear", "doorOpen",
     "seatbeltNotLatched", "espDisabled", "lowBattery", "commIssue",
     "commIssueAvgFreq", "selfdrivedLagging", "processNotRunning", "radarFault",
     "radarTempUnavailable", "posenetInvalid", "deviceFalling", "espActive",
     "cameraMalfunction", "cameraFrameRate", "sensorDataInvalid", "overheat",
     "calibrationInvalid", "calibrationIncomplete", "calibrationRecalibrating",
     "modeldLagging", "lowMemory", "usbError"}

immediateNoEntryEvents ==
    {"controlsMismatch", "locationdPermanentError", "paramsdPermanentError",
     "accFaulted", "canError", "canBusMissing", "steerUnavailable",
     "relayMalfunction", "vehicleSensorsInvalid"}

userNoEntryEvents ==
    {"buttonCancel", "parkBrake", "pedalPressed", "steerDisengage",
     "wrongCarMode", "wrongCruiseMode", "reverseGear"}

noEntryOnlyEvents ==
    {"startupNoControl", "invalidLkasSetting", "aeb", "stockAeb", "stockLkas",
     "outOfSpace", "selfdriveInitializing", "resumeBlocked", "belowEngageSpeed",
     "tooDistracted", "speedTooHigh"}

alertOnlyEvents ==
    {"startup", "startupMaster", "startupNoCar", "startupNoSecOcKey",
     "dashcamMode", "carUnrecognized", "fcw", "ldw", "preDriverDistracted",
     "promptDriverDistracted", "driverDistracted", "preDriverUnresponsive",
     "promptDriverUnresponsive", "driverUnresponsive", "fanMalfunction",
     "userBookmark", "steerTempUnavailableSilent", "manualRestart",
     "resumeRequired", "belowSteerSpeed", "preLaneChangeLeft",
     "preLaneChangeRight", "laneChangeBlocked", "laneChange", "steerSaturated",
     "brakeHold", "personalityChanged", "joystickDebug", "longitudinalManeuver",
     "stockFcw", "actuatorsApiUnavailable", "cruiseMismatch", "noGps",
     "audioFeedback"}

(* EVENTS: for each type that the state machines test, the events with it. *)
EVENTS ==
    [enable               |-> {"pcmEnable", "buttonEnable"},
     preEnable            |-> {"preEnableStandstill"},
     overrideLateral      |-> {"steerOverride"},
     overrideLongitudinal |-> {"gasPressedOverride"},
     noEntry              |-> softDisableEvents \cup immediateNoEntryEvents
                                \cup userNoEntryEvents \cup noEntryOnlyEvents,
     userDisable          |-> userNoEntryEvents \cup {"pcmDisable"},
     softDisable          |-> softDisableEvents,
     immediateDisable     |-> immediateNoEntryEvents
                                \cup {"cruiseDisabled", "speedTooLow"}]

EventName ==
    alertOnlyEvents \cup UNION {EVENTS[t] : t \in DOMAIN EVENTS}

-----------------------------------------------------------------------------
(* EVENTS_IQ, in the same form. *)

PAUSE_WITH_IQ_EVENTS ==
    {"silentWrongGear", "silentReverseGear", "silentBrakeHold",
     "silentDoorOpen", "silentSeatbeltNotLatched", "silentParkBrake"}

PAUSE_WITH_STOCK_EVENTS ==
    {"wrongGear", "reverseGear", "brakeHold", "doorOpen", "seatbeltNotLatched",
     "parkBrake"}

EVENTS_IQ ==
    [enable               |-> {"lkasEnable", "silentLkasEnable"},
     preEnable            |-> {},
     overrideLateral      |-> {},
     overrideLongitudinal |-> {},
     noEntry              |-> PAUSE_WITH_IQ_EVENTS
                                \cup {"controlsMismatchLateral"},
     userDisable          |-> {"lkasDisable", "manualSteeringRequired",
                               "silentLkasDisable"},
     softDisable          |-> {},
     immediateDisable     |-> {"controlsMismatchLateral"}]

EventNameIQ ==
    UNION {EVENTS_IQ[t] : t \in DOMAIN EVENTS_IQ}
      \cup {"manualLongitudinalRequired", "experimentalModeSwitched",
            "wrongCarModeAlertOnly", "pedalPressedAlertOnly", "laneTurnLeft",
            "laneTurnRight", "speedLimitActive", "speedLimitChanged",
            "speedLimitPreActive", "speedLimitPending", "e2eChime"}

-----------------------------------------------------------------------------
(* EventsBase.contains: does some event of the frame carry the type?  The   *)
(* types of a frame are all that the state machines see of its events.     *)
contains(evs, table, type) == evs \cap table[type] # {}

typesOf(evs, table) == {t \in DOMAIN table : contains(evs, table, t)}

(* One event, if its condition holds: the shape of every `events.add`.     *)
When(cond, event) == IF cond THEN {event} ELSE {}
=============================================================================
