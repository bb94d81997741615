------------------------------- MODULE Onroad -------------------------------
(***************************************************************************)
(* How a drive starts and ends: hardwared decides that the car is started, *)
(* the manager clears the parameters of the last drive, sets IsOnroad and  *)
(* starts or stops card, card fingerprints the car and leaves its          *)
(* parameters, and pandad reads them and sets the panda's safety mode once *)
(* per drive.  All four run concurrently and meet only in the parameters   *)
(* and in conflated messages; pandad may die at any step.                  *)
(*                                                                         *)
(* CarParams and IQCarParams are the drive whose card wrote them: "this"   *)
(* one, an "earlier" one, or "none".  What belongs to this drive ages when *)
(* the next begins; the copy in pandad is then "overtaken".  "CAR" is the  *)
(* mode that the parameters name (no output, if card was passive).  card   *)
(* stands for the processes that run only onroad.                          *)
(***************************************************************************)
EXTENDS Naturals

CONSTANTS
    Budgets     \* bounds of a behaviour

Counters == {"changes", "settings", "stalls", "deaths"}
ASSUME BudgetsAssumption == Budgets \subseteq [Counters -> Nat]

Fit == {"no", "stay", "start"}  \* conditions: none hold, those to stay onroad, also those to start

VARIABLES
    car,        \* ignition, and the device's conditions besides it
    started_ts, \* hardwared: the drive has started
    sent,       \* the latest pandaStates.ignition and deviceState.started
    mgr,        \* manager_thread: where it is, started, started_prev
    P,          \* the parameters
    card,       \* the card process and where it is
    ui,         \* the settings page: the second parameter it has yet to put
    pandad,     \* native pandad and its PandaSafety; history: it is unaware of the
                \* begin of this drive, as it started later or slept between drives
    panda,      \* the panda's safety mode and the drive it was configured for
    late,       \* history: in this drive a card of an earlier one wrote a parameter
    left        \* what is left of the budget

vars == <<car, started_ts, sent, mgr, P, card, ui, pandad, panda, late, left>>

Cleared == [IsOnroad |-> FALSE, FirmwareQueryDone |-> FALSE, ControlsReady |-> FALSE,
            CarParams |-> "none", IQCarParams |-> "none", ObdMultiplexingEnabled |-> FALSE,
            ObdMultiplexingChanged |-> FALSE, OffroadMode |-> FALSE, ForceOnroad |-> FALSE]

NoCard == [proc |-> "none", pc |-> "start", drive |-> "none", passive |-> FALSE,
           writing |-> FALSE]
NewPandad == [proc |-> "alive", pc |-> "state", is_onroad |-> FALSE, initialized_ |-> FALSE,
              safety_configured_ |-> FALSE, prev_obd_multiplexing_ |-> FALSE, got |-> "none",
              unaware |-> FALSE]

Aged(d) == IF d = "this" THEN "earlier" ELSE d

(* The next drive begins.                                                  *)
DriveBegins ==
    /\ card' = [card EXCEPT !.drive = Aged(@)]
    /\ panda' = [panda EXCEPT !.drive = Aged(@)]
    /\ pandad' = [pandad EXCEPT !.unaware = @ \/ pandad.is_onroad,
                                !.got = IF @ = "none" THEN @ ELSE "overtaken"]
    /\ late' = FALSE

Spend(c) == left[c] > 0 /\ left' = [left EXCEPT ![c] = @ - 1]
----------------------------------------------------------------------------
(* hardwared.  Without pandaStates for DISCONNECT_TIMEOUT, ignition is off *)
(* until they come again.                                                  *)
Ignition == IF pandad.proc = "alive" THEN {sent.ignition} ELSE {sent.ignition, FALSE}

ShouldStart(ignition, force) ==
    /\ ignition
    /\ ~P.OffroadMode \/ force          \* not_always_offroad
    /\ car.fit = "start" \/ (car.fit = "stay" /\ started_ts)

(* force: the exception from Always Offroad, until its time is up.         *)
Exception == P.OffroadMode /\ P.ForceOnroad

HardwareThread(force) ==
    \E ignition \in Ignition :
        /\ started_ts' = ShouldStart(ignition, force)
        /\ sent' = [sent EXCEPT !.ignition = ignition,
                                 !.started = ShouldStart(ignition, force) /\ ~P.OffroadMode]
        /\ P' = [P EXCEPT !.ForceOnroad = force]
        /\ UNCHANGED <<car, mgr, card, pandad, panda, late, ui, left>>
----------------------------------------------------------------------------
(* manager_thread: clear, write IsOnroad, ensure_running.                  *)

(* Mutant: the parameters of the drive before are not cleared.             *)
ManagerUpdateKeeps ==
    /\ mgr.pc = "update"
    /\ mgr' = [mgr EXCEPT !.started = sent.started,
                          !.pc = IF sent.started = mgr.started_prev THEN "ensure" ELSE "write"]
    /\ IF sent.started /\ ~mgr.started_prev
       THEN /\ P' = [P EXCEPT !.CarParams = Aged(@), !.IQCarParams = Aged(@)]
            /\ DriveBegins
       ELSE UNCHANGED <<P, card, pandad, panda, late>>
    /\ UNCHANGED <<car, started_ts, sent, ui, left>>

ManagerUpdate ==
    /\ mgr.pc = "update"
    /\ mgr' = [mgr EXCEPT !.started = sent.started,
                          !.pc = IF sent.started = mgr.started_prev THEN "ensure" ELSE "write"]
    /\ \/ /\ sent.started /\ ~mgr.started_prev
          /\ P' = [Cleared EXCEPT !.IsOnroad = P.IsOnroad,
                                  !.OffroadMode = P.OffroadMode, !.ForceOnroad = P.ForceOnroad]
          /\ DriveBegins
       \/ /\ ~sent.started /\ mgr.started_prev
          /\ P' = [P EXCEPT !.ForceOnroad = FALSE]
          /\ UNCHANGED <<card, pandad, panda, late>>
       \/ /\ sent.started = mgr.started_prev
          /\ UNCHANGED <<P, card, pandad, panda, late>>
    /\ UNCHANGED <<car, started_ts, sent, ui, left>>

(* write_onroad_params *)
ManagerWrite ==
    /\ mgr.pc = "write"
    /\ mgr' = [mgr EXCEPT !.pc = "ensure", !.started_prev = mgr.started]
    /\ P' = [P EXCEPT !.IsOnroad = mgr.started]
    /\ UNCHANGED <<car, started_ts, sent, card, pandad, panda, late, ui, left>>

Stopping     == {"dying", "interrupted", "deaf", "dead"}
ShuttingDown == card.proc \in Stopping
Waiting      == card.pc \in {"on wait", "off wait"}

Start ==
    /\ mgr.pc = "ensure" /\ mgr.started /\ ~ShuttingDown
    /\ card' = IF card.proc = "none" THEN [NoCard EXCEPT !.proc = "running", !.drive = "this"] ELSE card
    /\ mgr' = [mgr EXCEPT !.pc = "update"]
    /\ UNCHANGED <<car, started_ts, sent, P, pandad, panda, late, ui, left>>

(* stop(block=False) the first time: SIGINT and no waiting.  A card that   *)
(* waits in get_bool(block=True) has its handler replaced: the signal ends *)
(* the wait, and card goes on.                                             *)
Signal ==
    /\ mgr.pc = "ensure" /\ ~mgr.started /\ ~ShuttingDown
    /\ card' = IF card.proc = "running"
               THEN [card EXCEPT !.proc = IF Waiting THEN "interrupted" ELSE "dying"]
               ELSE card
    /\ mgr' = [mgr EXCEPT !.pc = "update"]
    /\ UNCHANGED <<car, started_ts, sent, P, pandad, panda, late, ui, left>>

(* Mutant: no SIGKILL for a process that does not exit by itself.          *)
JoinOnly ==
    /\ mgr.pc = "ensure" /\ ShuttingDown
    /\ mgr' = [mgr EXCEPT !.pc = IF mgr.started THEN "ensure" ELSE "update"]
    /\ UNCHANGED <<car, started_ts, sent, P, card, pandad, panda, late, ui, left>>

(* stop() of a process that is shutting down waits for it, then SIGKILL.   *)
Join ==
    /\ mgr.pc = "ensure" /\ ShuttingDown
    /\ card' = NoCard
    /\ mgr' = [mgr EXCEPT !.pc = IF mgr.started THEN "ensure" ELSE "update"]
    /\ UNCHANGED <<car, started_ts, sent, P, pandad, panda, late, ui, left>>
----------------------------------------------------------------------------
(* card.  A cached fingerprint needs no query; otherwise OBD multiplexing  *)
(* is asked for, and then turned off in any case.                          *)
CardRuns(from, to) ==
    /\ card.proc \in {"running", "deaf"} /\ card.pc = from
    /\ card' = [card EXCEPT !.pc = to]

WriteParam(key, val) ==
    /\ P' = [P EXCEPT ![key] = val]
    /\ late' = (late \/ card.drive = "earlier")

CardStart == /\ CardRuns("start", "on") \/ CardRuns("start", "off")
             /\ UNCHANGED <<car, started_ts, sent, mgr, P, pandad, panda, late, ui, left>>

(* set_obd_multiplexing: nothing to do, or remove, put and wait.           *)
ObdSame(from, to, obd) ==
    /\ CardRuns(from, to) /\ P.ObdMultiplexingEnabled = obd
    /\ UNCHANGED <<car, started_ts, sent, mgr, P, pandad, panda, late, ui, left>>

ObdRemoveChanged(from, to, obd) ==
    /\ CardRuns(from, to) /\ P.ObdMultiplexingEnabled # obd
    /\ WriteParam("ObdMultiplexingChanged", FALSE)
    /\ UNCHANGED <<car, started_ts, sent, mgr, pandad, panda, ui, left>>

ObdRequest(from, to, obd) ==
    /\ CardRuns(from, to)
    /\ WriteParam("ObdMultiplexingEnabled", obd)
    /\ UNCHANGED <<car, started_ts, sent, mgr, pandad, panda, ui, left>>

(* The wait also ends with the signal, of which card learns nothing.       *)
ObdChanged(from, to) ==
    /\ card.pc = from
    /\ \/ card.proc \in {"running", "deaf"} /\ P.ObdMultiplexingChanged
          /\ card' = [card EXCEPT !.pc = to]
       \/ card.proc = "interrupted"
          /\ card' = [card EXCEPT !.pc = to, !.proc = "deaf"]
    /\ UNCHANGED <<car, started_ts, sent, mgr, P, pandad, panda, late, ui, left>>

Obd(from, put, wait, to, obd) ==
    \/ ObdSame(from, to, obd) \/ ObdRemoveChanged(from, put, obd)
    \/ ObdRequest(put, wait, obd) \/ ObdChanged(wait, to)

SetObdMultiplexing ==
    \/ Obd("on", "on put", "on wait", "off", TRUE)
    \/ Obd("off", "off put", "off wait", "query done", FALSE)

FirmwareQueryDone ==
    /\ CardRuns("query done", "params")
    /\ WriteParam("FirmwareQueryDone", TRUE)
    /\ UNCHANGED <<car, started_ts, sent, mgr, pandad, panda, ui, left>>

(* passive: a dashcam, or openpilot is switched off.                       *)
PutCarParams ==
    /\ card.proc \in {"running", "deaf"} /\ card.pc = "params"
    /\ \E passive \in BOOLEAN : card' = [card EXCEPT !.pc = "iq params", !.passive = passive]
    /\ WriteParam("CarParams", card.drive)
    /\ UNCHANGED <<car, started_ts, sent, mgr, pandad, panda, ui, left>>

PutIQCarParams ==
    /\ CardRuns("iq params", "init")
    /\ WriteParam("IQCarParams", card.drive)
    /\ UNCHANGED <<car, started_ts, sent, mgr, pandad, panda, ui, left>>

(* controls_update, when selfdrived is initialized: put_bool_nonblocking.  *)
ControlsUpdate ==
    /\ card.proc \in {"running", "deaf"} /\ card.pc = "init" /\ ~card.passive
    /\ card' = [card EXCEPT !.pc = "run", !.writing = TRUE]
    /\ UNCHANGED <<car, started_ts, sent, mgr, P, pandad, panda, late, ui, left>>

ControlsReady ==
    /\ card.writing
    /\ card' = [card EXCEPT !.writing = FALSE]
    /\ WriteParam("ControlsReady", TRUE)
    /\ UNCHANGED <<car, started_ts, sent, mgr, pandad, panda, ui, left>>

(* KeyboardInterrupt; the exit waits for the write in the background.      *)
CardExit ==
    /\ card.proc = "dying" /\ ~card.writing
    /\ card' = [card EXCEPT !.proc = "dead"]
    /\ UNCHANGED <<car, started_ts, sent, mgr, P, pandad, panda, late, ui, left>>

CardNext == \/ CardStart \/ SetObdMultiplexing \/ FirmwareQueryDone \/ PutCarParams \/ PutIQCarParams
            \/ ControlsUpdate \/ ControlsReady \/ CardExit
----------------------------------------------------------------------------
(* pandad, ten times a second.                                             *)
Pandad(from) == pandad.proc = "alive" /\ pandad.pc = from

(* Mutant: the relay is closed only when the ignition is off.              *)
ShouldCloseRelayIgnition(is_onroad) == ~car.ignition

ShouldCloseRelay(is_onroad) == ~car.ignition \/ ~is_onroad

(* process_panda_state: report, leave SILENT, close the relay, heartbeat.  *)
(* configureSafetyMode forgets the drive before when not onroad.           *)
ProcessPandaState ==
    /\ Pandad("state")
    /\ sent' = [sent EXCEPT !.ignition = car.ignition]
    /\ panda' = IF panda.mode = "SILENT" \/ ShouldCloseRelay(P.IsOnroad)
                THEN [mode |-> "NO_OUTPUT", drive |-> "none"] ELSE panda
    /\ pandad' = [pandad EXCEPT
           !.is_onroad = P.IsOnroad,
           !.pc = IF P.IsOnroad /\ ~pandad.safety_configured_ THEN "mux" ELSE "state",
           !.unaware = @ /\ P.IsOnroad,
           !.initialized_ = @ /\ P.IsOnroad,
           !.safety_configured_ = @ /\ P.IsOnroad]
    /\ UNCHANGED <<car, started_ts, mgr, P, card, late, ui, left>>

(* updateMultiplexingMode *)
UpdateMultiplexingMode ==
    /\ Pandad("mux")
    /\ LET prev      == pandad.initialized_ /\ pandad.prev_obd_multiplexing_
           requested == P.ObdMultiplexingEnabled
       IN  /\ panda' = IF ~pandad.initialized_ \/ requested # prev
                       THEN [mode |-> "ELM327", drive |-> "none"] ELSE panda
           /\ pandad' = [pandad EXCEPT
                  !.initialized_ = TRUE,
                  !.prev_obd_multiplexing_ = requested,
                  !.pc = IF requested # prev THEN "changed" ELSE "fetch"]
    /\ UNCHANGED <<car, started_ts, sent, mgr, P, card, late, ui, left>>

(* Mutant: card is not told.                                               *)
PutChangedNot ==
    /\ Pandad("changed")
    /\ pandad' = [pandad EXCEPT !.pc = "fetch"]
    /\ UNCHANGED <<car, started_ts, sent, mgr, P, card, panda, late, ui, left>>

PutChanged ==
    /\ Pandad("changed")
    /\ P' = [P EXCEPT !.ObdMultiplexingChanged = TRUE]
    /\ pandad' = [pandad EXCEPT !.pc = "fetch"]
    /\ UNCHANGED <<car, started_ts, sent, mgr, card, panda, late, ui, left>>

(* fetchCarParams: two conditions and two parameters, one read each.       *)
FetchReads(from, to, goOn) ==
    /\ Pandad(from)
    /\ pandad' = [pandad EXCEPT !.pc = IF goOn THEN to ELSE "state"]

Fetched(a, b) == CASE "none" \in {a, b}      -> "none"
                   [] "overtaken" \in {a, b} -> "overtaken"
                   [] "earlier" \in {a, b}   -> "earlier"
                   [] OTHER                  -> "this"

FetchCarParams ==
    /\ \/ FetchReads("fetch", "ready", P.FirmwareQueryDone)
       \/ FetchReads("ready", "params", P.ControlsReady)
       \/ /\ Pandad("params")
          /\ pandad' = [pandad EXCEPT !.pc = "iq params", !.got = P.CarParams]
       \/ /\ Pandad("iq params")
          /\ pandad' = [pandad EXCEPT !.pc = "set", !.got = Fetched(@, P.IQCarParams)]
    /\ UNCHANGED <<car, started_ts, sent, mgr, P, card, panda, late, ui, left>>

(* setSafetyMode, with what was fetched: parameters that were not there    *)
(* cannot be read, and pandad ends.                                        *)
SetSafetyMode ==
    /\ Pandad("set")
    /\ \/ /\ pandad.got # "none"
          /\ panda' = [mode |-> "CAR", drive |-> IF pandad.got = "this" THEN "this" ELSE "earlier"]
          /\ pandad' = [pandad EXCEPT !.pc = "state", !.safety_configured_ = TRUE, !.got = "none"]
       \/ /\ pandad.got = "none"
          /\ pandad' = [pandad EXCEPT !.proc = "dead"]
          /\ UNCHANGED panda
    /\ UNCHANGED <<car, started_ts, sent, mgr, P, card, late, ui, left>>

PandadNext == \/ ProcessPandaState \/ UpdateMultiplexingMode \/ PutChanged
              \/ FetchCarParams \/ SetSafetyMode

(* pandad crashes, or exits and closes the relay unless it is engaged.     *)
PandadDies ==
    /\ pandad.proc = "alive" /\ Spend("deaths")
    /\ \E how \in {"dead", "gone"} : pandad' = [pandad EXCEPT !.proc = how]
    /\ panda' \in {panda} \cup IF pandad.is_onroad THEN {[mode |-> "NO_OUTPUT", drive |-> "none"]} ELSE {}
    /\ UNCHANGED <<car, started_ts, sent, mgr, P, card, ui, late>>

(* pandad.py starts it again, unless that has died as well ("gone").       *)
PandadRestarts ==
    /\ pandad.proc = "dead"
    /\ pandad' = [NewPandad EXCEPT !.unaware = TRUE]
    /\ UNCHANGED <<car, started_ts, sent, mgr, P, card, panda, late, ui, left>>

(* The panda without a heartbeat; a pandad that stalls comes back.         *)
HeartbeatLost ==
    /\ panda.mode # "SILENT"
    /\ \/ pandad.proc # "alive" /\ UNCHANGED left
       \/ pandad.proc = "alive" /\ Spend("stalls")
    /\ panda' = [mode |-> "SILENT", drive |-> "none"]
    /\ UNCHANGED <<car, started_ts, sent, mgr, P, card, pandad, ui, late>>
----------------------------------------------------------------------------
(* The driver and the device: ignition, conditions, Always Offroad and its *)
(* exception for a limited time.                                           *)
CarChanges ==
    /\ Spend("changes")
    /\ \/ car' = [car EXCEPT !.ignition = ~@]
       \/ \E f \in Fit \ {car.fit} : car' = [car EXCEPT !.fit = f]
    /\ UNCHANGED <<started_ts, sent, mgr, P, card, pandad, panda, ui, late>>

(* Leaving Always Offroad ends the exception first.                        *)
AlwaysOffroad ==
    /\ ui = "idle" /\ Spend("settings")
    /\ IF P.OffroadMode THEN ui' = "leave" /\ P' = [P EXCEPT !.ForceOnroad = FALSE]
                        ELSE UNCHANGED ui /\ P' = [P EXCEPT !.OffroadMode = TRUE]
    /\ UNCHANGED <<car, started_ts, sent, mgr, card, pandad, panda, late>>

(* Asked for offroad; the dialog may be confirmed later.                   *)
ForceOnroad ==
    /\ ui = "idle" /\ Spend("settings")
    /\ ui' = "force" /\ P' = [P EXCEPT !.OffroadMode = TRUE]
    /\ UNCHANGED <<car, started_ts, sent, mgr, card, pandad, panda, late>>

PutSecond ==
    /\ ui # "idle" /\ ui' = "idle"
    /\ P' = IF ui = "force" THEN [P EXCEPT !.ForceOnroad = TRUE] ELSE [P EXCEPT !.OffroadMode = FALSE]
    /\ UNCHANGED <<car, started_ts, sent, mgr, card, pandad, panda, late, left>>

Environment == CarChanges \/ AlwaysOffroad \/ ForceOnroad \/ PutSecond
----------------------------------------------------------------------------
Init ==
    /\ car = [ignition |-> FALSE, fit |-> "start"]
    /\ started_ts = FALSE
    /\ sent = [ignition |-> FALSE, started |-> FALSE]
    /\ mgr = [pc |-> "update", started |-> FALSE, started_prev |-> FALSE]
    /\ P = Cleared
    /\ card = NoCard /\ ui = "idle"
    /\ pandad = NewPandad
    /\ panda = [mode |-> "SILENT", drive |-> "none"]
    /\ late = FALSE
    /\ left \in Budgets

ManagerNext == ManagerUpdate \/ ManagerWrite \/ Start \/ Signal \/ Join

Next ==
    \/ HardwareThread(Exception) \/ (Exception /\ HardwareThread(FALSE))
    \/ ManagerNext \/ CardNext
    \/ PandadNext \/ PandadDies \/ PandadRestarts \/ HeartbeatLost
    \/ Environment

Spec == Init /\ [][Next]_vars

(* Every loop goes on; the panda counts the seconds without a heartbeat.   *)
FairSpec ==
    /\ Spec
    /\ WF_vars(HardwareThread(Exception)) /\ WF_vars(ManagerNext) /\ WF_vars(CardNext)
    /\ WF_vars(PandadNext) /\ WF_vars(PandadRestarts)
    /\ WF_vars(HeartbeatLost /\ pandad.proc = "gone")
----------------------------------------------------------------------------
Ages      == {"none", "this", "earlier"}
CardSteps == {"start", "on", "on put", "on wait", "off", "off put", "off wait",
              "query done", "params", "iq params", "init", "run"}

ParamsType == [IsOnroad : BOOLEAN, FirmwareQueryDone : BOOLEAN, ControlsReady : BOOLEAN,
               CarParams : Ages, IQCarParams : Ages, ObdMultiplexingEnabled : BOOLEAN,
               ObdMultiplexingChanged : BOOLEAN, OffroadMode : BOOLEAN, ForceOnroad : BOOLEAN]
CardType   == [proc : {"none", "running"} \cup Stopping, pc : CardSteps, drive : Ages,
               passive : BOOLEAN, writing : BOOLEAN]
PandadType == [proc : {"alive", "dead", "gone"},
               pc : {"state", "mux", "changed", "fetch", "ready", "params", "iq params", "set"},
               is_onroad : BOOLEAN, initialized_ : BOOLEAN, safety_configured_ : BOOLEAN,
               prev_obd_multiplexing_ : BOOLEAN, got : Ages \cup {"overtaken"},
               unaware : BOOLEAN]

(* The variables have their types.                                         *)
TypeOK ==
    /\ car \in [ignition : BOOLEAN, fit : Fit]
    /\ started_ts \in BOOLEAN
    /\ sent \in [ignition : BOOLEAN, started : BOOLEAN]
    /\ mgr \in [pc : {"update", "write", "ensure"}, started : BOOLEAN, started_prev : BOOLEAN]
    /\ P \in ParamsType /\ late \in BOOLEAN
    /\ card \in CardType /\ ui \in {"idle", "leave", "force"}
    /\ pandad \in PandadType
    /\ panda \in [mode : {"SILENT", "NO_OUTPUT", "ELM327", "CAR"}, drive : Ages]
    /\ left \in [Counters -> Nat]

(* When the drive has ended, or the ignition is off, the panda stops       *)
(* output and the relay is closed, pandad alive or not.                    *)
Ended == ~P.IsOnroad \/ ~car.ignition
RelayCloses == Ended ~> (panda.mode \in {"NO_OUTPUT", "SILENT"} \/ ~Ended)

(* A car's safety mode is set with the parameters of the drive it is for,  *)
(* never with those of the drive before, but for two cases: a card that    *)
(* had not yet died wrote its parameters after they were cleared for this  *)
(* drive, or this drive began while pandad was between its fetchCarParams  *)
(* and setSafetyMode, which reads nothing again.                           *)
ConfiguredByThisDrive ==
    [][panda.mode # "CAR" /\ panda'.mode = "CAR"
         => panda'.drive = "this" \/ late \/ pandad.got = "overtaken"]_vars

(* A drive that lasts ends with the panda in the car's mode, unless card   *)
(* is passive, but for what PandaSafety does not handle: it configures the *)
(* panda once per drive and not again when the panda has left that mode;   *)
(* and card waits forever for a change of multiplexing that pandad does    *)
(* not see, because pandad is unaware of the drive's begin or a card of an *)
(* earlier one asked for it.                                               *)
ConfiguredOnce == pandad.safety_configured_ /\ panda.mode # "CAR"
RequestLost    == (pandad.unaware \/ late) /\ Waiting
                  /\ P.ObdMultiplexingEnabled = pandad.prev_obd_multiplexing_
CarModeReached ==
    <>[](P.IsOnroad /\ car.ignition /\ pandad.proc # "gone" /\ ~card.passive) =>
        <>[](panda.mode = "CAR") \/ <>[]ConfiguredOnce \/ <>[]RequestLost

(* A card that is to stop does stop, also one that swallowed the signal.   *)
CardStops == ~mgr.started ~> (card.proc \in {"none", "dead"} \/ mgr.started)
=============================================================================
