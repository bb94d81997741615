---------------------------- MODULE OnroadProofs ----------------------------
(***************************************************************************)
(* Proofs about the start and end of a drive: the types, who owns what in  *)
(* the parameters and in card, and that the panda's safety mode is set     *)
(* with the parameters of the drive it is for.                             *)
(***************************************************************************)
EXTENDS Onroad, TLAPS

(* There is a drive exactly when there is a card: what a card writes as    *)
(* its CarParams is never nothing.                                         *)
CardHasDrive == card.proc = "none" <=> card.drive = "none"

(* Parameters of an earlier drive can only be there because a card of that *)
(* drive wrote them after they were cleared for this one.                  *)
EarlierIsLate == P.CarParams = "earlier" \/ P.IQCarParams = "earlier" => late

(* So it is with the copy that pandad fetched in this drive.               *)
CopyIsLate == pandad.got = "earlier" => late

(* A panda in the car's mode was configured by some card; in any other     *)
(* mode it belongs to no drive.                                            *)
CarModeHasDrive == panda.mode = "CAR" <=> panda.drive # "none"

(* pandad acts on a drive only while it believes itself onroad.            *)
BusyIsOnroad == pandad.pc # "state" => pandad.is_onroad

(* The invariant, by the process or the store that it is about.            *)
HostOK   == /\ car \in [ignition : BOOLEAN, fit : Fit]
            /\ started_ts \in BOOLEAN
            /\ sent \in [ignition : BOOLEAN, started : BOOLEAN]
            /\ mgr \in [pc : {"update", "write", "ensure"}, started : BOOLEAN, started_prev : BOOLEAN]
            /\ left \in [Counters -> Nat]
            /\ ui \in {"idle", "leave", "force"}
ParamsOK == P \in ParamsType /\ late \in BOOLEAN /\ EarlierIsLate
CardOK   == card \in CardType /\ CardHasDrive
PandadOK == pandad \in PandadType /\ BusyIsOnroad
PandaOK  == /\ panda \in [mode : {"SILENT", "NO_OUTPUT", "ELM327", "CAR"}, drive : Ages]
            /\ CarModeHasDrive

OInv == HostOK /\ ParamsOK /\ CardOK /\ PandadOK /\ CopyIsLate /\ PandaOK

-----------------------------------------------------------------------------
(* A drive only ever ages into an earlier one.                             *)
LEMMA AgedType ==
    ASSUME NEW d \in Ages
    PROVE  /\ Aged(d) \in Ages \ {"this"}
           /\ Aged(d) = "none" <=> d = "none"
  BY DEF Ages, Aged

(* Spending takes one from a counter that has one left.                    *)
LEMMA SpendType ==
    ASSUME HostOK, NEW c \in Counters, Spend(c)
    PROVE  left' \in [Counters -> Nat]
  <1>1. left \in [Counters -> Nat] /\ left[c] > 0 /\ left' = [left EXCEPT ![c] = @ - 1]
    BY DEF HostOK, Spend
  <1>2. left[c] - 1 \in Nat
    BY <1>1
  <1> QED  BY <1>1, <1>2

(* What a step leaves alone stays in order.                                *)
LEMMA UntouchedStaysOK ==
    ASSUME OInv
    PROVE  /\ UNCHANGED <<car, started_ts, sent, mgr, ui, left>> => HostOK'
           /\ UNCHANGED <<P, late>> => ParamsOK'
           /\ UNCHANGED card => CardOK'
           /\ UNCHANGED pandad => PandadOK'
           /\ UNCHANGED pandad /\ (late => late') => CopyIsLate'
           /\ UNCHANGED panda => PandaOK'
  <1>1. UNCHANGED <<car, started_ts, sent, mgr, ui, left>> => HostOK'
    BY DEF OInv, HostOK
  <1>2. UNCHANGED <<P, late>> => ParamsOK'
    BY DEF OInv, ParamsOK, EarlierIsLate
  <1>3. UNCHANGED card => CardOK'
    BY DEF OInv, CardOK, CardHasDrive
  <1>4. UNCHANGED pandad => PandadOK'
    BY DEF OInv, PandadOK, BusyIsOnroad
  <1>5. UNCHANGED panda => PandaOK'
    BY DEF OInv, PandaOK, CarModeHasDrive
  <1>6. UNCHANGED pandad /\ (late => late') => CopyIsLate'
    BY DEF OInv, CopyIsLate
  <1> QED  BY <1>1, <1>2, <1>3, <1>4, <1>5, <1>6

(* A parameter other than CarParams and IQCarParams, written by anyone.    *)
LEMMA OtherParamKeeps ==
    ASSUME ParamsOK, NEW val \in BOOLEAN, NEW w \in BOOLEAN, late' = w, late => w,
           \/ P' = [P EXCEPT !.IsOnroad = val]
           \/ P' = [P EXCEPT !.FirmwareQueryDone = val]
           \/ P' = [P EXCEPT !.ControlsReady = val]
           \/ P' = [P EXCEPT !.ObdMultiplexingEnabled = val]
           \/ P' = [P EXCEPT !.ObdMultiplexingChanged = val]
           \/ P' = [P EXCEPT !.OffroadMode = val]
           \/ P' = [P EXCEPT !.ForceOnroad = val]
    PROVE  ParamsOK'
  <1>1. P' \in ParamsType /\ P'.CarParams = P.CarParams /\ P'.IQCarParams = P.IQCarParams
    BY DEF ParamsOK, ParamsType
  <1> QED  BY <1>1 DEF ParamsOK, EarlierIsLate

(* At boot nothing runs and nothing is configured.                         *)
LEMMA InitHasOInv == Init => OInv
  <1> SUFFICES ASSUME Init PROVE OInv
    OBVIOUS
  <1>1. HostOK
    BY BudgetsAssumption DEF Init, HostOK, Fit
  <1>2. ParamsOK
    BY DEF Init, ParamsOK, ParamsType, Cleared, Ages, EarlierIsLate
  <1>3. CardOK
    BY DEF Init, CardOK, CardType, NoCard, Ages, CardSteps, Stopping, CardHasDrive
  <1>4. PandadOK /\ CopyIsLate
    BY DEF Init, PandadOK, PandadType, NewPandad, BusyIsOnroad, CopyIsLate, Ages
  <1>5. PandaOK
    BY DEF Init, PandaOK, Ages, CarModeHasDrive
  <1> QED  BY <1>1, <1>2, <1>3, <1>4, <1>5 DEF OInv

(* hardwared writes nothing but its own messages and ForceOnroad.          *)
LEMMA HardwareKeepsOInv ==
    ASSUME OInv, NEW force \in BOOLEAN, HardwareThread(force)
    PROVE  OInv'
  <1>1. PICK ignition \in Ignition :
           /\ started_ts' = ShouldStart(ignition, force)
           /\ sent' = [sent EXCEPT !.ignition = ignition,
                                   !.started = ShouldStart(ignition, force) /\ ~P.OffroadMode]
           /\ P' = [P EXCEPT !.ForceOnroad = force]
           /\ UNCHANGED <<car, mgr, card, pandad, panda, late, ui, left>>
    BY DEF HardwareThread
  <1>2. ignition \in BOOLEAN
    BY DEF Ignition, OInv, HostOK
  <1>3. ShouldStart(ignition, force) \in BOOLEAN
    BY DEF ShouldStart
  <1>4. /\ started_ts' \in BOOLEAN
        /\ sent' \in [ignition : BOOLEAN, started : BOOLEAN]
    BY <1>1, <1>2, <1>3 DEF OInv, HostOK
  <1>5. HostOK'
    BY <1>1, <1>4 DEF OInv, HostOK
  <1>6. ParamsOK'
    <2>1. ParamsOK /\ late \in BOOLEAN /\ late' = late
      BY <1>1 DEF OInv, ParamsOK
    <2> QED  BY <1>1, <2>1, OtherParamKeeps
  <1> QED  BY <1>1, <1>5, <1>6, UntouchedStaysOK DEF OInv

(* The manager.  The step that ages card and panda into an earlier drive   *)
(* is the one that clears CarParams, so none are left that could be stale. *)
LEMMA ManagerKeepsOInv ==
    ASSUME OInv, ManagerNext
    PROVE  OInv'
  <1>1. CASE ManagerUpdate
    <2>1. HostOK'
      <3>1. mgr' \in [pc : {"update", "write", "ensure"}, started : BOOLEAN, started_prev : BOOLEAN]
        BY <1>1 DEF ManagerUpdate, OInv, HostOK
      <3> QED  BY <1>1, <3>1 DEF ManagerUpdate, OInv, HostOK
    <2>2. CASE /\ P' = [Cleared EXCEPT !.IsOnroad = P.IsOnroad,
                                  !.OffroadMode = P.OffroadMode, !.ForceOnroad = P.ForceOnroad]
               /\ DriveBegins
      <3>1. ParamsOK'
        BY <2>2 DEF DriveBegins, OInv, ParamsOK, ParamsType, Cleared, Ages, EarlierIsLate
      <3>2. CardOK'
        <4>1. card.drive \in Ages
          BY DEF OInv, CardOK, CardType
        <4>2. card' \in CardType /\ card'.proc = card.proc /\ card'.drive = Aged(card.drive)
          BY <2>2, <4>1, AgedType DEF DriveBegins, OInv, CardOK, CardType
        <4> QED  BY <4>1, <4>2, AgedType DEF OInv, CardOK, CardHasDrive
      <3>3. PandaOK'
        <4>1. panda.drive \in Ages
          BY DEF OInv, PandaOK
        <4> QED  BY <2>2, <4>1, AgedType DEF DriveBegins, OInv, PandaOK, CarModeHasDrive
      <3>4. PandadOK' /\ CopyIsLate'
        BY <2>2 DEF DriveBegins, OInv, PandadOK, PandadType, BusyIsOnroad, CopyIsLate
      <3> QED  BY <2>1, <3>1, <3>2, <3>3, <3>4 DEF OInv
    <2>3. CASE /\ P' = [P EXCEPT !.ForceOnroad = FALSE]
               /\ UNCHANGED <<card, pandad, panda, late>>
      <3>1. ParamsOK'
        <4>1. ParamsOK /\ late \in BOOLEAN /\ late' = late
          BY <2>3 DEF OInv, ParamsOK
        <4> QED  BY <2>3, <4>1, OtherParamKeeps
      <3> QED  BY <2>1, <2>3, <3>1, UntouchedStaysOK DEF OInv
    <2>4. CASE UNCHANGED <<P, card, pandad, panda, late>>
      BY <2>1, <2>4, UntouchedStaysOK DEF OInv
    <2> QED  BY <1>1, <2>2, <2>3, <2>4 DEF ManagerUpdate
  <1>2. CASE ManagerWrite
    <2>1. HostOK'
      BY <1>2 DEF ManagerWrite, OInv, HostOK
    <2>2. ParamsOK'
      <3>1. ParamsOK /\ late \in BOOLEAN /\ late' = late /\ mgr.started \in BOOLEAN
        BY <1>2 DEF ManagerWrite, OInv, HostOK, ParamsOK
      <3>2. P' = [P EXCEPT !.IsOnroad = mgr.started]
        BY <1>2 DEF ManagerWrite
      <3> QED  BY <3>1, <3>2, OtherParamKeeps
    <2> QED  BY <1>2, <2>1, <2>2, UntouchedStaysOK DEF ManagerWrite, OInv
  <1>3. CASE Start \/ Signal \/ Join
    <2>1. HostOK'
      BY <1>3 DEF Start, Signal, Join, OInv, HostOK
    <2>2. CardOK'
      <3>1. CASE Start
        BY <3>1 DEF Start, OInv, CardOK, CardType, NoCard, CardHasDrive, Ages, CardSteps
      <3>2. CASE Signal
        BY <3>2 DEF Signal, OInv, CardOK, CardType, Stopping, CardHasDrive
      <3>3. CASE Join
        BY <3>3 DEF Join, OInv, CardOK, CardType, NoCard, CardHasDrive, Ages, CardSteps
      <3> QED  BY <1>3, <3>1, <3>2, <3>3
    <2> QED  BY <1>3, <2>1, <2>2, UntouchedStaysOK DEF Start, Signal, Join, OInv
  <1> QED  BY <1>1, <1>2, <1>3 DEF ManagerNext

(* A step of card that goes from one place to another.                     *)
LEMMA CardRunsKeeps ==
    ASSUME OInv, NEW from, NEW to \in CardSteps, CardRuns(from, to)
    PROVE  CardOK'
  BY DEF OInv, CardOK, CardType, CardRuns, CardHasDrive

(* Nobody but the manager takes back that somebody was late.               *)
LEMMA WriteKeepsLate ==
    ASSUME NEW key, NEW val, WriteParam(key, val)
    PROVE  late => late'
  BY DEF WriteParam

(* What card writes: whoever writes for an earlier drive is late.          *)
LEMMA WriteFlagKeeps ==
    ASSUME OInv, NEW val \in BOOLEAN,
           NEW key \in {"ObdMultiplexingChanged", "ObdMultiplexingEnabled", "FirmwareQueryDone",
                        "ControlsReady"},
           WriteParam(key, val)
    PROVE  ParamsOK'
  <1>1. /\ ParamsOK /\ late \in BOOLEAN
        /\ late' = (late \/ card.drive = "earlier")
        /\ P' = [P EXCEPT ![key] = val]
    BY DEF OInv, ParamsOK, WriteParam
  <1> QED  BY <1>1, OtherParamKeeps

(* CarParams and IQCarParams say which drive wrote them.                   *)
LEMMA WriteCarParamsKeeps ==
    ASSUME OInv, NEW key \in {"CarParams", "IQCarParams"}, WriteParam(key, card.drive)
    PROVE  ParamsOK'
  <1>1. card.drive \in Ages
    BY DEF OInv, CardOK, CardType
  <1>2. /\ P' \in ParamsType
        /\ P'.CarParams \in {P.CarParams, card.drive}
        /\ P'.IQCarParams \in {P.IQCarParams, card.drive}
    BY <1>1 DEF OInv, ParamsOK, ParamsType, WriteParam
  <1> QED  BY <1>2 DEF OInv, ParamsOK, EarlierIsLate, WriteParam

(* card.                                                                   *)
LEMMA CardKeepsOInv ==
    ASSUME OInv, CardNext
    PROVE  OInv'
  <1>a. \A s \in {"start", "on", "on put", "on wait", "off", "off put", "off wait",
                  "query done", "params", "iq params", "init", "run"} : s \in CardSteps
    BY DEF CardSteps
  <1>1. CASE CardStart
    <2>1. CardOK'
      BY <1>1, <1>a, CardRunsKeeps DEF CardStart
    <2> QED  BY <1>1, <2>1, UntouchedStaysOK DEF CardStart, OInv
  <1>2. ASSUME NEW from, NEW put \in CardSteps, NEW wait \in CardSteps, NEW to \in CardSteps,
               NEW obd \in BOOLEAN, Obd(from, put, wait, to, obd)
        PROVE  OInv'
    <2>1. CASE ObdSame(from, to, obd)
      <3>1. CardOK'
        BY <2>1, CardRunsKeeps DEF ObdSame
      <3> QED  BY <2>1, <3>1, UntouchedStaysOK DEF ObdSame, OInv
    <2>2. CASE ObdRemoveChanged(from, put, obd)
      <3>1. CardOK' /\ ParamsOK'
        BY <2>2, CardRunsKeeps, WriteFlagKeeps DEF ObdRemoveChanged
      <3> QED  BY <2>2, <3>1, WriteKeepsLate, UntouchedStaysOK DEF ObdRemoveChanged, OInv
    <2>3. CASE ObdRequest(put, wait, obd)
      <3>1. CardOK' /\ ParamsOK'
        BY <2>3, CardRunsKeeps, WriteFlagKeeps DEF ObdRequest
      <3> QED  BY <2>3, <3>1, WriteKeepsLate, UntouchedStaysOK DEF ObdRequest, OInv
    <2>4. CASE ObdChanged(wait, to)
      <3>1. CardOK'
        BY <2>4 DEF ObdChanged, OInv, CardOK, CardType, Stopping, CardHasDrive
      <3> QED  BY <2>4, <3>1, UntouchedStaysOK DEF ObdChanged, OInv
    <2> QED  BY <1>2, <2>1, <2>2, <2>3, <2>4 DEF Obd
  <1>3. CASE SetObdMultiplexing
    BY <1>2, <1>3, <1>a DEF SetObdMultiplexing
  <1>4. CASE FirmwareQueryDone
    <2>1. CardOK' /\ ParamsOK'
      BY <1>4, <1>a, CardRunsKeeps, WriteFlagKeeps DEF FirmwareQueryDone
    <2> QED  BY <1>4, <2>1, WriteKeepsLate, UntouchedStaysOK DEF FirmwareQueryDone, OInv
  <1>5. CASE PutCarParams \/ PutIQCarParams
    <2>1. CardOK'
      <3>1. CASE PutCarParams
        BY <3>1, <1>a DEF PutCarParams, OInv, CardOK, CardType, CardHasDrive
      <3>2. CASE PutIQCarParams
        BY <3>2, <1>a, CardRunsKeeps DEF PutIQCarParams
      <3> QED  BY <1>5, <3>1, <3>2
    <2>2. ParamsOK' /\ (late => late')
      BY <1>5, WriteCarParamsKeeps, WriteKeepsLate DEF PutCarParams, PutIQCarParams
    <2> QED  BY <1>5, <2>1, <2>2, UntouchedStaysOK DEF PutCarParams, PutIQCarParams, OInv
  <1>6. CASE ControlsUpdate \/ CardExit
    <2>1. CardOK'
      BY <1>6, <1>a DEF ControlsUpdate, CardExit, OInv, CardOK, CardType, Stopping, CardHasDrive
    <2> QED  BY <1>6, <2>1, UntouchedStaysOK DEF ControlsUpdate, CardExit, OInv
  <1>7. CASE ControlsReady
    <2>1. CardOK'
      BY <1>7 DEF ControlsReady, OInv, CardOK, CardType, CardHasDrive
    <2>2. ParamsOK'
      BY <1>7, WriteFlagKeeps DEF ControlsReady
    <2> QED  BY <1>7, <2>1, <2>2, WriteKeepsLate, UntouchedStaysOK DEF ControlsReady, OInv
  <1> QED  BY <1>1, <1>3, <1>4, <1>5, <1>6, <1>7 DEF CardNext

(* pandad, its death and return, and the panda left alone.                 *)
LEMMA PandadKeepsOInv ==
    ASSUME OInv, PandadNext \/ PandadDies \/ PandadRestarts \/ HeartbeatLost
    PROVE  OInv'
  <1>0. "none" \in Ages
    BY DEF Ages
  <1>p. P.IsOnroad \in BOOLEAN /\ P.ObdMultiplexingEnabled \in BOOLEAN /\ P.CarParams \in Ages
    BY DEF OInv, ParamsOK, ParamsType
  <1>1. CASE ProcessPandaState
    <2>1. HostOK'
      BY <1>1 DEF ProcessPandaState, OInv, HostOK
    <2>2. PandadOK' /\ CopyIsLate'
      BY <1>1, <1>p DEF ProcessPandaState, OInv, PandadOK, PandadType, BusyIsOnroad, CopyIsLate, Ages
    <2>3. PandaOK'
      BY <1>1, <1>0 DEF ProcessPandaState, OInv, PandaOK, CarModeHasDrive
    <2> QED  BY <1>1, <2>1, <2>2, <2>3, UntouchedStaysOK DEF ProcessPandaState, OInv
  <1>2. CASE UpdateMultiplexingMode
    <2>1. PandadOK' /\ CopyIsLate'
      BY <1>2, <1>p DEF UpdateMultiplexingMode, Pandad, OInv, PandadOK, PandadType, BusyIsOnroad, CopyIsLate, Ages
    <2>2. PandaOK'
      BY <1>2, <1>0 DEF UpdateMultiplexingMode, OInv, PandaOK, CarModeHasDrive
    <2> QED  BY <1>2, <2>1, <2>2, UntouchedStaysOK DEF UpdateMultiplexingMode, OInv
  <1>3. CASE PutChanged
    <2>1. PandadOK' /\ CopyIsLate'
      BY <1>3 DEF PutChanged, Pandad, OInv, PandadOK, PandadType, BusyIsOnroad, CopyIsLate, Ages
    <2>2. ParamsOK'
      <3>1. ParamsOK /\ late \in BOOLEAN /\ late' = late
        BY <1>3 DEF PutChanged, OInv, ParamsOK
      <3> QED  BY <1>3, <3>1, OtherParamKeeps DEF PutChanged
    <2> QED  BY <1>3, <2>1, <2>2, UntouchedStaysOK DEF PutChanged, OInv
  <1>4. CASE FetchCarParams
    <2>1. CASE \/ FetchReads("fetch", "ready", P.FirmwareQueryDone)
               \/ FetchReads("ready", "params", P.ControlsReady)
      <3>1. PandadOK' /\ CopyIsLate'
        BY <1>4, <2>1 DEF FetchCarParams, FetchReads, Pandad, OInv, PandadOK, PandadType, BusyIsOnroad, CopyIsLate
      <3> QED  BY <1>4, <3>1, UntouchedStaysOK DEF FetchCarParams, OInv
    <2>2. CASE /\ Pandad("params")
               /\ pandad' = [pandad EXCEPT !.pc = "iq params", !.got = P.CarParams]
      <3>1. PandadOK'
        BY <2>2, <1>p DEF Pandad, OInv, PandadOK, PandadType, BusyIsOnroad
      <3>2. CopyIsLate'
        BY <1>4, <2>2 DEF FetchCarParams, OInv, PandadOK, PandadType, ParamsOK, EarlierIsLate, CopyIsLate
      <3> QED  BY <1>4, <3>1, <3>2, UntouchedStaysOK DEF FetchCarParams, OInv
    <2>3. CASE /\ Pandad("iq params")
               /\ pandad' = [pandad EXCEPT !.pc = "set", !.got = Fetched(@, P.IQCarParams)]
      <3>1. /\ Fetched(pandad.got, P.IQCarParams) \in Ages \cup {"overtaken"}
            /\ Fetched(pandad.got, P.IQCarParams) = "earlier"
                 => pandad.got = "earlier" \/ P.IQCarParams = "earlier"
        BY DEF Fetched, Ages
      <3>2. PandadOK'
        BY <2>3, <3>1 DEF Pandad, OInv, PandadOK, PandadType, BusyIsOnroad
      <3>3. CopyIsLate'
        BY <1>4, <2>3, <3>1 DEF FetchCarParams, OInv, PandadOK, PandadType, ParamsOK, EarlierIsLate, CopyIsLate
      <3> QED  BY <1>4, <3>2, <3>3, UntouchedStaysOK DEF FetchCarParams, OInv
    <2> QED  BY <1>4, <2>1, <2>2, <2>3 DEF FetchCarParams
  <1>5. CASE SetSafetyMode
    <2>1. PandadOK' /\ CopyIsLate'
      BY <1>5 DEF SetSafetyMode, Pandad, OInv, PandadOK, PandadType, BusyIsOnroad, CopyIsLate, Ages
    <2>2. PandaOK'
      <3>1. /\ (IF pandad.got = "this" THEN "this" ELSE "earlier") \in Ages
            /\ (IF pandad.got = "this" THEN "this" ELSE "earlier") # "none"
        BY DEF Ages
      <3> QED  BY <1>5, <3>1 DEF SetSafetyMode, OInv, PandaOK, CarModeHasDrive
    <2> QED  BY <1>5, <2>1, <2>2, UntouchedStaysOK DEF SetSafetyMode, OInv
  <1>6. CASE PandadDies
    <2>1. HostOK'
      BY <1>6, SpendType DEF PandadDies, Counters, OInv, HostOK
    <2>2. PandadOK' /\ CopyIsLate'
      BY <1>6 DEF PandadDies, OInv, PandadOK, PandadType, BusyIsOnroad, CopyIsLate, Ages
    <2>3. PandaOK'
      BY <1>6, <1>0 DEF PandadDies, OInv, PandaOK, CarModeHasDrive
    <2> QED  BY <1>6, <2>1, <2>2, <2>3, UntouchedStaysOK DEF PandadDies, OInv
  <1>7. CASE PandadRestarts
    <2>1. PandadOK' /\ CopyIsLate'
      BY <1>7 DEF PandadRestarts, NewPandad, PandadOK, PandadType, BusyIsOnroad, CopyIsLate, Ages
    <2> QED  BY <1>7, <2>1, UntouchedStaysOK DEF PandadRestarts, OInv
  <1>8. CASE HeartbeatLost
    <2>1. HostOK'
      BY <1>8, SpendType DEF HeartbeatLost, Counters, OInv, HostOK
    <2>2. PandaOK'
      BY <1>8, <1>0 DEF HeartbeatLost, PandaOK, CarModeHasDrive
    <2> QED  BY <1>8, <2>1, <2>2, UntouchedStaysOK DEF HeartbeatLost, OInv
  <1> QED  BY <1>1, <1>2, <1>3, <1>4, <1>5, <1>6, <1>7, <1>8 DEF PandadNext

(* The driver and the device.                                              *)
LEMMA EnvironmentKeepsOInv ==
    ASSUME OInv, Environment
    PROVE  OInv'
  <1>1. left' \in [Counters -> Nat]
    BY SpendType DEF Environment, CarChanges, AlwaysOffroad, ForceOnroad, PutSecond, Counters, OInv, HostOK
  <1>2. CASE CarChanges
    <2>1. HostOK'
      BY <1>1, <1>2 DEF CarChanges, OInv, HostOK
    <2> QED  BY <1>2, <2>1, UntouchedStaysOK DEF CarChanges, OInv
  <1>3. CASE AlwaysOffroad \/ ForceOnroad \/ PutSecond
    <2>1. HostOK'
      BY <1>1, <1>3 DEF AlwaysOffroad, ForceOnroad, PutSecond, OInv, HostOK
    <2>2. ParamsOK'
      <3>1. ParamsOK /\ late \in BOOLEAN /\ late' = late
        BY <1>3 DEF AlwaysOffroad, ForceOnroad, PutSecond, OInv, ParamsOK
      <3>2. PICK val \in BOOLEAN : P' = [P EXCEPT !.OffroadMode = val] \/ P' = [P EXCEPT !.ForceOnroad = val]
        BY <1>3 DEF AlwaysOffroad, ForceOnroad, PutSecond
      <3> QED  BY <3>1, <3>2, OtherParamKeeps
    <2> QED  BY <1>3, <2>1, <2>2, UntouchedStaysOK DEF AlwaysOffroad, ForceOnroad, PutSecond, OInv
  <1> QED  BY <1>2, <1>3 DEF Environment

(* Every step keeps the invariant.                                         *)
LEMMA NextKeepsOInv ==
    ASSUME OInv, [Next]_vars
    PROVE  OInv'
  <1>1. CASE HardwareThread(Exception) \/ (Exception /\ HardwareThread(FALSE))
    <2>1. Exception \in BOOLEAN
      BY DEF Exception
    <2> QED  BY <1>1, <2>1, HardwareKeepsOInv
  <1>2. CASE UNCHANGED vars
    BY <1>2, UntouchedStaysOK DEF vars, OInv
  <1> QED  BY <1>1, <1>2, ManagerKeepsOInv, CardKeepsOInv, PandadKeepsOInv, EnvironmentKeepsOInv DEF Next

(* The parts together type every variable.                                 *)
LEMMA InvTypes == OInv => TypeOK
  BY DEF OInv, HostOK, ParamsOK, CardOK, PandadOK, PandaOK, TypeOK

(* The inductive invariant of a drive's start and end.                     *)
THEOREM OnroadInv == Spec => []OInv
  BY InitHasOInv, NextKeepsOInv, PTL DEF Spec

(* Every variable of the four processes keeps its type.                    *)
THEOREM OnroadTypeCorrect == Spec => []TypeOK
  BY OnroadInv, InvTypes, PTL

(* setSafetyMode puts the panda in the car's mode with the parameters of   *)
(* this drive, with those that a card of an earlier drive left late, or    *)
(* with a copy that it fetched before this drive began.                    *)
THEOREM ConfiguredSafety == Spec => ConfiguredByThisDrive
  <1> DEFINE A == panda.mode # "CAR" /\ panda'.mode = "CAR" => panda'.drive = "this" \/ late \/ pandad.got = "overtaken"
  <1>1. ASSUME OInv, Next PROVE A
    <2>1. CASE SetSafetyMode
      <3>1. pandad.got \in {"none", "this", "earlier", "overtaken"} /\ (pandad.got = "earlier" => late)
        BY <1>1 DEF OInv, PandadOK, PandadType, CopyIsLate, Ages
      <3>2. CASE pandad.got = "none"
        BY <2>1, <3>2 DEF SetSafetyMode
      <3>3. CASE pandad.got = "this"
        BY <2>1, <3>3 DEF SetSafetyMode
      <3> QED  BY <3>1, <3>2, <3>3
    <2>2. CASE ~SetSafetyMode
      <3> SUFFICES ASSUME panda.mode # "CAR" PROVE panda'.mode # "CAR"
        OBVIOUS
      <3>1. CASE ManagerNext
        BY <1>1, <3>1 DEF ManagerNext, ManagerUpdate, DriveBegins, ManagerWrite, Start, Signal, Join, OInv, PandaOK
      <3>2. CASE CardNext
        BY <3>2 DEF CardNext, CardStart, SetObdMultiplexing, Obd, ObdSame, ObdRemoveChanged, ObdRequest,
                    ObdChanged, FirmwareQueryDone, PutCarParams,
                    PutIQCarParams, ControlsUpdate, ControlsReady, CardExit
      <3>3. CASE PandadNext
        <4>1. CASE ProcessPandaState
          BY <4>1 DEF ProcessPandaState
        <4>2. CASE UpdateMultiplexingMode
          BY <4>2 DEF UpdateMultiplexingMode
        <4>3. CASE PutChanged \/ FetchCarParams
          BY <4>3 DEF PutChanged, FetchCarParams
        <4> QED  BY <2>2, <3>3, <4>1, <4>2, <4>3 DEF PandadNext
      <3>4. CASE PandadDies \/ PandadRestarts \/ HeartbeatLost \/ Environment
        BY <3>4 DEF PandadDies, PandadRestarts, HeartbeatLost, Environment, CarChanges, AlwaysOffroad,
                    ForceOnroad, PutSecond
      <3>5. ASSUME NEW force, HardwareThread(force) PROVE panda'.mode # "CAR"
        BY <3>5 DEF HardwareThread
      <3> QED  BY <1>1, <3>1, <3>2, <3>3, <3>4, <3>5 DEF Next
    <2> QED  BY <2>1, <2>2
  <1>2. OInv /\ [Next]_vars => [A]_vars
    BY <1>1
  <1> QED  BY <1>2, OnroadInv, PTL DEF Spec, ConfiguredByThisDrive
=============================================================================
