# TLA+ models of IQ.Pilot

IQ.Pilot (a fork of openpilot) drives a car from a computer on the windshield.
Who may steer and accelerate, and when, is decided twice, by two programs that
do not trust each other: `selfdrived` on the computer, and the firmware of the
`panda`, the microcontroller between the computer and the car's CAN buses. This
directory models both, with Always-On Lateral (AOL), the feature that lets the
car be steered while cruise control is off and that both programs implement in
their own way. It also models what they stand on: the message queues and the
parameter store through which all processes meet, the start and the end of a
drive across four processes, and the updater, which replaces all of it.

## 1. The system

| Component | State | Operations | Hard behaviour | What makes it correct |
|---|---|---|---|---|
| engagement machine (`selfdrive/selfdrived/state.py`) | state, soft disable timer, alert types | `update`, once a frame | shares its timer with AOL | soft disabling is bounded and never extended; a disable event always wins |
| selfdrived loop (`selfdrived.py`) | initialized, enabled, active, mismatch counter, last carState, cached parameters | `step`, `params_thread` | parameters change under its feet; late carStates are replayed | no engagement over a panda that refuses it, a lost bus, ... |
| event tables (`events.py`, `events_base.py`, IQ `events.py`) | the frame's events | `add`, `contains` | names carry types; AOL rewrites them within the frame | |
| AOL (`iqpilot/aol/`) | state, enabled, active, enabled_prev | `update_events`, `update` | several events in one frame; the order against the engagement machine | never steers over the brake or a main switch turned off, never starts unasked, a pause ends |
| panda AOL permission (`opendbc/safety/iqpilot/aol.h`) | previous signals, request, permission, reasons | `aol_state_update`, `aol_exit_controls`, `aol_set_alternative_experience`, heartbeat check | edges, requests that stay pending, repetition | never allows steering over the brake (when so configured) or with the main switch off |
| panda safety core (`opendbc/safety/safety.h`) and modes (`modes/*.h`) | `controls_allowed`, the car's signals, relay fault | `safety_rx_hook`, `safety_tick`, `set_safety_hooks` | messages in any order, invalid or missing | controls only with cruise, main switch, no brake |
| panda firmware (`panda/board/main.c`, `main_comms.h`) | safety mode, heartbeat, mismatch counts | `tick_handler`, host requests | heartbeat loss against late heartbeats and mode changes | the car is never left to a host that has gone |
| pandad (`selfdrive/pandad/`) | onroad, configured flag, multiplexing | sets modes, closes the relay, heartbeats | restarts, one configuration per drive | a panda in this drive's mode while onroad, a closed relay otherwise |
| msgq (`msgq_repo/msgq/msgq.cc`) | ring, write pointer, a slot per reader | send, receive, subscribe | lock-free readers, eviction, kills | a reader sees whole messages in order, and loses none while it keeps up |
| params (`common/params.cc`) | files, lock, queue of a thread | put, remove, clear, read all, put in the background | kills, power loss, concurrent writers | a parameter is old or new, never torn; what has returned stays |
| updated (`system/updated/updated.py`), launch script, AGNOS slots | overlay, finalized directory, consistent flag, OS slots | check, fetch, finalize; swap at launch | power loss between steps, failing commands, local edits | never boots an incomplete tree; ready means ready |
| manager, hardwared, card | processes, onroad state, the car's parameters | transitions, start and stop, fingerprint | all run at once and meet in parameters | parameters of one drive never configure the next; what is stopped stops |
| loggerd, uploader, deleter | segments | rotation, upload, deletion | disk limits | |
| driver monitoring, lane change, longitudinal control | small state machines around numeric code | update | | |
| model, localisation, UI, car ports | numeric or presentation | | | not modelled |

How they interact: `card` turns CAN into `carState`; `selfdrived` turns
`carState` and everybody's health into engagement; `pandad` reports engagement
to the panda in its heartbeat, sets its safety mode and publishes its state,
which `selfdrived` compares with its own (mismatch). The panda sees the same car
messages and decides by itself. Between processes everything goes through
`msgq` and `params`.

`PROJECT.json` lists all components with their status, and the hazards at the
lines where they bite.

## 2. The modules

The driving computer:

- **OnroadEvents**: which event carries which event type (`EVENTS`,
  `EVENTS_IQ`), the only thing the machines see of an event. A frame's events are
  a set of names.
- **StateMachine**: `StateMachine.update` as three functions of the state, the
  timer and the frame's types: `nextState`, `nextTimer`, `alertTypes`.
- **AolEngine**: `AolStateMachine`; `capturePulse` is the digest of the events,
  `aolNextState` the dispatch to the handlers, `aolTimer` and `aolAlerts` what they do to the
  engagement machine's timer and alert list.
- **AolEvents**: `AlwaysOnLateral.update_events`, in stages that follow the
  order of the code. Each takes a pair of event sets and returns one.
- **SelfdriveD**: the state machine of the process. `Step` is one call of
  `step`: sample, compute the events, run the engagement machine, let AOL rewrite
  the events and run, remember the carState. `ParamsThread` is one assignment of
  the second thread, between any two frames. Inputs are constants: `Cars`,
  `CarStates`, `SystemEvents` (events whose cause is outside the modelled part
  of carState).
- **MCSelfdriveD**: the sets of cars, carStates and events of the runs.
- **SelfdriveDProofs**: theorems, in its second part about AOL.

The panda:

- **AolSafety**: `aol.h`. The state is a record, the operations are functions of it:
  `aol_state_update`, `aol_exit_controls`, `aol_set_system_state`.
- **PandaSafety**: the firmware. `Rx` and `RxInvalid` are `safety_rx_hook` for a
  valid and an invalid message, in the modes Volkswagen MQB (stock and openpilot
  longitudinal) and Tesla; `Tick` is the 1 Hz part of `tick_handler` with
  `safety_tick`; `HarnessChange` its 8 Hz part; `SetSafetyMode`,
  `SetAlternativeExperience`, `Heartbeat`, `DisableHeartbeat` are the host
  requests 0xdc, 0xdf, 0xf3, 0xf8. The handlers run at one interrupt priority,
  so each is one action. The host may send any request at any time.
- **MCPandaSafety**: the instances of the runs.
- **PandaSafetyProofs**: theorems, in its second part about AOL on a
  Volkswagen.

Between the processes:

- **Channel**: what users of msgq may rely on, as a specification: every reader receives
  messages in order, none twice, and none is lost by a reader that never has
  more than `Backlog` unread. A reader *adrift* is promised nothing.
- **Msgq**: the ring, one access to shared memory per step. `Send` is
  `msgq_msg_send` (begin, wraparound tag, the loop over the readers beyond the
  write pointer, the new cycle, the loop over those in the way, tag, data,
  pointer); `Recv` is `msgq_msg_recv` with the resets and the resubscription it
  may go through, and `msgq_msg_ready`, which shares its first steps. Publisher
  and readers come up, and are killed, at any step. `Msgq` implements `Channel`
  (`ImplementsChannel`) with `joining` mapped to the readers whose subscription
  is new; `log`, `got`, `lagged` and `adrift` are history variables. A reader is
  adrift in four cases, which the code does not exclude: the publisher has
  gone a lap further between the load and the store of `msgq_reset_reader`; two
  readers use one slot (`num_readers` is zeroed, by a publisher that comes up or
  by an eviction, while a reader is claiming); the reader is in a slot the
  publisher does not count; or another process is clearing its slot, of which the
  flag goes before the uid, so that the reader may find the one without the other
  and reset past messages it has not read. A reset that is not overtaken brings it
  back. Three things are still one step: the three stores with which a
  subscription takes its slot (`Enter`), the loads of the flag and the pointer
  (`CheckValid`), and the load, compare and store of `num_readers` where a slot is
  free (a compare-and-swap in the code).
- **Params**: files with a name, a value and whether they are on disk. A call
  is a sequence of steps (`Write`, `Fsync`, `FileLock`, `Rename`, `FsyncDir`, ...)
  of the caller or of its writer thread. `behind` is the set of directories that a
  power loss may leave: every state since the last sync of the directory, with
  unsynced files possibly torn.
- **Onroad**: `hardwared`, the manager, `card` and `pandad` with the panda's safety
  mode, as concurrent processes that meet in the parameters and in conflated
  messages. A step is one access to a parameter, so that every order of reads and
  writes occurs: `fetchCarParams` is four reads, and `setSafetyMode` uses what was
  read in `pandad.got`, whatever the parameters are by then. Four steps are larger:
  a turn of hardwared's loop, `clear_all` with the drive that begins (`DriveBegins`),
  the reads of the settings page with its first put, and a panda state that pandad
  reports and acts on. What a drive leaves behind is marked by its age, "this" or an
  "earlier" drive; what pandad has fetched when the next one begins is "overtaken".
  "CAR" is the mode the parameters name, which is no output if `card` is passive
  (a dashcam, or openpilot switched off); a passive `card` never sets ControlsReady.
  The panda is reduced to its mode; PandaSafety models what it does in it.
  `card`'s waits for the first CAN packet and the first pandaStates are left out.
- **Updated**: `updated`, the launch script and the slots of the OS, on a disk
  whose state after a power loss is any since the last `os.sync`, with what was
  copied since then possibly incomplete. A directory is a version and whether it is
  complete. `CommandFails` is any command of a run that raises, from the overlay to
  the copy, and a git that was killed may leave a lock, which stops checkout and
  reset. `edited` is a history variable. `FlashAgnosUpdate` is agnos.py, for `updated` and, from
  the launch script, for the updater that is shown when `--verify` fails (`--swap`):
  clear the hash, write the image, write the hash, each of which reaches the disk
  only when the file has been closed, whereas `os.sync` comes before that. `slots`
  is what the slot not in use may hold after a power loss. It stands for the one
  partition that agnos.json verifies by the hash behind it ("system"); the others
  are verified as a whole, so a torn one is found.
- **MCMsgq**, **MCParams**, **MCOnroad**, **MCUpdated**: the instances of the runs.
- **MsgqProofs**, **MsgqOrderProofs**, **MsgqChannelProofs**: theorems, the last two
  about the refinement of Channel. **ParamsProofs**, **UpdatedProofs**,
  **OnroadProofs**: theorems.

Abstractions. carState is reduced to the fields the machines react to: "drive"
stands for any drivable gear, `slow` for vEgo < 2.5 m/s, regenerative braking
behaves as the brake pedal and is left out, `notCar` (the comma body), the
joystick debug request and replay mode are left out. On the panda, CAN frames
are reduced to the signals that decide permissions; torque, speed and gas only
limit transmitted commands, whose hooks are not modelled. Whether a message is
valid, lagging or invalid at a tick is a free choice, which includes every
outcome of checksums and counters. For the Tesla, the transmit table without
openpilot longitudinal is used (two relay-checked messages), with the vehicle
bus that carries the button. msgq's accesses are sequentially consistent, as
operations on `std::atomic` are by default; the copies of the data are word by
word. Signals that wake a poll are left out: its sleep has a timeout. There is one
publisher; a second one that takes the queue over is left out. Several pandas,
external transmission while offroad and branch changes of the updater are left out.
Of a write to a slot the model assumes what `os.sync` gives and no more. Linux also
writes the pages of a block device back when its last user closes it, though without
asking the drive to empty its cache, so the windows of agnos.py are narrower on
a device than in the model. agnos.json names no casync index, so images are extracted
by `extract_compressed_image`. The bootloader is left out: what it does with a
torn image, and what `abctl --set_unbootable` makes of a slot. `updater` starts
binaries; `system/ui/tici_updater.py` shows what they run.

## 3. Runs

| Run | Configuration | Properties | What it shows |
|---|---|---|---|
| selfdrive_driving | SelfdriveDriving.cfg | BrakeStopsSteering, MainOffStopsSteering, AolStartsOnlyOnRequest, UnifiedEngagement | pedals, buttons, cruise, gears, doors and main switch in every order, for each brake setting |
| selfdrive_faults | SelfdriveFaults.cfg | TypeOK, MismatchDisengages, SoftDisableHasTime, SoftDisableRunsOut, AolSoftDisableRunsOut, CanLossStopsControl | faults, lost CAN, mismatches and overrides; cars with and without AOL, and in dashcam mode |
| selfdrive_liveness | SelfdriveLiveness.cfg | SoftDisableEnds, PauseEnds | under fairness of `Step` |
| panda_volkswagen | PandaVolkswagen.cfg | TypeOK, BrakeStopsControls, ControlsNeedMain, AolNeedsMain, RepeatedUpdatesAgree | openpilot longitudinal, AOL disengaged by the brake |
| panda_host | PandaHost.cfg | CarModeHasHost, UnusedControlsExit, ControlsNeedCruise, PauseHoldsWhileBraking, HostLossEnds, UnusedControlsEnd, UnusedAolEnds | a Tesla with cruise, Autopark and brake, AOL paused by the brake; lost, late or disabled heartbeats, mode and harness changes; under fairness of the tick |
| msgq | Msgq.cfg | SizesTrusted, DeliveriesWhole, ImplementsChannel, RecvReturns | lapped, conflating, evicted, killed and restarted readers; the refinement of Channel |
| params | Params.cfg | NeverTorn, ReturnedIsDurable, SnapshotConsistent, CallsReturn | two processes and their writer threads, kills and power loss at any step |
| updated | Updated.cfg | BootsWhole, ReadyMeansReady, EditsKept, UpdateGetsReady | failures, kills, edits, releases and power loss at any step, the flash of the OS included |
| onroad | Onroad.cfg | ConfiguredByThisDrive, RelayCloses, CarModeReached, CardStops | drives that start, end and restart at any step, between any two reads of pandad, which may die or stall |
| find_main_off_release | FindMainOffRelease.cfg | PausedAolNeedsMain | violated, see section 5 |
| find_params_queue | FindParamsQueue.cfg | QueueEmptyAtExit | violated, see section 5 |
| find_clear_hash | FindClearHash.cfg | ActivatesWhole | violated, see section 5 |

Bounds. `SOFT_DISABLE_TIME` is 3 frames (300 in the code): entering, waiting and
the cut are different frames. `MISMATCH_LIMIT` is 1 to 3 (200 in the code).
The theorems hold for every value of both. On the panda
the limits have the values of the code; `HEARTBEAT_CAP`, `MISMATCH_CAP` and
`SAFETY_MODE_CAP` stop counters one past, or at, the value beyond which they are
only compared. `CarModes`, `AolConfigs`, `OnBus` and `Reports` choose what a
panda run lets happen; each run leaves out what its properties cannot depend on,
and what is left out of panda_host (other messages on the bus) the theorems cover.

The other runs are bounded by `Budgets`, sets of records of how often something
happens in a behaviour; each behaviour has one of them. What is not budgeted (the
steps of processes, the order of everything) is free.

- msgq: a ring of 10 words and messages of 1 or 2 words (2 or 3 with the tag), the smallest in which
  three messages and a wraparound tag fit. Five messages
  lap a reader; four reach it with the conflating reader; two publishers in
  succession, and three subscriptions to two slots, are budgets of their own. Evictions
  together with two sends (13.7 million states), and two publishers in succession with
  two sends and a subscription of each reader (30 million), hold the safety properties
  as well and take too long to be kept as runs; the theorems cover both.
- params: two processes, two keys, and either three calls and a power loss or two
  calls, a kill (or a destroyed `Params`) and a power loss: two calls overlap, and one
  comes after.
- updated: three versions that need different OS images, since a torn image is
  taken for good only when a version is wanted again after another one's image was being
  written over its own, while a third one runs. One
  budget has one each of kill, power loss, failing command, edit and release in one
  behaviour; the other two releases, a power loss, a failing command and a skipped
  fetch. find_clear_hash has the second alone.
- onroad: up to three changes of ignition or conditions (a drive, its end and
  the next start), or two with a stall of pandad, or with its death, or one with two
  changes of settings.

Fairness. `WF(Step)`: the loop of `run` blocks only in `recv_one`, which has a
timeout. `WF(TickStep)`: the tick timer is a hardware timer, and a panda whose
interrupts stop is reset by its watchdog. Nothing is assumed of the host, of the
car, or of the parameter thread.
In Msgq, Params, Updated and Onroad a process that is scheduled takes its next
step: a reader finishes a call it has made (it need not make one), a publisher a send, an
actor of Params its operation (the lock is taken by somebody who waits), `updated` and
the launch script go on, and each of the four loops of Onroad runs. Kills, power
loss, users, the car and the end of the Force On-Road timer are never fair. Of pandad it is
assumed that its Python wrapper restarts it unless it has died too ("gone"), and of
the panda that it then counts the seconds without a heartbeat.

## 4. Proofs

**SelfdriveDProofs**, for all cars, carStates, system events and limits, from
the assumptions of the constants alone:

- `Invariance`: `Spec => []IInv`, where `IInv` is `TypeOK`,
  `MismatchDisengages`, `SoftDisableHasTime` and `EngagedOnlyWhenRunning`. The
  type invariant bounds the mismatch counter by its limit, which is not
  inductive by itself: the counter grows only while engaged, so the bound needs
  `MismatchDisengages`, and that needs `EngagedOnlyWhenRunning` (a frame of an
  engaged selfdrived does evaluate the mismatch event).
- `TypeCorrect`, `MismatchSafety`, `SoftDisableSafety` follow from it.
- `SoftDisableRuns`: `Spec => SoftDisableRunsOut`. AOL writes the shared timer
  only when selfdrived is not enabled, while softDisabling is an enabled state.
- `CanLossSafety`: `Spec => CanLossStopsControl`. The heart is
  `RewritingKeeps`: no stage of `update_events` removes an immediate disable
  event other than the ones it names, so what stops the first machine stops the
  second.

**PandaSafetyProofs**, for all modes, configurations, messages on the bus and
reports:

- `PandaInvariance`: `Spec => []PInv`. `PInv` is `TypeOK`, the six invariants
  below and `AolSawBrake` (in pause mode a permission was given with the brake
  seen released), which links the record that AOL keeps of the brake to the
  permission and survives mode changes, whereas the signal itself is reset.
- `PandaTypeCorrect`, `HostSafety`, `UnusedSafety`, `BrakeSafety`, `MainSafety`,
  `CruiseSafety`, `PauseSafety`. `UpdateFacts` says what one AOL update keeps
  and `UpdatesFacts` lifts it to the repetition, so that the theorems do not
  depend on the number of relay-checked messages.

The second part of **SelfdriveDProofs** is about AOL. `update_events` rewrites the
frame's events in stages, so it has one lemma per stage, which says which
events it can add and which it can remove, `Rewritten`, which chains them,
`PulseFields` for what the machine sees of the result, and `FrameParts` for what
a frame as a whole does.

- `AolInvariance`: `Spec => []AInv`, that is `IInv` and `PrevFollows`
  (`enabled_prev` is `enabled` at the end of the last frame, where AOL is
  fitted). Without it a unified engagement could be blocked in its own frame.
- `BrakeSafety`, `UnifiedSafety`, `AolSoftDisableRuns` from the assumptions of
  the constants alone.
- `RequestSafety` under `EnableFromCarState`: no event from outside carState
  engages. That is so for every car but a Honda with its own rising edge and the
  comma body, whose engagement is not in carState's fields.
- `MainOffSafety` under that and `CruiseNeedsMain`: a carState with cruise on has
  the main switch on. For a Volkswagen this follows from `TSK_Status`, where the
  values that mean engaged are a subset of those that mean available. The
  hypothesis is needed: TLC finds a violation without it, see section 5. Both
  hypotheses hold of the instances of all runs.

The second part of **PandaSafetyProofs**: `AolMainSafety` and `RepeatSafety`, from `PInv` and `VInv`:
what a Volkswagen never signals (`VwSignals`), that AOL has seen whatever the
mode has, and may remember more from before a mode was set again (`AolSaw`), and
that without pause on brake a request never stands without a permission nor a
permission without the main switch (`SteersOnMain`). Repetition makes no difference because a
second update sees no edge, and no request that the first left. Both assume `NoAolButton`, that the
panda is not also put in the mode of a Tesla: it sits in one car, and a button
press remembered from the other mode would count as a request.

**MsgqProofs**, for every size of the ring and of the messages (of which three fit,
as `msgq_msg_send` asserts), every number of readers and slots and any budget:
`MsgqInv` proves `MInv`. Neither property is inductive, as both follow from where the tags in
the ring are. A *boundary* is a place with a tag, or the write pointer. `RingOK`:
at every boundary but the write pointer a whole published message begins, and
ends at another boundary, or a wraparound tag stands beyond the write pointer. This holds of
what is left of earlier laps too, since the ring is overwritten from the left:
while a message is written over them the boundaries in its area are no longer
counted on (`Keeps` says what each step of the publisher leaves). `ReaderOK`: a
reader whose slot is its own and whose flag is on (`Live`) has its pointer on a boundary, and
never in the area that the publisher will write without another look at
that reader (`Overlooked`, `Uncounted`); hence the size it has
loaded, the words it has copied and the pointer it stores next are good as long as its flag stays
on. `ResetOK`: the pointer that a reset has loaded stays a boundary until the
publisher is a lap ahead, which is when the reader is adrift. `MsgqTypeCorrect`, `SizesSafety`
and `DeliverySafety` follow. Assumed: the ring is not empty, and 0 is no reader's
uid.

**MsgqOrderProofs**, under the same assumptions: `MsgqOrdered` proves `Ordered`.
`MInv` says where messages are and not which they are; `Ordered` numbers them. From a
boundary to the next the number grows by one, up to the write pointer, and what
is left of the cycle before is older (`OrderOK`); so what a live reader is about to receive is
newer than its last (`NewerOK`). `MsgqInOrder` is the refinement of the channel
in which every reader may lose messages (`Loose`, Channel with all
readers lossy): whatever is sent and however late the readers are, who is not adrift
receives published messages in order and none twice. `PubMaps`, `ReaderMaps` and
`ReturnMaps` map each step to a step of the channel.

**MsgqChannelProofs**: `MsgqImplements` is `Spec => ImplementsChannel`, which adds that a reader
that keeps up loses nothing. Its hypothesis `RoomForTag`
(three messages of any size and one more word fit the ring) is a word more
than the code asserts; section 5 says why the theorem is false without it. The inductive
`KeepsUp` says of a reader that is neither lagged, lossy nor adrift that it is *on time*: at its pointer is the
message after its last, or will be (`OnTime`). When a send begins it has at
most one unread message (`Behind`). Then the unread message, the one being sent and
one more fit between the two pointers or around the end of the ring (`FarAhead`), so
neither loop of the publisher hits the reader (`NoHit`) and its flag stays on
(`FlagStays`). At the end of a cycle it finds the wraparound tag of that cycle, and
not one left by an earlier cycle (`TurnsOK`, for which a cycle must hold at least two messages,
`TwoSoFar`). A subscription starts on time, since the pointer it loads is the
write pointer; if it is completed during a send it may miss that message, and
counts as lagged.

**ParamsProofs**, for all processes, keys and values (of which "torn" is none)
and any number of calls, kills and losses: `ParamsInv` proves `PInv`, whose parts are where each operation is (`JobsOK`: a value is renamed into place only
after its fsync), who holds the lock (`LockHeld`), that a snapshot agrees with
the directory as far as it has been read (`SnapshotsAgree`), that everything a
power loss may leave was synced (`NothingTorn`), and that disk and directory
differ only during a call or after a cut one (`InSync`). `ParamsTypeCorrect`,
`ParamsNeverTorn`, `ParamsReturnedIsDurable` and `ParamsSnapshotConsistent`
follow.

**UpdatedProofs**, for all versions and operating systems ("none" is no
version): `UpdatedInv` proves `UInv`. The properties speak of every disk
that a power loss may leave; they become inductive as a statement about every state since the last sync,
none of which depends on the page cache (`DiskOK`), with: the flag is off wherever
the staging area is worked on (`Unmarked`), what is true of a mounted overlay, that it
was not edited below while its canary is current (`OverlayOK`), what has been
prepared before the flag is set (`Prepared`), that a slot has no hash while its image is
written, and whatever hash it has otherwise is that of its image unless that is torn
(`Flashing`), and what the launch script relies on (`Launching`). `ReadyMeansReady` says of every
disk and of every slot that a power loss may leave that the OS is there. It holds
although the clearing of the hash may be lost, since the flag is only set after a sync that
follows the hash; what it cannot exclude is an image torn by an earlier power loss
(section 5). `UpdatedTypeCorrect`,
`UpdatedBootsWhole`, `UpdatedReadyMeansReady` and `UpdatedEditsKept` follow.

**OnroadProofs**: `OnroadInv` proves `OInv`, the types with one fact for each
process: CarParams or IQCarParams of an earlier drive are there only because they came
late (`EarlierIsLate`), and so it is with the copy in pandad unless it was overtaken
(`CopyIsLate`), a card that exists belongs to a drive, pandad acts only while it believes
itself onroad, and a panda in the car's mode has a drive. `OnroadTypeCorrect` and `ConfiguredSafety` follow.

Only model-checked: liveness (`SoftDisableEnds`, `PauseEnds`, `HostLossEnds`,
`UnusedControlsEnd`, `UnusedAolEnds`, `RecvReturns`, `CallsReturn`,
`UpdateGetsReady`, `RelayCloses`, `CarModeReached`, `CardStops`), which is out of the proof
system's reach. Every invariant and every action property of the passing runs, and the
refinement, is a theorem as well.

## 5. Where the code and what is said of it differ

- **find_main_off_release.** In the panda's pause mode, a request made while
  braking is not dropped when the main switch is turned off, and is granted when
  the brake is released. A test's comment says it should remain disabled.
- **find_params_queue.** `putNonBlocking` starts a thread only when the previous
  one's future is ready. A value pushed after that thread has found the queue
  empty, but before it has ended, waits for the next call, and the assertion of
  the destructor finds it.
- **find_clear_hash.** "Clear hash before flashing in case we get interrupted"
  (agnos.py:241). `clear_partition_hash` writes the zeros into the buffer of an open file and calls
  `os.sync` before the file is closed, so when the image is being written nothing has
  made sure that the old hash is gone. If power is lost then, the old hash may stay behind
  a torn image; when that earlier version is wanted again, it counts as flashed and is
  made active. `ReadyMeansReady` therefore has this exception, and no other: the hash
  is on disk for good, and with it the image unless power was lost during an earlier flash.

One more has no run of its own. `msgq_msg_send` asserts that three messages fit
the ring, "then we can always safely access the last message" (msgq.cc:246). With messages of
exactly a third of the ring this fails by one word, the wraparound tag: in a ring of 9
words, after messages of 1 and 2 words and their tags the next one of 2 wraps, since no
room for a tag would be left behind it, and its area ends one word into the message
before it. A reader that had only that one to read is invalidated, and loses it. The run `msgq` therefore
has one word more, and the theorem `MsgqImplements` assumes it for any ring; with `Size = 9`, TLC finds `ImplementsChannel` violated. The queues of
`cereal/services.py` are not affected, as none is a multiple of three words.

Exceptions that the comments of the properties state: a main switch coming on in a
braking frame ends a pause (`BrakeStopsSteering`); AOL that soft disables while
the engagement machine is preEnabled is given no time by anyone
(`AolSoftDisableRunsOut`); the panda's AOL mismatch count, unlike the other one,
is not restarted by a new permission (`UnusedAolEnds`); readers that evict each
other for ever (`RecvReturns`); calls cut by a kill (`ReturnedIsDurable`); a power
loss between the two renames of the launch script, after which there is no BASEDIR
(`BootsWhole`); an image torn earlier (`ReadyMeansReady`); a harness change, which
counts as having heard from the host (`CarModeHasHost`, `HostLossEnds`); and five of a
drive's start. Two concern `ConfiguredByThisDrive`: a card that was told to stop but has
not yet may write its parameters after they were cleared for the next drive, and
a drive may end and the next begin while pandad is between reading the parameters and
setting the panda. Three concern `CarModeReached`: a passive card never asks for the mode; a
panda that leaves it, also one that went SILENT as its heartbeats came late, is not
configured again before the next drive; and `card` waits for a multiplexing change for ever when
pandad came up after the request, or was not aware that a drive ended. `PROJECT.json` lists the
hazards that such an exception leaves open without a property, with a note.

Also met, without a property of their own: the comment at selfdrived.py:499-502 allows
a mismatch "for two samples", the code 200; Force On-Road sets Always Offroad
together with its exception (device.py:261), but `deviceState.started` is false
whenever Always Offroad is set (hardwared.py:444), so no drive starts; with the brake set to disengage AOL, a pausing
condition in the same frame leaves it paused; `canBusMissing` is muted in park
while AOL steers, not only while it is paused; a request that a steering override
blocks is granted by the next repetition of the update in the same message; a
version offered to the user is not installed if a command fails between the offer
and the reboot, as the failure removes the canary; with unified engagement, a
carState that turned the main switch off and cruise on in the same frame would
start AOL with the main switch off (no modelled car sends one); and `params_thread` may overwrite a
personality that selfdrived has just changed, before it is stored.

## 6. Not modelled, and the plan

Not modelled because nothing is left to a state-based model: neural networks,
estimators, numeric control, user interface, the car ports' signal decoding.
Transmit limits of the safety modes are numeric predicates of one command. By
lines, most of the repository is vendored or generated code (tinygrad with its
generated bindings, the CAN databases and ports of opendbc, rednose, teleoprtc),
which is not this program's own logic: the modules cover a small share of all
lines and the greater part of the code that decides about permissions, delivery,
storage and updates. `PROJECT.json` gives the reason for each component.

Planned, in this order:

1. **loggerd, uploader, deleter**: segment rotation against upload and deletion.
2. **driver monitoring**, **lane change**, **long control**: the state machines
   around the numeric code.
3. **Onroad with PandaSafety**: the panda's mode in Onroad replaced by the module
   that models it, with the heartbeats of pandad.
