# Formal models of EMO-Bot

TLA+ modules, TLC model-checking runs and machine-checked (TLAPS) proofs for the
desk robot in this repository: a two-legged balancing robot whose leg controller
(ESP32) is driven over a serial line by an asyncio program on a Raspberry Pi.

    tlc -config Firmware_all.cfg Firmware        # one run
    tlapm FirmwareProofs.tla                     # the proofs of one module

`PROJECT.json` lists the components, the runs, the source lines each definition
translates, a faulty variant for every property, the disagreements found between
code and documentation, and the hazards.

## 1. The system

| Part | State it keeps | Operations | Talks to |
|---|---|---|---|
| Leg controller, `firmware/emo_esp32/emo_esp32.ino` | mode (off, manual, balance, fallen), E-stop latch, IMU health and failure counter, pitch, gait targets, time of the last `W`, knee bob, fall timer, servo outputs | 13 serial commands, the 100 Hz control tick, reset | the serial link: `ACK`, `NACK`, `EVT`, `READY` lines |
| Behavior tree, `behavior_tree_module.py`, and the tick loop in `main.py` | `SharedState`: E-stop, IMU fault, fall, rest, standing, walk command and deadline, wake flag, posture, outbox; `CommandBus` queues; flags inside the guards | MQTT messages, controller lines, 10 Hz tick, `on_nano_reset` | MQTT, the serial queue, the speech queue |
| Serial link, `serial_module.py` | command queue, phase of `serial_task`, the worker thread's wait, lines handed to the loop | `offer`, `offer_urgent`, open, banner, send and wait, ping, park | both of the above |
| Speech, `audio_trigger_task.py`, `api_routing_task.py` | busy event, worker's event queue, speech queue | wake word, recording, jobs, cues, crashes | MQTT wake flag to the tree |
| Posture monitor, `vision_posture_module.py` | four timestamps and the alert flag; the last head heights, twice: as they came, and sorted | one update per judged pose | `POSTURE_POOR`, `POSTURE_OK` to the tree |
| Camera, `vision_posture_module.py`, `vision_task` in `main.py` | open or closed, failures in a row, backoff, publish queue | read, grab, reopen, report `UP`/`DOWN` | MQTT (retained) |
| Supervisor, `main.py` | the tasks, the shutdown event | start, crash of a critical or optional task, ordered shutdown | all tasks and their threads |
| MQTT client, configuration, deployment, tools, tests | connection options, environment | - | - |

What makes it hard, and where it bites (the full list is `hazards` in `PROJECT.json`):

* Messages, controller lines and ticks interleave freely. Two MQTT messages, or a
  message and a reboot, may fall between two ticks, and a tick sees only the state
  they leave behind.
* The tree, the link and the controller each hold a belief about the legs, and
  several commands and answers are under way between them.
* The controller can reboot at any moment and forgets its latch, its IMU state and
  what it was sent. The Pi notices only while it waits for an answer.
* Answers are lost, refused or late. The Pi retries `S` and repeats `W`; the
  controller stops a walk that is not repeated.
* The IMU fails for single reads or for good, in the middle of a walk or a fall; the
  distance sensor and the camera come and go.
* The wake-word worker, the camera loop and the serial worker are threads; cancelling
  a task does not stop its thread.
* Queues have limits: the command and the publish queue drop their oldest entry, the
  speech queue drops a cue, the outbox drops a command for the operator, the
  controller refuses a line that does not fit its buffer.

What makes each part correct:

* Leg controller: a latched E-stop keeps the servos off until `R`; servos are driven
  exactly in the modes that own them; no walk without a working IMU or without `W`
  being repeated; no IMU initialisation while balancing; a fallen robot is switched
  off; only whole lines are executed; a reported distance is recent.
* Behavior tree: `W` only on a valid command and to a standing robot; nothing moves
  while an E-stop, a fault, a fall or a rest is in force; tuning commands are neither
  stale nor too frequent.
* Serial link: bounded queue, commands in order and at most once, none from before a
  known reboot, servos off at exit, no unnoticed reboot.
* Tree, link and controller together: an E-stop is in force or on its way until it is
  cleared; rest and a handled fault relax the legs; clear releases them; the tree's
  belief that the robot stands is corrected; a free robot ends up standing.
* Speech: one conversation at a time, listener always released, flag not left up.
* Posture monitor: no alert too early, none missed, no premature all-clear; the sorted
  baseline stays the window's.
* Camera: given up only after enough failures, brought back, its state known to the broker.
* Supervisor: goes down on a signal or a crash of a critical task, for nothing else,
  and all the way.

## 2. Modules and how they correspond to the code

| Module | Models |
|---|---|
| `LegPower` | abstract: what the controller promises about power, latch and walking |
| `Firmware` | the leg controller: commands, control tick, resets |
| `FirmwareProofs` | theorems about `Firmware` |
| `FirmwareRx` | the controller's receiver of lines |
| `TofSensor` | the controller's distance sensor |
| `ServoOutputs` | the controller's servo outputs, the pulses it remembers and the bus to the servo driver |
| `FirmwarePartsProofs` | theorems about these three |
| `BehaviorTree` | the tree with messages, controller lines and the tick loop |
| `BehaviorTreeProofs` | theorems about `BehaviorTree` |
| `MCBehaviorTree` | `BehaviorTree` with history variables for its properties |
| `MCBehaviorTreeProofs` | the types of `BehaviorTree` and theorems about its history |
| `CommandChannel` | abstract: what the link promises about commands |
| `SerialLink` | `serial_task`, its worker thread, its producers, and the controller as the link sees it |
| `SerialLinkProofs` | theorems about `SerialLink`, its refinement of `CommandChannel` among them |
| `EmoRobot` | the body loop: `BehaviorTree`, the serial task and a controller that steps as `LegPower` |
| `EmoRobotProofs` | theorems about `EmoRobot` |
| `Speech` | wake-word worker, audio task, API task, cues, wake flag |
| `Program` | `Speech` inside `main.py`: all tasks, their threads, crashes and the shutdown |
| `ProgramProofs` | theorems about `Program` and the conversation in it |
| `Posture`, `Baseline` | `PostureMonitor`; `HeadHeightBaseline` and `judge_posture` |
| `Vision` | the camera thread, `Posture` and `Baseline` in it, the publish queue, `vision_task` |
| `MCVision` | `Vision` with what an observer of poses and reads knows |
| `VisionProofs` | theorems about `Vision` and its observer |

Definitions marked "Faulty variant" are plausible mistakes in the code. No
specification uses them; each property is shown to fail when the operator that
follows is replaced by its faulty variant.

**Firmware.** One action per serial command (`CmdStand` is `cmdStand`, and so on),
`Tick` is one `controlTick`, `Reset` a reboot. A handler's early returns with a
`NACK` are disjuncts with `Refuse`. `ImuUpdate`, `FallTimer`, `EnterFallen` and
`DriveLegs` are the parts of the tick in their order in the code. The measured
pitch (`pitch`) and the torso's real position (`body`) are separate: `body` changes
freely, `pitch` only when an IMU read succeeds. Three zones stand for the angle,
one for each side of the two thresholds the code compares it with. The first read
after an initialisation or a calibration sets `pitch` to the torso's zone, as the code
re-seeds its filter; a later one draws it there through the complementary filter,
zone by zone, in at most `FilterTicks` reads (`lag` counts them; any
shorter lag may happen too). That the filter reaches the zone of a torso that keeps
still, and turns back on no way there, is an assumption about numbers the model does
not have: the torso keeps clear of the thresholds, and the accelerometer's angle does
not flip from +180 to -180 degrees, as it may for a robot exactly upside down. Angles
count from the level in force (`settings.pitchOffset`): `body` is the zone relative to
it, so a successful `C` puts the torso into any zone of the new level - "up" if it was
still - and leaves `pitch` with its old value until the next read. A robot that was
calibrated lying down is "up" there for the code, and for every property. PID, joint
angles and gait phase are left out; `gait` says whether the targets are zero. Time is
counted in control ticks. `servos` is what the controller has commanded since it
booted; whether the bus delivers it is the subject of `ServoOutputs`.

**FirmwareRx** takes one byte per step. `Line` is what the Pi has sent since the last
line end; a reset in the middle divides it into `cutOff`, which the controller has
lost, and `heard`. `rxBuf` is what the controller kept of `heard`. **TofSensor**
takes one poll or one `D` per step; `measured` is the real age of the range that is
kept, `polls` the age the code knows from `lastTofMs`. **ServoOutputs** has what the sketch remembers
(`lastLegTick`), what the driver puts out (`chan`) and which writes were lost; the
driver behaves as its stand-in in `tests/firmware` does and keeps its outputs over a
reset of the controller.

**BehaviorTree.** `Message(m)` is `apply_topic_payload` for one accepted payload,
`SerialLine(l)` is `apply_serial_line`, `Connected` is `on_connect`, `Tick` runs
the tree once and drains the motor queue into `out`. asyncio runs one callback at
a time, so each of these is one step. The branches are those of `build_tree`, and
each is guarded by the failure of the ones before it (`Free` and so on). Timers are
the number of ticks they have left. Payload values (speeds, gains) are zero or not.

**SerialLink.** `phase` is where `serial_task` is. The worker thread writes in
`Send`, and each line it reads is a step (`ReadLine`) that hands the line to the
loop (`inbox`, `call_soon_threadsafe`); the task goes on (`Resume`) after those lines
were handled, because they were scheduled first. Cancelling leaves the worker behind
(`orphan`) and starts `Park`. The controller executes what was written, answers or
not, reports events and reboots. Timeouts may happen at any time, so every race
between a deadline and an answer is included, late answers among them. The `old`
flag on commands is read by properties only. `ChannelSpec` maps queue, command in the
worker's hands and wire to one sequence of pending commands of `CommandChannel`.

**EmoRobot** extends `BehaviorTree`. A tick and its `offer`s are one step, because
`behavior_tree_task` awaits nothing in between. The tree's controller lines are the
ones the modelled controller writes. A `board` is reset by opening its port (`usb`) or
not (`uart`). An IMU that never answered since the boot (`absent`) does not keep `S` from
powering the legs, as on the bench; one that did and failed (`lost`) does. `lost` and
`held` are history: the commands the link lost since the tree last sent them, and that
the tree has latched an E-stop nobody cleared since.

**Speech** and **Program.** The worker thread's busy check, its event posts and the end
of a recording are steps of their own, interleaved with the two tasks. A job goes
through its requests one by one (`Cascade`), each of which may fail into the fallback
sound. The wake flag travels through a FIFO to the tree. `EndConversation` is the
supervisor's `on_crash`. `Program` adds the critical tasks, the camera thread and
`main`: `Stop` cancels every task in one step, then each ends in its own way - the
serial task parks, the audio task waits for its thread, the vision task for at most
2 s, a cancelled job runs its `finally` - and `Exit` is `asyncio.run` waiting for the
threads that are left.

**Vision.** A step of `CameraLoop` is one iteration of `run_vision`: a pause, a failed
open, a failed read, a grab, or a frame that is judged. Timestamps become ages that
saturate at the largest threshold. What a frame shows is chosen from `Views`; how the
landmarks become three numbers is left out. `lost` records that the publish queue
dropped the newest state message.

## 3. Runs

Passing runs:

| Run | Question | Distinct states |
|---|---|---|
| `firmware_all` | all safety of the controller, no robot lies pushing against the floor for ever, `Firmware` implements `LegPower` | 178,334 |
| `tree_motion` | walking, E-stop, faults, falls, rest, reboot, standing up again | 90,360 |
| `tree_tuning` | the outbox, the flash-write limit, posture and conversation branches | 117,573 |
| `link_all` | queue, reboots, shutdown, `SerialLink` implements `CommandChannel` | 931,520 |
| `program_all` | conversations, crashes, full queue, shutdown | 71,688 |
| `vision_all` | alerts, all-clears, baseline, camera losses, retained state | 257,691 |
| `robot_link` | E-stop, rest and clear across full queues, resets and lost ports | 183,783 |
| `robot_legs` | standing, falls, refusals and IMU faults across tree, link and controller | 176,307 |

Runs that show a disagreement between the code and what the repository says of it
(details under `findings` in `PROJECT.json`):

| Run | Says | Does |
|---|---|---|
| `firmware_boot` | `S` is refused when lying down | before the first control tick pitch is 0, and `S` powers the legs of a robot on the floor |
| `tree_resume` | "clear" must not resume the walk | error and clear between two ticks leave the walk running |
| `robot_fallen` | after a fall the servos are off and the robot waits for "stand" | a `stand` queues a second `S` behind one that waits; the first is refused as `TILTED`, the second accepted: the legs are powered while the tree takes the robot for fallen and sends nothing, not even for a rest |
| `robot_rest` | after a reconnection the tree rebuilds the state from scratch | with `S` and `O` queued, a reset of the controller drops the `O`, which the tree never sends again, while the `S` already written powers the booted controller: a resting robot stands |

Further disagreements that no run states:

* `is_reply_to` compares the letter only, so a late answer to `W` ends the wait for
  the next `W`, although `serial_module.py:109` says that late replies are skipped.
* After a cancellation `park` reads the port beside the abandoned worker, although
  `serial_module.py:111` says that reads never overlap; `ParkedAtExit` holds nevertheless.
* A command taken from the queue before the banner is read reaches the booted
  controller, although the docstring of `discard_pending` speaks of every command.
* A `stand` left over from one IMU fault makes the tree retry the IMU in the next one,
  unasked.
* Clear, a reboot of the controller and a new error between two ticks leave the
  controller without its latch; `held` of `EmoRobot` is false there, because the tree
  itself has seen no new error.
* A controller that reboots without a power cycle leaves the outputs of the servo
  driver as they were: `setup()` writes to none of them (`booted` of `ServoOutputs`),
  although `behavior_tree_module.py:486` says that it boots with its servos off. What
  the driver library's `begin()` does is outside the repository.
* Two poor poses around a camera outage of `POSTURE_CONFIRM_S` raise the alert,
  although nobody was watched in between and `vision_posture_module.py:29` speaks of
  continuous poor posture. `AlertEarned` counts such an outage as slouching, as the
  code does.
* A wake word heard just before the API task died raises the wake flag after
  `end_conversation` has lowered it ("nobody will lower the wake flag, so do it here",
  `main.py:223`), with the listener on; only the flag's timeout lowers it again.
* If the controller boots in the middle of a line, it executes the rest of that line as a
  line of its own.
* If the camera thread crashes, `UP` stays retained (`StateReported` speaks of a
  living `vision_task`).
* After a crash of a critical task the process exits with status 0, which
  `Restart=on-failure` of the systemd unit takes for success.

### Bounds

* `Firmware`: all limits are 2, the lag of the filter among them: it may follow at once
  or one read late, with failed reads and moves of the torso in between. Below 2 an IMU
  could be lost by one read, which the code excludes; at 2 every counter has a first
  step, a middle and its limit.
  The proofs cover all values. `firmware_boot` uses an IMU limit of 3, for a failed
  fresh read.
* Behavior tree: retry, walk, heartbeat and flash periods are 2 ticks, conversation
  and posture 1, the outbox 2 (calibrate needs two places, so one free place, none
  and two all occur). The messages are split over two runs by the branches they
  reach: motion with wake flag, and tuning with posture and wake flag down. Lines the
  tree ignores are left out of the tuning run.
* Serial link: two letters (`E`, and `S` for any other command), a queue of 2, and 2
  commands or lines under way in each direction.
* `EmoRobot`: a queue of 2, one command on the wire, one line nobody asked for beside
  the answers. A queue of 2 is full with one retry of `S` and one `O` or `E`, so that
  every overflow and every `offer_urgent` over waiting commands occurs. All tree
  periods are 1, so that every tick may retry, which gives more commands under way
  than the code has (except `robot_fallen`, where the retry is 3: there a `stand` that
  resets the timer is what queues the second `S`). The two passing runs split the
  mishaps: resets and lost ports on both boards, and falls and IMU faults on USB.
* `Program`: a queue of 2 jobs, 3 flag messages under way. There is at most one
  recording, so a queue of 2 can be full of cues, half full and empty.
* `Vision`: confirmation, reminder and absence thresholds 4, clearing 3, grace 2,
  one pose per iteration at most; the camera is given up after 2 failures, pauses grow
  1, 2, 4. Thresholds can pass before, with and after each other one, and the longest
  pause reaches over the confirmation time. A publish queue of 2 is filled by one state
  and one event. A window of 3 heights with 2 values holds equal heights and replaces
  its oldest; the baseline is used from 2 samples on.

### Fairness

* `Firmware`: the control tick runs (`loop()` calls it whenever 10 ms have passed,
  whatever arrives on the link). No command is assumed to arrive.
* Serial link: the loop and the worker go on, a line that has arrived is read now
  and then before a deadline passes (strong fairness: the deadline is 0.3 s away, the
  line is already in the buffer), and the controller executes what it received.
  Nothing is assumed about crashes, reboots or producers.
* `EmoRobot`: the tick runs (10 Hz loop), the serial task goes on, and the controller
  executes what it received. A line that has arrived is read before the deadline
  passes, as above; a line that comes after it is read by the next wait. The two
  liveness properties assume that resets and lost ports end (`LinkHolds`): each of
  them legitimately starts the work over. Nothing is assumed about messages, falls or
  IMU faults, except what a property names.
* Speech and `Program`: recordings and jobs end (5 s; `API_TIMEOUT_SECONDS`;
  playbacks are assumed to), the broker delivers, the audio task handles its events,
  and a waiting `put` gets a place when one becomes free again and again (asyncio
  serves waiting putters in order). At shutdown what is cancelled gets its turn and
  the reads of microphone and camera return, so that the threads see their stop flag.
  Nothing is assumed about wake words, cues, signals or crashes.
* `Vision`: the camera loop runs and `vision_task` publishes. That the camera works
  again is the premise of `CameraReturns`, not an assumption.

## 4. Proofs

`FirmwareProofs` proves for every value of the five limits (assumption
`FirmwareAssumption`: limits at least 1, the IMU limit at least 2):

* type correctness, `EStopHolds`, `PoweredInMode`, `NoBlindWalk`, `WalkIsFed`;
* the action property `NoReinitWhileBalancing`, which no run checks;
* `FallIsCounted`, the safety half of `FallIsCaught`: a robot that lies on the floor and
  still balances has at most `FilterTicks * ImuFailLimit + FallTicks + 1` control ticks
  left. `Countdown` adds up the reads that the filter still needs, each of them after as
  many failed ones as a live IMU may have, and the time until the fall is declared; every
  tick takes at least one away, and no command, failed read or lag of the filter gives
  one back;
* `FirmwareImplementsLegPower`: `Firmware` implements `LegPower`.

None of the four safety invariants is inductive by itself. `IInv` joins them with
the types, and adds that a working IMU's failure counter is strictly below its limit
(without it the next failed read would pass the counter's bound). The latch needs the
mode (a latched controller is off, so no handler that looks at the mode alone can
power it), and the gait needs both power and a fed watchdog. There is one lemma per
group of handlers, one for the tick and one for a reset; the theorems then follow
with temporal logic only. The refinement is a step lemma (`PowerStep`) under `IInv`.

`FirmwarePartsProofs` speaks of three modules that exist for their theorems and have
no run. Of `FirmwareRx` it proves, for every buffer size of at least 1 (`Fits`) and
every sequence of bytes and resets, that the buffer holds exactly what was heard of the
line while that fits (`Buffered`), and from it that what runs is a whole line, or the rest
of one in the middle of which the controller booted, that nothing that fits is dropped,
and that a line that does not fit is refused, exactly at its first byte too many. Of
`TofSensor`, for all limits (`Limits`), that a reported distance is younger than
`Stale + FailLimit` polls. Its invariant `Kept` counts every poll since
the range as either failed or within the stale limit: the code lets failed polls pass
without looking at the age, and only the failure counter bounds them. Of `ServoOutputs`,
for every wiring of legs to channels (`Wiring`) and every loss of bus writes, that an
all-off leaves on only the channels that both the write to all and the fallback failed
to reach, and that a remembered pulse never hides a write that a balancing leg needs.
The invariant adds that outside the balancing mode nothing is remembered.

`BehaviorTreeProofs` proves `WalkNeedsStand` and `NoMotionWhileBlocked` for every
period, every limit and every set of messages and controller lines. The invariant is
`TreeInv`: a walking robot stands, and the outbox holds tuning commands only. The
second half is what the action property needs: the outbox is sent ahead of every
branch, so a blocked robot stays still only if nothing in it can move the robot.

`MCBehaviorTreeProofs` adds the tree's types - one tick sends at most two commands more
than the outbox holds, which is false for an outbox of 0, hence the assumption
`OutboxMax >= 1` (the code has 16) - and the four properties about the operator's
authority: `WalkAuthorised`, `WalkStops`, `TuningAuthorised`, `FlashSpaced`. They speak
of one step, and hold because of `HistoryInv`, in three parts. `Granted`: a walk that
runs ends no later than the authority of the last walk command. `Asked`: unless an
E-stop is latched, what waits in the outbox was asked for since the last tick; under a
latched E-stop the outbox may be older, but the tick that releases the latch empties it
before it sends. `Spaced`: age and timer of a flash command add up to the period, and one
that waits has its timer freshly set - without this a second `K` could join the first.

`EmoRobotProofs` proves the five safety invariants of the body loop for either board, every
queue size and period and every set of mishaps. The set of messages is any without a
walk (`EmoRobotAssumption`): the composition has no gait. The runs use four of the messages,
the theorems all that are left. None of the invariants is
inductive: `"E" \in UnderWay` says nothing of what the controller does after the `E`. The
strengthening orders what is under way. The commands the controller will meet are the
wire followed by the queue, and a command sent once is `Settled` while none that undoes it
stands behind it, or while it is in effect and nothing under way undoes it.

* `EStopInv`: an `E` is settled against `R`; or the link is down, or the banner is
  coming, after which the tree sends it again. The queue then holds nothing or
  just that `E`, because `offer_urgent` empties it.
* `RelaxInv`: an `E` or `O` for a rest or a fault is settled against `S`, unless `lost`
  says that the link dropped it. `ReleaseInv`: `R` is settled against `E` likewise.
* `BeliefInv`, on the lines on their way back: without power, every `ACK,S` is followed by
  a line that corrects it.

Each step of the robot is shown to keep the order, to lose commands `lost` tells of, or
to lead to a banner. `TreeSide` shows that a step of the robot is a tick, a message, a line
or nothing to the tree, so that `TreeInv` is an invariant of the robot too, and no tick
of a blocked robot puts `S` or `W` into the queue.

More results build on this. `EStopStaysInForce` is the safety half of `EStopTakesEffect`:
once latch and power are as the E-stop wants them and no `R` is on the wire, only the
operator's `clear` or a boot of the controller ends that. It needs `EStopInv`, by which no
`R` can be waiting in the queue of a held robot. `StandAlwaysAsked` and `StandingStaysUp` are
that half of `StandsUp`: a tick that may stand the robot up and believes it down counts
down to the next `S` and then puts it into the queue, however full that is; and a robot
that stands, the tree knowing it and nothing under way against it (`Up`), goes on standing,
until a mishap or something that holds it down. `RobotImplementsLegPower`: driven through
queue and link, the controller of this module keeps the promise that `Firmware` keeps in
detail. `RobotImplementsTree`: if the lines of `LineSet` are lines a controller sends
(`ControllerLines`), the robot implements the specification of `BehaviorTree`; a step the
tree does not see is a line that it ignores. So the environment the tree was checked in
is wide enough for the link and the controller it has.

`ProgramProofs` proves, for every size of the speech queue, `BodyDecides` (shutdown is
requested exactly if a signal came or a critical task is no longer running),
`ProgramTypeOK`, `OneConversation` and `FlagFollows`. `SpeechInv` gives the one
conversation exactly one place - with the thread, in its messages, waiting to be put, in
the queue, at the API task - and derives from the place that the listener is off and
what the last flag message says. That the loop never holds more than four of the
worker's events is part of the types and needs `EventsFew`, which counts those the
worker may still post. With the API task dead the places say nothing, and the
properties exclude it (section 5).

Four more theorems are the safety halves of `Rearmed` and `StopsCompletely`.
`ListenerOffForReason`: the listener is off only while its conversation is in the hands of
some task, or until the audio task notices that the worker died in it.
`ConversationGoesOn`: meanwhile some step of the conversation has its guard true, whatever
is full. `ShutdownNeverStuck` says the same of the way down, whatever had crashed before
it, and `ShutdownProgresses` that every step of it lowers `Left`, a count of what is still
to end, which nobody raises once main has cancelled its tasks. `CanTalk` and `CanEnd` write
out the guards of the fair actions, because ENABLED is out of reach; that a fair step is
then taken is what the runs check.

`SerialLinkProofs` proves, for every set of letters with `E` in it and every bound, the types
with the limit of the queue, `BacklogIsFresh`, `ParkedAtExit`, `ResetNeverForgotten` and the
refinement `ChannelSpec`. The backlog is fresh because what is offered while the Pi knows of
the last boot is. Parking needs `ParkInv`: nothing follows the final `O` on the wire, and if the
wire is empty the servos are off; it holds although the abandoned worker may still
read and the controller may reboot. `ResetNeverForgotten` is the safety half of
`ResetNoticed`: while the task runs and the Pi has not handled the last boot, the port is to
be opened, the banner is waited for or under way, or handling it is the next step. It
needs `OrphanClosing`: a worker left behind could read the banner away, but only a task
that is being cancelled leaves one. For the refinement every step is shown to add at the
end, take the head, drop, or leave the sequence of pending commands (queue, worker, wire)
alone, with what was left in the queue forgotten once the task closes.

`VisionProofs` proves the types of the camera side, `SlouchNoticed`, `AlertEarned`,
`ClearEarned`, `OutageIsReal` and `StateReported`, for all durations, periods, limits,
queue sizes and views, and that `MCVision` implements the specification of `Posture`: the
camera loop feeds it only what it is specified for. `TimersInv` ties the monitor's
timers to the observer's: its slouch is `poorAge`, its run of good poses (`well`)
`goodAge`, its absence `absentAge`, and what would
break a timer lies behind its start (`Trail`); saturated ages keep their order, which is
what makes the cap harmless. `Eyes` ties the failure counter to the observer's reads in a
row. `MailInv` says that as long as `vision_task` lives the newest state in the queue, or
else what the broker retains, is the state of the camera - or that very message was
dropped, and then no other state is in the queue.

`BaselineAlwaysPercentile` speaks of the sorted copy of the window, which the code patches
with two bisections a frame. Without an induction over the window it is proved from
counts: `BaseOK` says that the copy is ordered and holds every height as often as the
window does; finding the place by bisection and inserting or removing there keeps both;
and two ordered sequences with the same counts are equal, so the copy is the sorting of
the window and its element at the percentile's index the percentile. Heights are
integers here (assumption on `Views`); all that is used of them is their order.

Only model-checked:

* all liveness, because fairness and ENABLED are out of the prover's reach: `FallIsCaught`,
  `ResetNoticed`, `Rearmed`, `StopsCompletely`, `CameraReturns`, `EStopTakesEffect`,
  `StandsUp`. All but `CameraReturns` have their safety half proved: that what is to
  happen is under way, and that nothing takes back what was reached;
* the four disagreements, each of which a trace shows.

## 5. Not modelled, and why

* The Nano sketch: the same protocol for another board; its handlers follow the
  ESP32 sketch that is modelled.
* In the ESP32 sketch: the settings in flash and the telemetry lines, which change
  nothing that the properties tell apart. (Of the settings, the level that `C` moves is
  in the model as the reference of `body`.)
* PID, gait generation, landmark geometry, image and audio processing, HTTP calls:
  numeric or external, with no state the properties tell apart.
* MQTT options, TLS, configuration, `tools/sim_nano.py`, tests, deployment. With
  `SERIAL_PORT=sim` the serial task logs what it takes from the queue.
* A cue is spoken without the busy event, so the listener may hear it. What the
  microphone hears is not in the model. When the API task dies nobody answers any
  more; `Rearmed` excludes that, and after the tree has ended (during shutdown) the
  wake flag means nothing.
* A wake word after the API task has died raises flag and busy event, and nobody lowers
  the event again; the flag expires. One heard just before may raise the flag without
  the event (section 3). `OneConversation`, `FlagFollows` and `Rearmed` exclude
  `api = "dead"`, the first two as a premise, the last as a way out.
* `BacklogIsFresh` speaks of the queue, not of the command the worker had taken before the
  banner; `StateReported` not of a state message that the full publish queue dropped.
* The wire of the wake flag (`wire` of `Speech`) loses nothing, although the flag is
  published with QoS 0: a lost "0" is what the flag's timeout is for.

## 6. Plan

Every safety property of a passing run is a theorem. What is left, in order of importance:

1. `WalkAuthorised` in the whole robot, which needs a gait in `EmoRobot`.
2. The safety half of `CameraReturns`: the pause is counted down, and the return of the
   camera is what the broker is told last.
3. The settings in flash and the second board's sketch, if their code grows beyond the
   protocol they share with the modelled one.
