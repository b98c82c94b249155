---------------------------- MODULE BehaviorTree ----------------------------
(***************************************************************************)
(* The Pi's behavior tree: behavior_tree_module.py and the tick loop of    *)
(* behavior_tree_task in main.py.  MQTT messages and controller lines are  *)
(* applied between ticks (asyncio runs one callback at a time); a tick     *)
(* runs the tree once and drains the motor queue.                          *)
(*                                                                         *)
(* Time is counted in ticks (0.1 s).  A timer is the number of ticks it    *)
(* still blocks or still lasts: set between two ticks it gets its whole    *)
(* duration, set by a tick one less.  None and expired are both 0.         *)
(* Commands are their letters; "W0" is W,0,0.  Walk speeds are zero or     *)
(* not; gains, the ToF distance and the telemetry flag are payload.        *)
(***************************************************************************)
EXTENDS Naturals, Sequences

CONSTANTS
    StandRetry,    \* STAND_RETRY_S
    WalkMax,       \* WALK_MAX_S
    Heartbeat,     \* WALK_HEARTBEAT_S
    ConvMax,       \* CONVERSATION_TIMEOUT_S
    PostureMax,    \* POSTURE_GESTURE_S
    FlashMin,      \* FLASH_WRITE_MIN_S
    OutboxMax,     \* OUTBOX_MAX
    AllowNoImu,    \* config.ALLOW_NO_IMU
    Messages,      \* the MQTT messages that may arrive
    ControllerLines \* the controller lines that may arrive

AllMessages == {"error", "clear", "stand", "rest", "stop", "walk", "walk0", "gesture",
                "telemetry", "distance", "gains", "calibrate", "wake", "sleep", "poor", "fine"}

ASSUME BehaviorTreeAssumption ==
    /\ {StandRetry, WalkMax, Heartbeat, ConvMax, PostureMax, FlashMin} \subseteq Nat \ {0}
    /\ OutboxMax \in Nat \ {0}
    /\ AllowNoImu \in BOOLEAN
    /\ Messages \subseteq AllMessages

VARIABLES
    estop,         \* SharedState.estop_active
    latched,       \* EStopGuard.latched
    resend,        \* estop_resend
    imuFault, imuRetry,
    imuHandled,    \* ImuFaultGuard.handled
    fallen,
    announced,     \* FallenGuard.announced
    resting,
    restSent,      \* RestGuard.sent
    standing,      \* legs_standing
    standWait,     \* ticks request_stand still waits for its answer
    walkMove,      \* walk_speed or walk_turn is not zero
    walkLeft,      \* ticks until walk_until
    walking,
    beat,          \* ticks until W is repeated
    convLeft,      \* ticks the wake flag still counts, 0 = down or timed out
    postureLeft,   \* ticks the posture branch still owns the robot
    alertNew,      \* posture_alert_seq # handled_alert_seq
    outbox,
    flashLeft,     \* per flash command, ticks until it is allowed again
    out,           \* the motor commands of the last step
    cue            \* the audio cue of the last step

estopVars == <<estop, latched, resend>>
imuVars == <<imuFault, imuRetry, imuHandled>>
fallVars == <<fallen, announced>>
restVars == <<resting, restSent>>
legVars == <<standing, standWait, walking>>
walkVars == <<walkMove, walkLeft>>
postureVars == <<postureLeft, alertNew>>
outboxVars == <<outbox, flashLeft>>
vars == <<estopVars, imuVars, fallVars, restVars, legVars, walkVars, beat, convLeft,
          postureVars, outboxVars, out, cue>>

Flash == {"gains", "calibrate"}
Tuning == {"G", "T", "D", "K", "O", "C"}
Commands == {"E", "R", "S", "W", "W0", "I"} \cup Tuning
Cues == {"none", "EMERGENCY_STOP", "IMU_FAULT", "FALLEN", "POSTURE_WARNING"}

Init ==
    /\ estop = FALSE /\ latched = FALSE /\ resend = FALSE
    /\ imuFault = FALSE /\ imuRetry = FALSE /\ imuHandled = FALSE
    /\ fallen = FALSE /\ announced = FALSE
    /\ resting = FALSE /\ restSent = FALSE
    /\ standing = FALSE /\ standWait = 0 /\ walking = FALSE
    /\ walkMove = FALSE /\ walkLeft = 0 /\ beat = 0
    /\ convLeft = 0
    /\ postureLeft = 0 /\ alertNew = FALSE
    /\ outbox = <<>> /\ flashLeft = [c \in Flash |-> 0]
    /\ out = <<>> /\ cue = "none"

Dec(n) == IF n = 0 THEN 0 ELSE n - 1

(* _legs_off()                                                              *)
LegsOff == standing' = FALSE /\ walking' = FALSE /\ standWait' = 0

-----------------------------------------------------------------------------
(* MQTT messages (apply_topic_payload).                                     *)

Quiet == out' = <<>> /\ cue' = "none"

Error ==
    /\ estop' = TRUE
    /\ UNCHANGED <<latched, resend, imuVars, fallVars, restVars, legVars, walkVars, beat,
                   convLeft, postureVars, outboxVars>>

Clear ==
    /\ estop' = FALSE
    /\ UNCHANGED <<latched, resend, imuVars, fallVars, restVars, legVars, walkVars, beat,
                   convLeft, postureVars, outboxVars>>

Stand ==
    /\ fallen' = FALSE /\ resting' = FALSE /\ walkLeft' = 0 /\ standWait' = 0
    /\ imuRetry' = (imuRetry \/ imuFault)
    /\ UNCHANGED <<estopVars, imuFault, imuHandled, announced, restSent, standing, walking,
                   walkMove, beat, convLeft, postureVars, outboxVars>>

Rest ==
    /\ resting' = TRUE /\ walkLeft' = 0
    /\ UNCHANGED <<estopVars, imuVars, fallVars, restSent, legVars, walkMove, beat, convLeft,
                   postureVars, outboxVars>>

Stop ==
    /\ walkLeft' = 0
    /\ UNCHANGED <<estopVars, imuVars, fallVars, restVars, legVars, walkMove, beat, convLeft,
                   postureVars, outboxVars>>

(* walk,<speed>,<turn>[,<seconds>]: seconds is clamped to 0..WALK_MAX_S.    *)
WalkFor(moving, ticks) ==
    /\ walkMove' = moving /\ walkLeft' = ticks /\ resting' = FALSE
    /\ UNCHANGED <<estopVars, imuVars, fallVars, restSent, legVars, beat, convLeft, postureVars,
                   outboxVars>>

\* Faulty variant: only asks whether the outbox is full already.
FitsOne(cmds) == Len(outbox) < OutboxMax

(* _queue_raw: all of the commands or none.                                 *)
Fits(cmds) == Len(outbox) + Len(cmds) <= OutboxMax

QueueRaw(cmds) ==
    /\ outbox' = IF Fits(cmds) THEN outbox \o cmds ELSE outbox
    /\ UNCHANGED <<estopVars, imuVars, fallVars, restVars, legVars, walkVars, beat, convLeft,
                   postureVars, flashLeft>>

\* Faulty variant: the flash limit is not checked.
FlashUnlimited(c, cmds) == Fits(cmds)

(* _flash_write_allowed and _queue_flash_write.                             *)
FlashQueued(c, cmds) == flashLeft[c] = 0 /\ Fits(cmds)

Gains ==
    /\ IF FlashQueued("gains", <<"K">>)
       THEN /\ outbox' = Append(outbox, "K")
            /\ flashLeft' = [flashLeft EXCEPT !["gains"] = FlashMin]
       ELSE UNCHANGED outboxVars
    /\ UNCHANGED <<estopVars, imuVars, fallVars, restVars, legVars, walkVars, beat, convLeft,
                   postureVars>>

Calibrate ==
    /\ IF FlashQueued("calibrate", <<"O", "C">>)
       THEN /\ outbox' = outbox \o <<"O", "C">>
            /\ flashLeft' = [flashLeft EXCEPT !["calibrate"] = FlashMin]
            /\ resting' = TRUE /\ walkLeft' = 0
       ELSE UNCHANGED <<outboxVars, resting, walkLeft>>
    /\ UNCHANGED <<estopVars, imuVars, fallVars, restSent, legVars, walkMove, beat, convLeft,
                   postureVars>>

(* The wake flag; "sleep" also stands for clear_conversation(), called when *)
(* the audio or the API task dies.                                          *)
WakeFlag(up) ==
    /\ convLeft' = IF up THEN ConvMax ELSE 0
    /\ UNCHANGED <<estopVars, imuVars, fallVars, restVars, legVars, walkVars, beat, postureVars,
                   outboxVars>>

PostureState(poor) ==
    /\ postureLeft' = IF poor THEN PostureMax ELSE 0
    /\ alertNew' = (alertNew \/ poor)
    /\ UNCHANGED <<estopVars, imuVars, fallVars, restVars, legVars, walkVars, beat, convLeft,
                   outboxVars>>

Ignored == UNCHANGED <<estopVars, imuVars, fallVars, restVars, legVars, walkVars, beat, convLeft,
                       postureVars, outboxVars>>

RefusedDuringEStop == {"walk", "walk0", "gesture", "telemetry", "gains", "calibrate"}

Refused(m) == estop /\ m \in RefusedDuringEStop

Accept(m) ==
    \/ m = "error" /\ Error
    \/ m = "clear" /\ Clear
    \/ m = "stand" /\ Stand
    \/ m = "rest" /\ Rest
    \/ m = "stop" /\ Stop
    \/ m = "walk" /\ \E ticks \in 0..WalkMax : WalkFor(TRUE, ticks)
    \/ m = "walk0" /\ \E ticks \in 0..WalkMax : WalkFor(FALSE, ticks)
    \/ m = "gesture" /\ QueueRaw(<<"G">>)
    \/ m = "telemetry" /\ QueueRaw(<<"T">>)
    \/ m = "distance" /\ QueueRaw(<<"D">>)
    \/ m = "gains" /\ Gains
    \/ m = "calibrate" /\ Calibrate
    \/ m = "wake" /\ WakeFlag(TRUE)
    \/ m = "sleep" /\ WakeFlag(FALSE)
    \/ m = "poor" /\ PostureState(TRUE)
    \/ m = "fine" /\ PostureState(FALSE)

Message(m) ==
    /\ Quiet
    /\ IF Refused(m) THEN Ignored ELSE Accept(m)

-----------------------------------------------------------------------------
(* Controller lines (apply_serial_line), as records [kind, cmd, info].      *)

(* on_nano_reset(): the controller rebooted, or the port was opened.        *)
\* Faulty variant: the E-stop is not sent again.
NanoResetForgets == LegsOff /\ UNCHANGED resend

NanoReset == LegsOff /\ resend' = estop

Ready(info) ==
    /\ NanoReset
    /\ imuFault' = (info = "NOIMU" /\ ~AllowNoImu)
    /\ UNCHANGED <<estop, latched, imuRetry, imuHandled, fallVars>>

AckStand(info) ==
    /\ standing' = TRUE /\ standWait' = 0
    /\ imuFault' = (info = "NOIMU" /\ ~AllowNoImu)
    /\ UNCHANGED <<estopVars, imuRetry, imuHandled, fallVars, walking>>

AckImu ==
    /\ imuFault' = FALSE /\ standWait' = 0
    /\ UNCHANGED <<estopVars, imuRetry, imuHandled, fallVars, standing, walking>>

\* Faulty variant: the answer to O or E is not read.
AckOffUnread == UNCHANGED <<estopVars, imuVars, fallVars, legVars>>

AckOff == LegsOff /\ UNCHANGED <<estopVars, imuVars, fallVars>>

\* Faulty variant: a fallen robot still counts as standing.
FellStanding == fallen' = TRUE /\ UNCHANGED <<estopVars, imuVars, announced, legVars>>

Fell == fallen' = TRUE /\ LegsOff /\ UNCHANGED <<estopVars, imuVars, announced>>

ImuFailed ==
    /\ imuFault' = TRUE
    /\ LegsOff
    /\ UNCHANGED <<estopVars, imuRetry, imuHandled, fallVars>>

Watchdog ==
    /\ walking' = FALSE
    /\ UNCHANGED <<estopVars, imuVars, fallVars, standing, standWait>>

\* Faulty variant: a refused W leaves the walk running.
NotBalancingKeepsWalk ==
    /\ standing' = FALSE /\ standWait' = StandRetry
    /\ UNCHANGED <<estopVars, imuVars, fallVars, walking>>

NotBalancing ==
    /\ standing' = FALSE /\ walking' = FALSE /\ standWait' = StandRetry
    /\ UNCHANGED <<estopVars, imuVars, fallVars>>

IsFall(l) == \/ l.kind = "EVT" /\ l.info = "FALLEN"
             \/ l.kind = "NACK" /\ l.cmd = "S" /\ l.info = "TILTED"
IsImuFail(l) == \/ l.kind = "EVT" /\ l.info = "IMU_FAIL"
                \/ l.kind = "NACK" /\ l.cmd \in {"S", "W", "I"} /\ l.info = "NOIMU"
IsRefusedMove(l) == /\ l.kind = "NACK" /\ l.cmd \in {"S", "W"}
                    /\ ~IsFall(l) /\ ~IsImuFail(l)
IsUnused(l) == \/ l.kind = "ACK" /\ l.cmd \notin {"S", "I", "O", "E"}
               \/ l.kind = "NACK" /\ ~IsFall(l) /\ ~IsImuFail(l) /\ ~IsRefusedMove(l)

SerialLine(l) ==
    /\ \/ l.kind = "READY" /\ Ready(l.info)
       \/ l.kind = "ACK" /\ l.cmd = "S" /\ AckStand(l.info)
       \/ l.kind = "ACK" /\ l.cmd = "I" /\ AckImu
       \/ l.kind = "ACK" /\ l.cmd \in {"O", "E"} /\ AckOff
       \/ IsFall(l) /\ Fell
       \/ IsImuFail(l) /\ ImuFailed
       \/ l.kind = "EVT" /\ l.info = "WATCHDOG" /\ Watchdog
       \/ IsRefusedMove(l) /\ NotBalancing
       \/ IsUnused(l) /\ UNCHANGED <<estopVars, imuVars, fallVars, legVars>>
    /\ UNCHANGED <<restVars, walkVars, beat, convLeft, postureVars, outboxVars>>
    /\ Quiet

(* on_connect of the serial task.                                           *)
Connected ==
    /\ NanoReset
    /\ UNCHANGED <<estop, latched, imuVars, fallVars, restVars, walkVars, beat, convLeft,
                   postureVars, outboxVars>>
    /\ Quiet

-----------------------------------------------------------------------------
(* The tick.  Every branch also lets the time pass for the timers it does   *)
(* not set itself.                                                          *)

\* Faulty variant: the E-stop leaves a pending walk in place.
LatchKeepsWalk ==
    /\ out' = <<"E">> /\ cue' = "EMERGENCY_STOP"
    /\ LegsOff /\ walkLeft' = Dec(walkLeft) /\ outbox' = <<>>
    /\ resend' = FALSE /\ latched' = TRUE

\* Faulty variant: an E-stop that begins with a reset is not marked as latched.
LatchUnmarked ==
    /\ out' = <<"E">> /\ cue' = "EMERGENCY_STOP"
    /\ LegsOff /\ walkLeft' = 0 /\ outbox' = <<>>
    /\ resend' = FALSE /\ latched' = ~resend

Latch ==
    /\ out' = <<"E">> /\ cue' = "EMERGENCY_STOP"
    /\ LegsOff /\ walkLeft' = 0 /\ outbox' = <<>>
    /\ resend' = FALSE /\ latched' = TRUE

HoldEStop ==
    /\ out' = IF resend THEN <<"E">> ELSE <<>>
    /\ cue' = "none"
    /\ standWait' = Dec(standWait) /\ walkLeft' = Dec(walkLeft)
    /\ resend' = FALSE
    /\ UNCHANGED <<standing, walking, outbox, latched>>

EStopBranch ==
    /\ estop
    /\ IF latched THEN HoldEStop ELSE Latch
    /\ beat' = Dec(beat)
    /\ UNCHANGED <<estop, imuVars, fallVars, restVars, alertNew>>

(* What the E-stop release and ServiceCommands put ahead of the branch.     *)
\* Faulty variant: the release does not empty the outbox.
AheadStale == (IF latched THEN <<"R">> ELSE <<>>) \o outbox

Ahead == IF latched THEN <<"R">> ELSE outbox

Relax(sends) == IF sends THEN <<"O">> ELSE <<>>
Idle == standWait' = Dec(standWait) /\ UNCHANGED <<standing, walking>>

\* Faulty variant: the retry stands the robot up.
RetryByStand == IF imuRetry THEN <<"S">> ELSE <<>>

Retry == IF imuRetry THEN <<"I">> ELSE <<>>

ImuFaultBranch ==
    /\ imuFault
    /\ LET relax == ~imuHandled \/ standing IN
       /\ out' = Ahead \o Relax(relax) \o Retry
       /\ IF relax THEN LegsOff ELSE Idle
    /\ cue' = IF imuHandled THEN "none" ELSE "IMU_FAULT"
    /\ imuHandled' = TRUE /\ imuRetry' = FALSE
    /\ beat' = Dec(beat)
    /\ UNCHANGED <<fallVars, restVars, alertNew>>

FallenBranch ==
    /\ ~imuFault /\ fallen
    /\ out' = Ahead
    /\ cue' = IF announced THEN "none" ELSE "FALLEN"
    /\ LegsOff
    /\ announced' = TRUE /\ imuHandled' = FALSE
    /\ beat' = Dec(beat)
    /\ UNCHANGED <<imuRetry, restVars, alertNew>>

RestBranch ==
    /\ ~imuFault /\ ~fallen /\ resting
    /\ out' = Ahead \o Relax(~restSent)
    /\ cue' = "none"
    /\ IF restSent THEN Idle ELSE LegsOff
    /\ restSent' = TRUE /\ announced' = FALSE /\ imuHandled' = FALSE
    /\ beat' = Dec(beat)
    /\ UNCHANGED <<imuRetry, alertNew>>

(* The guards above all failed: they forget what they had handled.          *)

\* Faulty variant: a robot at rest is free to stand.
FreeAtRest ==
    /\ ~imuFault /\ ~fallen
    /\ imuHandled' = FALSE /\ announced' = FALSE /\ restSent' = FALSE
    /\ UNCHANGED imuRetry

\* Faulty variant: a second rest does not send O again.
FreeStaysSent ==
    /\ ~imuFault /\ ~fallen /\ ~resting
    /\ imuHandled' = FALSE /\ announced' = FALSE
    /\ UNCHANGED <<imuRetry, restSent>>

Free ==
    /\ ~imuFault /\ ~fallen /\ ~resting
    /\ imuHandled' = FALSE /\ announced' = FALSE /\ restSent' = FALSE
    /\ UNCHANGED imuRetry

(* request_stand() and ensure_standing()                                    *)
RequestStand == IF standWait = 0 THEN <<"S">> ELSE <<>>

StandTimer(asked) == standWait' = IF asked /\ standWait = 0 THEN StandRetry - 1 ELSE Dec(standWait)

EnsureStanding == (IF walking THEN <<"W0">> ELSE <<>>) \o (IF standing THEN <<>> ELSE RequestStand)

\* Faulty variant: standing still forgets that the robot walks.
StandStillWalking == StandTimer(~standing) /\ UNCHANGED <<standing, walking>>

StandStill == walking' = FALSE /\ StandTimer(~standing) /\ UNCHANGED standing

ConversationBranch ==
    /\ Free /\ convLeft > 0
    /\ out' = Ahead \o EnsureStanding
    /\ cue' = "none"
    /\ StandStill
    /\ beat' = Dec(beat)
    /\ UNCHANGED alertNew

PostureBranch ==
    /\ Free /\ convLeft = 0 /\ postureLeft > 0
    /\ out' = Ahead \o EnsureStanding \o (IF alertNew /\ standing THEN <<"G">> ELSE <<>>)
    /\ cue' = IF alertNew THEN "POSTURE_WARNING" ELSE "none"
    /\ StandStill
    /\ alertNew' = FALSE
    /\ beat' = Dec(beat)

WalkActive == walkLeft > 0 /\ walkMove

WalkBranch ==
    /\ Free /\ convLeft = 0 /\ postureLeft = 0 /\ WalkActive
    /\ cue' = "none"
    /\ UNCHANGED <<standing, alertNew>>
    /\ LET sends == standing /\ (~walking \/ beat = 0) IN
       /\ out' = Ahead \o (IF sends THEN <<"W">> ELSE IF standing THEN <<>> ELSE RequestStand)
       /\ walking' = (walking \/ sends)
       /\ beat' = IF sends THEN Heartbeat - 1 ELSE Dec(beat)
    /\ StandTimer(~standing)

IdleBranch ==
    /\ Free /\ convLeft = 0 /\ postureLeft = 0 /\ ~WalkActive
    /\ out' = Ahead \o EnsureStanding
    /\ cue' = "none"
    /\ StandStill
    /\ beat' = Dec(beat)
    /\ UNCHANGED alertNew

Released ==
    /\ ~estop
    /\ \/ ImuFaultBranch \/ FallenBranch \/ RestBranch \/ ConversationBranch
       \/ PostureBranch \/ WalkBranch \/ IdleBranch
    /\ latched' = FALSE /\ outbox' = <<>>
    /\ walkLeft' = Dec(walkLeft)
    /\ UNCHANGED <<estop, resend, imuFault, fallen, resting>>

Tick ==
    /\ EStopBranch \/ Released
    /\ convLeft' = Dec(convLeft) /\ postureLeft' = Dec(postureLeft)
    /\ flashLeft' = [c \in Flash |-> Dec(flashLeft[c])]
    /\ UNCHANGED walkMove

Next ==
    \/ Tick
    \/ \E m \in Messages : Message(m)
    \/ \E l \in ControllerLines : SerialLine(l)
    \/ Connected

Spec == Init /\ [][Next]_vars

-----------------------------------------------------------------------------
(* Types, and the bounds that keep the queues from refusing a command: the  *)
(* outbox never holds more than OUTBOX_MAX, so one tick never asks for more *)
(* than OUTBOX_MAX + 2 places in the motor queue (which has 200).           *)
TypeOK ==
    /\ {estop, latched, resend, imuFault, imuRetry, imuHandled, fallen, announced, resting,
         restSent, standing, walkMove, walking, alertNew} \subseteq BOOLEAN
    /\ standWait \in 0..StandRetry /\ walkLeft \in 0..WalkMax /\ beat \in 0..Heartbeat
    /\ convLeft \in 0..ConvMax /\ postureLeft \in 0..PostureMax
    /\ outbox \in Seq(Tuning) /\ Len(outbox) <= OutboxMax
    /\ flashLeft \in [Flash -> 0..FlashMin]
    /\ out \in Seq(Commands) /\ Len(out) <= OutboxMax + 2
    /\ cue \in Cues

Emits(c) == \E i \in 1..Len(out') : out'[i] = c

(* The tree never believes the robot walks without believing that it        *)
(* stands, whatever lines arrive in whatever order.                         *)
WalkNeedsStand == walking => standing

(* While an E-stop, an IMU fault, a fall or a rest is in force, no tick     *)
(* asks for a stand or a walk.                                              *)
Blocked == estop \/ imuFault \/ fallen \/ resting
NoMotionWhileBlocked == [][Blocked => ~Emits("S") /\ ~Emits("W")]_vars

=============================================================================
