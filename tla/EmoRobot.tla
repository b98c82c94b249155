------------------------------ MODULE EmoRobot ------------------------------
(***************************************************************************)
(* The robot's body loop: the behavior tree, the serial task and the leg   *)
(* controller together.  The tree is BehaviorTree, step by step; every     *)
(* step of the controller is one of LegPower; the serial task is           *)
(* SerialLink without its shutdown.  What a tick puts out goes into the    *)
(* command queue in the same step (behavior_tree_task awaits nothing in    *)
(* between), and a line is applied to the tree when it is read: it is      *)
(* handled before the task goes on, and any tick may come before or after. *)
(*                                                                         *)
(* The torso may stand at any angle at any moment: a fall, a refusal for   *)
(* its tilt and the success of an IMU retry are free choices.  Walks are   *)
(* left to the modules of the parts.                                       *)
(***************************************************************************)
EXTENDS BehaviorTree, SequencesExt

CONSTANTS
    Boards,    \* "usb": opening the port resets the controller; "uart": it does not
    QueueMax,  \* maxsize of the command queue (200)
    DownMax,   \* commands under way (bound of the model)
    UpMax,     \* lines nobody asked for under way (bound of the model)
    Mishaps    \* which of "fall", "imu", "reset" and "port" happen

ASSUME EmoRobotAssumption ==
    /\ Boards \subseteq {"usb", "uart"} /\ Boards # {}
    /\ {QueueMax, DownMax, UpMax} \subseteq Nat \ {0}
    /\ Mishaps \subseteq {"fall", "imu", "reset", "port"}
    /\ "walk" \notin Messages

VARIABLES
    board,
    queue,      \* serial_queue
    port,       \* "closed", "opening", "idle", "sending" or "reset" (a banner ended a wait)
    sent,       \* the command that waits for its answer
    downlink,   \* commands written, not yet executed
    uplink,     \* lines not yet read
    power, stopLatch,  \* the controller's servos and its E-stop latch
    imu,        \* "ok", "absent" (no answer since it booted) or "lost" (answered once)
    lost,       \* O and R commands the link lost since the tree last sent them
    held        \* the tree has latched an E-stop that nobody cleared since

linkVars == <<queue, port, sent, downlink, uplink>>
ctlVars == <<power, stopLatch, imu>>
rvars == <<vars, board, linkVars, ctlVars, lost, held>>

Leg == INSTANCE LegPower WITH latched <- stopLatch, walking <- FALSE

Line(kind, cmd, info) == [kind |-> kind, cmd |-> cmd, info |-> info]
Banner == Line("READY", "none", IF imu' = "ok" THEN "IMU" ELSE "NOIMU")

(* What imuInit finds at boot.                                              *)
FoundAtBoot == {"ok"} \cup (IF "imu" \in Mishaps THEN {"absent"} ELSE {})

RobotInit ==
    /\ Init
    /\ board \in Boards
    /\ queue = <<>> /\ port = "closed" /\ sent = "none" /\ downlink = <<>> /\ uplink = <<>>
    /\ Leg!Init /\ imu \in FoundAtBoot
    /\ lost = {} /\ held = FALSE

Still == Ignored /\ Quiet /\ UNCHANGED <<walkMove, held>>

-----------------------------------------------------------------------------
(* The tree: ticks and MQTT messages.                                       *)

\* The last QueueMax of the commands.
Newest(cmds) == IF Len(cmds) <= QueueMax THEN cmds
                ELSE SubSeq(cmds, Len(cmds) - QueueMax + 1, Len(cmds))

\* Faulty variant: the E-stop goes first, but what waited stays behind it.
OfferedFirst(q, sends) ==
    IF sends = <<"E">> THEN sends \o (IF Len(q) = QueueMax THEN Tail(q) ELSE q)
    ELSE Newest(q \o sends)

(* offer for one command after the other, the oldest giving way; the E-stop *)
(* goes through offer_urgent, and the tree sends it alone.                  *)
Offered(q, sends) == IF sends = <<"E">> THEN sends ELSE Newest(q \o sends)

(* The commands that must take effect once, for the tree sends them once.   *)
Once == {"E", "O", "R"}
Dropped(old, new) == (ToSet(old) \ ToSet(new)) \cap Once

(* What a tick sends makes up for what was lost before: E for all of it, O  *)
(* for the power.                                                           *)
MadeUp(sends) ==
    IF "E" \in sends THEN Once ELSE sends \cup (IF "O" \in sends THEN {"E"} ELSE {})

RobotTick ==
    /\ Tick
    /\ queue' = Offered(queue, out')
    /\ lost' = (lost \ MadeUp(ToSet(out')))
                \cup (IF Emits("E") THEN {} ELSE Dropped(queue \o out', queue'))
    /\ held' = (estop /\ (held \/ ~latched))
    /\ UNCHANGED <<board, port, sent, downlink, uplink, ctlVars>>

RobotMessage(m) ==
    /\ Message(m)
    /\ held' = (held /\ m # "clear")
    /\ UNCHANGED <<board, linkVars, ctlVars, lost>>

-----------------------------------------------------------------------------
(* The serial task.                                                         *)

(* discard_pending, in the same callback as on_connect.                     *)
Discard == queue' = <<>> /\ lost' = lost \cup Dropped(queue, <<>>)

Boots == Leg!Reset /\ downlink' = <<>> /\ imu' \in FoundAtBoot

Open ==
    /\ port = "closed"
    /\ port' = "opening"
    /\ IF board = "usb" THEN Boots /\ uplink' = <<Banner>>
       ELSE uplink' = <<>> /\ UNCHANGED <<downlink, ctlVars>>
    /\ Still /\ UNCHANGED <<board, queue, sent, lost>>

IsBanner(l) == l.kind = "READY"

WaitLine ==
    /\ port = "opening" /\ uplink # <<>> /\ ~IsBanner(Head(uplink))
    /\ uplink' = Tail(uplink)
    /\ Still /\ UNCHANGED <<board, queue, port, sent, downlink, ctlVars, lost>>

(* With the banner or without it: on_line, discard_pending, on_connect.     *)
Connect ==
    /\ port = "opening"
    /\ \/ /\ uplink # <<>> /\ IsBanner(Head(uplink))
          /\ SerialLine(Head(uplink)) /\ uplink' = <<>>
       \/ Connected /\ UNCHANGED uplink
    /\ Discard
    /\ port' = "idle"
    /\ UNCHANGED <<walkMove, board, sent, downlink, ctlVars, held>>

Take ==
    /\ port = "idle" /\ Len(downlink) < DownMax
    /\ sent' = IF queue = <<>> THEN "P" ELSE Head(queue)
    /\ queue' = IF queue = <<>> THEN queue ELSE Tail(queue)
    /\ downlink' = Append(downlink, sent')
    /\ port' = "sending"
    /\ Still /\ UNCHANGED <<board, uplink, ctlVars, lost>>

Answers(l, c) == IsBanner(l) \/ (l.kind \in {"ACK", "NACK"} /\ l.cmd = c)

(* send_and_wait hands every line it reads to the tree.                     *)
ReadLine ==
    /\ port = "sending" /\ uplink # <<>>
    /\ SerialLine(Head(uplink)) /\ uplink' = Tail(uplink)
    /\ port' = IF IsBanner(Head(uplink)) THEN "reset"
               ELSE IF Answers(Head(uplink), sent) THEN "idle" ELSE "sending"
    /\ sent' = IF port' = "sending" THEN sent ELSE "none"
    /\ UNCHANGED <<walkMove, board, queue, downlink, ctlVars, lost, held>>

(* A line that has arrived is read before the deadline; one that comes      *)
(* later is read by the wait for the next command.                          *)
Timeout ==
    /\ port = "sending" /\ uplink = <<>>
    /\ port' = "idle" /\ sent' = "none"
    /\ Still /\ UNCHANGED <<board, queue, downlink, uplink, ctlVars, lost>>

(* A banner ended the wait: discard_pending and on_connect.                 *)
Resume ==
    /\ port = "reset"
    /\ Connected /\ Discard
    /\ port' = "idle"
    /\ UNCHANGED <<walkMove, board, sent, downlink, uplink, ctlVars, held>>

PortFails ==
    /\ "port" \in Mishaps /\ port \in {"opening", "sending"}
    /\ port' = "closed" /\ sent' = "none" /\ uplink' = <<>>
    /\ \/ downlink' = <<>> /\ lost' = lost \cup Dropped(downlink, <<>>)
       \/ UNCHANGED <<downlink, lost>>
    /\ Still /\ UNCHANGED <<board, queue, ctlVars>>

-----------------------------------------------------------------------------
(* The controller: what it does with a command and what it answers.         *)

Reply(kind, info) == uplink' = Append(uplink, Line(kind, Head(downlink), info))

(* Without power the IMU is tried again; one that never answered may go on  *)
(* missing (a bench test), one that failed may not.                         *)
Stands ==
    /\ ~stopLatch
    /\ \/ power /\ UNCHANGED ctlVars
       \/ ~power /\ Leg!Energise /\ imu' \in {"ok"} \cup ({imu} \ {"lost"})
    /\ Reply("ACK", IF imu' = "ok" THEN "none" ELSE "NOIMU")

StandRefused ==
    /\ \/ stopLatch /\ Reply("NACK", "ESTOP") /\ UNCHANGED imu
       \/ ~stopLatch /\ imu = "lost" /\ ~power /\ Reply("NACK", "NOIMU") /\ UNCHANGED imu
       \/ /\ ~stopLatch /\ "fall" \in Mishaps /\ (imu # "ok" => ~power)
          /\ imu' = "ok" /\ Reply("NACK", "TILTED")
    /\ UNCHANGED <<power, stopLatch>>

ProbesImu ==
    /\ \/ imu = "ok" /\ Reply("ACK", "none") /\ UNCHANGED imu
       \/ imu # "ok" /\ power /\ Reply("NACK", "MODE") /\ UNCHANGED imu
       \/ imu # "ok" /\ ~power /\ imu' = "ok" /\ Reply("ACK", "none")
       \/ imu # "ok" /\ ~power /\ UNCHANGED imu /\ Reply("NACK", "NOIMU")
    /\ UNCHANGED <<power, stopLatch>>

(* The commands that leave the power and the latch alone.                   *)
Serves(c) ==
    /\ \/ Reply("ACK", "none") /\ (c = "G" => power) /\ (c = "C" => ~power /\ imu = "ok")
       \/ Reply("NACK", "REFUSED") /\ c \in {"G", "C", "D"} /\ (c = "G" => ~power)
    /\ UNCHANGED ctlVars

Obeys(c) ==
    \/ c = "S" /\ (Stands \/ StandRefused)
    \/ c = "O" /\ Leg!Cut /\ Reply("ACK", "none") /\ UNCHANGED imu
    \/ c = "E" /\ Leg!EStop /\ Reply("ACK", "none") /\ UNCHANGED imu
    \/ c = "R" /\ Leg!Release /\ Reply("ACK", "none") /\ UNCHANGED imu
    \/ c = "I" /\ ProbesImu
    \/ c \in {"P", "G", "T", "D", "K", "C"} /\ Serves(c)

Execute ==
    /\ downlink # <<>> /\ Len(uplink) <= UpMax
    /\ Obeys(Head(downlink))
    /\ downlink' = Tail(downlink)
    /\ Still /\ UNCHANGED <<board, queue, port, sent, lost>>

Report(info) == uplink' = Append(uplink, Line("EVT", "none", info))

(* A fall, the loss of the IMU.                                              *)
Incident ==
    /\ Len(uplink) < UpMax
    /\ \/ "fall" \in Mishaps /\ power /\ imu = "ok" /\ Leg!Cut /\ UNCHANGED imu /\ Report("FALLEN")
       \/ "imu" \in Mishaps /\ imu = "ok" /\ Leg!Halt /\ imu' = "lost" /\ Report("IMU_FAIL")
    /\ Still /\ UNCHANGED <<board, queue, port, sent, downlink, lost>>

(* The controller resets by itself (supply, watchdog).                      *)
SelfReset ==
    /\ "reset" \in Mishaps /\ Len(uplink) < UpMax
    /\ Boots /\ uplink' = Append(uplink, Banner)
    /\ Still /\ UNCHANGED <<board, queue, port, sent, lost>>

-----------------------------------------------------------------------------
SerialTask == Open \/ WaitLine \/ Connect \/ Take \/ ReadLine \/ Timeout \/ Resume

RobotNext ==
    \/ RobotTick
    \/ \E m \in Messages : RobotMessage(m)
    \/ SerialTask \/ PortFails
    \/ Execute \/ Incident \/ SelfReset

RobotSpec == RobotInit /\ [][RobotNext]_rvars

(* The tick and the serial task go on, the controller works off what it     *)
(* received.                                                                *)
RobotFairSpec == RobotSpec /\ WF_rvars(RobotTick) /\ WF_rvars(SerialTask) /\ WF_rvars(Execute)

-----------------------------------------------------------------------------
UnderWay == ToSet(queue) \cup ToSet(downlink)
BannerComes == port = "reset" \/ \E i \in 1..Len(uplink) : IsBanner(uplink[i])

(* An E-stop the tree has latched and nobody has cleared is in force, or on *)
(* its way, or about to be sent again: no full queue, reset, lost port or   *)
(* reconnection makes the robot forget it.                                  *)
EStopSecured ==
    held => \/ stopLatch \/ "E" \in UnderWay \/ resend
            \/ port \in {"closed", "opening"} \/ BannerComes

(* A robot that was told to rest, and none of whose commands were lost, has *)
(* its servos off or is about to get the command that switches them off.    *)
RestRelaxes ==
    resting /\ restSent /\ lost \cap {"E", "O"} = {} => ~power \/ {"E", "O"} \cap UnderWay # {}

(* A robot whose IMU fault the tree has handled is relaxed as well, a retry *)
(* or a stand that was under way notwithstanding.                           *)
FaultRelaxes ==
    imuFault /\ imuHandled /\ ~standing /\ lost \cap {"E", "O"} = {}
        => ~power \/ {"E", "O"} \cap UnderWay # {}

(* After "clear" the controller is released, unless that command was lost.  *)
ClearReleases == ~estop /\ ~latched /\ "R" \notin lost => ~stopLatch \/ "R" \in UnderWay

(* The tree does not go on believing that a robot stands whose servos are   *)
(* off: the line that corrects it is on its way.                            *)
Corrects(l) == \/ l.kind \in {"READY", "EVT"}
               \/ l.kind = "ACK" /\ l.cmd \in {"O", "E"}
               \/ l.kind = "NACK" /\ l.cmd = "S"
BeliefCorrected ==
    standing /\ ~power => \/ port \in {"closed", "opening", "reset"}
                          \/ \E i \in 1..Len(uplink) : Corrects(uplink[i])

LinkHolds == <>[][~PortFails /\ ~SelfReset]_rvars

(* An E-stop that stays on ends with the latch closed and the servos off,   *)
(* whatever was queued, in flight or lost before.                           *)
EStopTakesEffect == LinkHolds /\ <>[]held => <>[](stopLatch /\ ~power)

(* A robot that nothing holds down ends up standing, and the tree knows it, *)
(* unless its release was lost.                                             *)
StandsUp == LinkHolds /\ <>[](~Blocked /\ "R" \notin lost) => <>[](power /\ standing)

(* behavior_tree_module.py, FallenGuard: "After a fall the controller has   *)
(* switched the servos off".                                                *)
FallenMeansOff == fallen /\ announced => ~power

(* serial_module.py, discard_pending: "the behavior tree rebuilds the state *)
(* from scratch after on_connect".                                          *)
RestSurvivesReconnect ==
    resting /\ restSent => ~power \/ {"E", "O"} \cap UnderWay # {} \/ port = "closed"

=============================================================================
