--------------------------- MODULE MCBehaviorTree ---------------------------
(***************************************************************************)
(* BehaviorTree with the history its properties need: what the operator    *)
(* asked for, and when.  The history variables are written beside every    *)
(* step and read by no guard.                                              *)
(***************************************************************************)
EXTENDS BehaviorTree

VARIABLES
    walkGrant,   \* ticks the operator's last walk command may still run
    estopSince,  \* "error" arrived after the last accepted walk command
    tuningAsked, \* tuning commands accepted since the last E-stop tick
    flashAge     \* ticks since K and since C were sent, saturating

history == <<walkGrant, estopSince, tuningAsked, flashAge>>
mcvars == <<vars, history>>

Line(kind, cmd, info) == [kind |-> kind, cmd |-> cmd, info |-> info]
LegLines == {Line("ACK", "S", "none"), Line("ACK", "O", "none"), Line("READY", "none", "IMU"),
             Line("EVT", "none", "FALLEN"), Line("EVT", "none", "WATCHDOG"), Line("NACK", "W", "MODE"),
             Line("ACK", "W", "none"), Line("NACK", "S", "TILTED")}
ImuLines == {Line("ACK", "S", "none"), Line("ACK", "S", "NOIMU"), Line("ACK", "I", "none"),
             Line("ACK", "E", "none"), Line("READY", "none", "IMU"), Line("READY", "none", "NOIMU"),
             Line("EVT", "none", "IMU_FAIL"), Line("NACK", "I", "NOIMU")}
MotionLines == LegLines \cup ImuLines
FewLines == {Line("ACK", "S", "none"), Line("READY", "none", "IMU")}

MotionMessages == {"error", "clear", "stand", "rest", "stop", "walk", "walk0", "wake"}
TuningMessages == {"error", "clear", "stand", "gesture", "telemetry", "distance", "gains",
                   "calibrate", "poor", "fine", "sleep"}
FewMessages == {"error", "clear", "stand", "rest", "walk"}

TuningOf == [m \in {"telemetry", "distance", "gains", "calibrate"} |->
                CASE m = "telemetry" -> "T" [] m = "distance" -> "D"
                  [] m = "gains" -> "K" [] OTHER -> "C"]
FlashLetters == {"K", "C"}

HInit ==
    /\ walkGrant = 0 /\ estopSince = FALSE /\ tuningAsked = {}
    /\ flashAge = [c \in FlashLetters |-> FlashMin]

HMessage(m) ==
    /\ walkGrant' = CASE m = "walk" /\ ~estop -> WalkMax
                      [] m \in {"stand", "rest", "stop"} -> 0
                      [] OTHER -> walkGrant
    /\ estopSince' = (m = "error" \/ (estopSince /\ ~(m = "walk" /\ ~estop)))
    /\ tuningAsked' = IF m \in DOMAIN TuningOf /\ (estop => m = "distance")
                      THEN tuningAsked \cup {TuningOf[m]} ELSE tuningAsked
    /\ UNCHANGED flashAge

HTick ==
    /\ walkGrant' = IF estop /\ ~latched THEN 0 ELSE Dec(walkGrant)
    /\ tuningAsked' = {}
    /\ flashAge' = [c \in FlashLetters |->
                       IF Emits(c) THEN 1
                       ELSE IF flashAge[c] < FlashMin THEN flashAge[c] + 1 ELSE FlashMin]
    /\ UNCHANGED estopSince

MCInit == Init /\ HInit
MCNext ==
    \/ Tick /\ HTick
    \/ \E m \in Messages : Message(m) /\ HMessage(m)
    \/ (Connected \/ \E l \in ControllerLines : SerialLine(l)) /\ UNCHANGED history
MCSpec == MCInit /\ [][MCNext]_mcvars

(* A walk is sent only on the authority of a walk command that is at most   *)
(* WALK_MAX_S old and that no stand, rest, stop or latched E-stop has ended *)
(* since.                                                                   *)
WalkAuthorised == [][Emits("W") => walkGrant > 0]_mcvars

(* When that authority is over, the next tick stops the robot.              *)
WalkStops == [][walking /\ walkGrant = 0 /\ ~estop /\ Tick => ~walking']_mcvars

(* A tuning command reaches the controller only in the first tick after it  *)
(* was asked for: none outlives an E-stop, and none asked for during an     *)
(* E-stop (except one harmless distance reading that no tick has seen)      *)
(* runs after "clear".                                                      *)
TuningAuthorised ==
    [][\A c \in {"T", "D", "K", "C"} : Emits(c) => c \in tuningAsked]_mcvars

(* The controller's settings are rewritten at most once per                 *)
(* FLASH_WRITE_MIN_S by each of gains and calibrate.                        *)
FlashSpaced == [][\A c \in FlashLetters : Emits(c) => flashAge[c] = FlashMin]_mcvars

(* behavior_tree_module.py, EStopGuard: "an E-stop cancels the walk;        *)
(* "clear" must not resume it".                                             *)
ClearResumesNothing == [][Emits("W") => ~estopSince]_mcvars

=============================================================================
