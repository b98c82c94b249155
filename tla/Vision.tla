------------------------------- MODULE Vision -------------------------------
(***************************************************************************)
(* The camera side of vision_posture_module.py and vision_task of main.py. *)
(* The camera thread (run_vision) fetches frames from a ResilientCamera,   *)
(* which may fail to open, fail to deliver, and is then reopened with      *)
(* growing pauses; every PosePeriod a frame is judged (Baseline) and the   *)
(* judgement goes to the posture monitor (Posture).  UP, DOWN and the      *)
(* posture events are posted to a bounded queue of the event loop, which   *)
(* drops its oldest message when full, and vision_task publishes them; UP  *)
(* and DOWN are retained by the broker.                                    *)
(*                                                                         *)
(* Time is counted in iterations of the camera loop.  What a frame shows   *)
(* is a free choice among Views, or nobody, and it may come too soon after *)
(* the last head height to be one (sample_period_s).                       *)
(***************************************************************************)
EXTENDS Posture, Baseline

CONSTANTS
    PosePeriod,  \* POSE_PERIOD_S
    FailLimit,   \* CAMERA_FAIL_LIMIT
    BackoffMax,  \* CAMERA_BACKOFF_MAX_S
    MailMax,     \* maxsize of the publish queue (200)
    Views        \* metrics of a pose: tilt, lateral, height

ASSUME VisionAssumption ==
    /\ {PosePeriod, FailLimit, BackoffMax, MailMax} \subseteq Nat \ {0}
    /\ Views \subseteq [tilt : Int, lateral : Int, height : Int]

VARIABLES
    cap,        \* the camera is open
    up,         \* ResilientCamera.up: "none", "UP" or "DOWN"
    failures, backoff,
    wait,       \* next_open - now, 0 when it has passed
    base,       \* HeadHeightBaseline
    sincePose,  \* now - last_pose, saturating at Cap + PosePeriod
    worker,     \* the camera thread: "running" or "crashed"
    task,       \* vision_task: "running" or "dead"
    mail,       \* publish_queue
    retained,   \* what the broker keeps on robot/vision/state
    lost        \* the queue dropped the newest state message

camVars == <<cap, up, failures, backoff, wait>>
busVars == <<task, mail, retained, lost>>
vvars == <<vars, camVars, base, sincePose, worker, busVars>>

Far == Cap + PosePeriod
States == {"UP", "DOWN"}
NoUser == [seen |-> FALSE]  \* metrics None

VisionInit ==
    /\ Init
    /\ cap = FALSE /\ up = "none" /\ failures = 0 /\ backoff = 1 /\ wait = 0
    /\ base = NoSamples /\ sincePose = Far /\ worker = "running"
    /\ task = "running" /\ mail = <<>> /\ retained = "none" /\ lost = FALSE

-----------------------------------------------------------------------------
(* The publish queue (offer): the oldest messages give way.                 *)

Newest(q) == IF Len(q) <= MailMax THEN q ELSE SubSeq(q, Len(q) - MailMax + 1, Len(q))

HasState(q) == \E i \in 1..Len(q) : q[i] \in States

Publish(messages) ==
    LET all == mail \o messages IN
    /\ mail' = Newest(all)
    /\ lost' = IF HasState(all) THEN ~HasState(mail') ELSE lost

\* Faulty variant: a camera that is lost is not reported.
ReportedUp(state) == IF state = "UP" /\ state # up THEN <<state>> ELSE <<>>

(* _set_up reports changes only.                                            *)
Reported(state) == IF state # up THEN <<state>> ELSE <<>>

-----------------------------------------------------------------------------
(* The camera loop.                                                         *)

Least(m, n) == IF m <= n THEN m ELSE n
Lap == sincePose' = Least(sincePose + 1, Far)

\* Faulty variant: every idle iteration begins the pause anew.
PauseRestarts ==
    /\ ~cap /\ wait > 0
    /\ wait' = backoff /\ Lap
    /\ UNCHANGED <<vars, base, cap, up, failures, backoff, worker, busVars>>

Pause ==
    /\ ~cap /\ wait > 0
    /\ wait' = wait - 1 /\ Lap
    /\ UNCHANGED <<vars, base, cap, up, failures, backoff, worker, busVars>>

\* Faulty variant: the pauses grow without limit.
CloseUnbounded ==
    /\ cap' = FALSE /\ up' = "DOWN"
    /\ wait' = backoff /\ backoff' = backoff * 2
    /\ Publish(Reported("DOWN"))

(* _close                                                                   *)
Close ==
    /\ cap' = FALSE /\ up' = "DOWN"
    /\ wait' = backoff /\ backoff' = Least(backoff * 2, BackoffMax)
    /\ Publish(Reported("DOWN"))

OpenFails ==
    /\ ~cap /\ wait = 0
    /\ Close /\ Lap
    /\ UNCHANGED <<vars, base, failures, worker, task, retained>>

(* The camera is open, or opens now.                                        *)
Fetches == cap \/ wait = 0

ReadFails ==
    /\ Fetches
    /\ failures' = (IF cap THEN failures ELSE 0) + 1
    /\ IF failures' >= FailLimit THEN Close
       ELSE cap' = TRUE /\ UNCHANGED <<up, backoff, wait, mail, lost>>
    /\ Lap
    /\ UNCHANGED <<vars, base, worker, task, retained>>

\* Faulty variant: only reopening the camera forgets the failures.
FrameArrivesKeepsCount ==
    /\ Fetches
    /\ cap' = TRUE /\ failures' = (IF cap THEN failures ELSE 0)
    /\ backoff' = 1 /\ wait' = 0 /\ up' = "UP"

(* A read or a grab that worked.                                            *)
FrameArrives ==
    /\ Fetches
    /\ cap' = TRUE /\ failures' = 0 /\ backoff' = 1 /\ wait' = 0 /\ up' = "UP"

WantsFrame == sincePose >= PosePeriod

Grab ==
    /\ ~WantsFrame /\ FrameArrives
    /\ Publish(Reported("UP")) /\ Lap
    /\ UNCHANGED <<vars, base, worker, task, retained>>

Pose(view) ==
    CASE view = NoUser -> "none"
      [] view # NoUser /\ Judged(view, Value(base')) -> "poor"
      [] OTHER -> "good"

(* read, then process: the monitor sees the time since the last pose.       *)
Frame(view) ==
    /\ WantsFrame /\ FrameArrives
    /\ base' \in {base} \cup (IF view = NoUser THEN {} ELSE {Add(base, view.height)})
    /\ Update(Pose(view), Least(sincePose + 1, Cap))
    /\ sincePose' = 0
    /\ Publish(Reported("UP") \o (IF event' = "none" THEN <<>> ELSE <<"EVENT">>))
    /\ UNCHANGED <<worker, task, retained>>

(* A detector raises on the frame: the loop releases the camera and the     *)
(* thread ends.                                                             *)
Crash ==
    /\ worker = "running" /\ WantsFrame /\ Fetches
    /\ worker' = "crashed" /\ cap' = FALSE
    /\ failures' = 0 /\ backoff' = 1 /\ wait' = 0 /\ up' = "UP"
    /\ Publish(Reported("UP"))
    /\ UNCHANGED <<vars, base, sincePose, task, retained>>

CameraLoop ==
    /\ worker = "running"
    /\ \/ Pause \/ OpenFails \/ ReadFails \/ Grab
       \/ \E view \in Views \cup {NoUser} : Frame(view)

-----------------------------------------------------------------------------
(* vision_task on the event loop.                                           *)

Forward ==
    /\ task = "running" /\ mail # <<>>
    /\ mail' = Tail(mail)
    /\ retained' = IF Head(mail) \in States THEN Head(mail) ELSE retained
    /\ UNCHANGED <<vars, base, camVars, sincePose, worker, task, lost>>

(* The worker is done: what waits in the queue is not published any more.   *)
TaskEnds ==
    /\ task = "running" /\ worker = "crashed"
    /\ task' = "dead" /\ mail' = <<>>
    /\ UNCHANGED <<vars, base, camVars, sincePose, worker, retained, lost>>

VisionNext == CameraLoop \/ Crash \/ Forward \/ TaskEnds

VisionSpec == VisionInit /\ [][VisionNext]_vvars
VisionFairSpec == VisionSpec /\ WF_vvars(CameraLoop) /\ WF_vvars(Forward)

-----------------------------------------------------------------------------
VisionTypeOK ==
    /\ TypeOK
    /\ cap \in BOOLEAN /\ lost \in BOOLEAN
    /\ up \in States \cup {"none"} /\ retained \in States \cup {"none"}
    /\ failures \in 0..FailLimit /\ backoff \in 1..BackoffMax /\ wait \in 0..BackoffMax
    /\ sincePose \in 0..Far
    /\ worker \in {"running", "crashed"} /\ task \in {"running", "dead"}
    /\ mail \in Seq(States \cup {"EVENT"}) /\ Len(mail) <= MailMax

LastState(q, before) ==
    LET at == {i \in 1..Len(q) : q[i] \in States}
    IN  IF at = {} THEN before ELSE q[CHOOSE i \in at : \A j \in at : j <= i]

(* What the broker keeps, or is about to be told, is the state the camera   *)
(* thread is in, through every loss and return of the camera - unless the   *)
(* queue was so full that it dropped that very message.                     *)
StateReported == task = "running" /\ ~lost => LastState(mail, retained) = up

CameraWorks == <>[][~OpenFails /\ ~ReadFails]_vvars

(* A camera that works again comes back, and the broker is told.            *)
CameraReturns ==
    CameraWorks /\ [](worker = "running") => <>[](up = "UP" /\ (retained = "UP" \/ lost))

=============================================================================
