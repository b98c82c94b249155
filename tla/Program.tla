------------------------------ MODULE Program ------------------------------
(***************************************************************************)
(* main.py: one asyncio program that starts the tasks, supervises them and *)
(* takes them down.  The serial and the behavior tree task are critical:   *)
(* their crash, like a signal, asks for shutdown.  The vision task and the *)
(* two of Speech are optional.  At shutdown main cancels every task and    *)
(* waits for all of them: the serial task parks the servos, the audio task *)
(* waits for its thread, the vision task for its own no longer than 2 s;   *)
(* asyncio.run then waits for every thread that is left.                   *)
(*                                                                         *)
(* After the tree has ended Deliver is the broker alone, and flag means    *)
(* nothing any more.                                                       *)
(***************************************************************************)
EXTENDS Speech

VARIABLES
    stage,     \* of main: "running", "stopping", "stopped" or "exited"
    shutdown,  \* shutdown_event
    signalled, \* SIGINT or SIGTERM was received
    serial,    \* the serial task: "running", "parking" or "ended"
    tree,      \* the behavior tree task: "running" or "ended"
    vision,    \* the vision task: "running", "waiting" or "ended"
    camera     \* the camera thread: "running" or "ended"

mainVars == <<stage, shutdown, signalled, serial, tree, vision, camera>>
pvars == <<vars, mainVars>>

ProgramInit ==
    /\ Init
    /\ stage = "running" /\ shutdown = FALSE /\ signalled = FALSE
    /\ serial = "running" /\ tree = "running"
    /\ vision = "running" /\ camera = "running"

-----------------------------------------------------------------------------
(* What may happen to a running program.                                    *)

Signal ==
    /\ stage # "exited"
    /\ signalled' = TRUE /\ shutdown' = TRUE
    /\ UNCHANGED <<vars, stage, serial, tree, vision, camera>>

\* Faulty variant: a crash of a critical task is only logged.
CriticalLogged == UNCHANGED shutdown

(* _run_guarded, of a task whose crash is critical.                         *)
Critical == shutdown' = TRUE

SerialCrashes ==
    /\ serial = "running"
    /\ serial' = "ended" /\ Critical
    /\ UNCHANGED <<vars, stage, signalled, tree, vision, camera>>

TreeCrashes ==
    /\ tree = "running"
    /\ tree' = "ended" /\ Critical
    /\ UNCHANGED <<vars, stage, signalled, serial, vision, camera>>

(* The camera thread has failed, and with it the vision task.               *)
VisionCrashes ==
    /\ vision = "running"
    /\ vision' = "ended" /\ camera' = "ended"
    /\ UNCHANGED <<vars, stage, shutdown, signalled, serial, tree>>

TreeCue == tree = "running" /\ Cue /\ UNCHANGED mainVars

-----------------------------------------------------------------------------
(* The way down.                                                            *)

(* A cancelled job still runs its finally; a task that has left its loop    *)
(* is cancelled before the supervisor learns of its crash.                  *)
CancelApi ==
    /\ api' = "dead" /\ step' = "none"
    /\ IF api = "listen" THEN wire' = Append(wire, FALSE) /\ busy' = FALSE
       ELSE UNCHANGED <<wire, busy>>

(* shutdown_event.wait returns: main cancels all tasks.                     *)
Stop ==
    /\ stage = "running" /\ shutdown
    /\ stage' = "stopping"
    /\ serial' = IF serial = "running" THEN "parking" ELSE "ended"
    /\ tree' = "ended"
    /\ vision' = IF vision = "running" THEN "waiting" ELSE "ended"
    /\ audio' = IF audio = "dead" THEN "dead" ELSE "stopping"
    /\ CancelApi
    /\ UNCHANGED <<worker, events, jobs, flag, shutdown, signalled, camera>>

(* The servos are parked, or could not be.                                  *)
Parked ==
    /\ serial = "parking"
    /\ serial' = "ended"
    /\ UNCHANGED <<vars, stage, shutdown, signalled, tree, vision, camera>>

\* Faulty variant: the stop event is set after the thread was waited for.
ListenerStopsLate ==
    /\ audio = "dead" /\ worker = "listening"
    /\ worker' = "dead"
    /\ UNCHANGED <<busy, events, audio, jobs, api, step, wire, flag, mainVars>>

(* The wake-word thread sees its stop event.                                *)
ListenerStops ==
    /\ audio = "stopping" /\ worker = "listening"
    /\ worker' = "dead"
    /\ UNCHANGED <<busy, events, audio, jobs, api, step, wire, flag, mainVars>>

AudioEnds ==
    /\ audio = "stopping" /\ worker = "dead"
    /\ audio' = "dead"
    /\ UNCHANGED <<worker, busy, events, jobs, api, step, wire, flag, mainVars>>

(* The camera thread sees its stop flag.                                    *)
CameraStops ==
    /\ vision # "running" /\ camera = "running"
    /\ camera' = "ended"
    /\ UNCHANGED <<vars, stage, shutdown, signalled, serial, tree, vision>>

(* It has, or 2 s have passed.                                              *)
VisionEnds ==
    /\ vision = "waiting"
    /\ vision' = "ended"
    /\ UNCHANGED <<vars, stage, shutdown, signalled, serial, tree, camera>>

(* gather returns; the publisher is stopped.                                *)
Stopped ==
    /\ stage = "stopping"
    /\ serial = "ended" /\ tree = "ended" /\ vision = "ended" /\ audio = "dead" /\ api = "dead"
    /\ stage' = "stopped"
    /\ UNCHANGED <<vars, shutdown, signalled, serial, tree, vision, camera>>

(* asyncio.run shuts its thread pool down.                                  *)
Exit ==
    /\ stage = "stopped" /\ camera = "ended"
    /\ stage' = "exited"
    /\ UNCHANGED <<vars, shutdown, signalled, serial, tree, vision, camera>>

Down == Stop \/ Parked \/ ListenerStops \/ AudioEnds \/ CameraStops \/ VisionEnds \/ Stopped \/ Exit

ProgramNext ==
    \/ Talk /\ UNCHANGED mainVars
    \/ TreeCue
    \/ Signal \/ SerialCrashes \/ TreeCrashes \/ VisionCrashes
    \/ Down

ProgramSpec == ProgramInit /\ [][ProgramNext]_pvars

(* Besides Speech's: what is cancelled gets its turn, and the microphone    *)
(* and the camera keep delivering or fail, so that no thread blocks.        *)
ProgramFairSpec == ProgramSpec /\ Fairness /\ WF_pvars(Down)

-----------------------------------------------------------------------------
ProgramTypeOK ==
    /\ TypeOK
    /\ stage \in {"running", "stopping", "stopped", "exited"}
    /\ {shutdown, signalled} \subseteq BOOLEAN
    /\ serial \in {"running", "parking", "ended"} /\ tree \in {"running", "ended"}
    /\ vision \in {"running", "waiting", "ended"} /\ camera \in {"running", "ended"}

(* The robot goes down when it is told to or when the loop that controls    *)
(* its body is broken, and for nothing else: no crash of the camera, the    *)
(* wake word or the speech task ends it, and none of the serial or the tree *)
(* task leaves it running.                                                  *)
BodyDecides == shutdown <=> signalled \/ serial # "running" \/ tree # "running"

(* A shutdown comes to its end, whatever was recorded, asked, spoken or     *)
(* queued when it began.                                                    *)
StopsCompletely == shutdown ~> stage = "exited"

=============================================================================
