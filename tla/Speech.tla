------------------------------- MODULE Speech -------------------------------
(***************************************************************************)
(* The conversation: audio_trigger_task.py, api_routing_task.py and what   *)
(* main.py puts between them.  The wake-word worker is a thread; it sets   *)
(* the busy event, records, and posts its events to the loop.  The audio   *)
(* task publishes the wake flag and queues the recording; the API task     *)
(* works off recordings and spoken cues, and releases the listener.  The   *)
(* wake flag reaches the behavior tree through MQTT, in order.             *)
(*                                                                         *)
(* Jobs are "listen" or "say"; of the audio data and the HTTP calls there  *)
(* is only which step of handle_job is under way, and that it may fail.    *)
(***************************************************************************)
EXTENDS Naturals, Sequences, FiniteSets

CONSTANTS
    JobsMax,  \* maxsize of the speech queue (20)
    WireMax   \* wake-flag messages under way (bound of the model)

ASSUME SpeechAssumption == JobsMax \in Nat \ {0} /\ WireMax \in Nat \ {0}

VARIABLES
    worker,  \* the wake-word thread: "listening", "recording" or "dead"
    busy,    \* conversation_busy
    events,  \* what the worker posted and the audio task has not taken
    audio,   \* the audio task: "running", "putting" (queue full), "stopping" or "dead"
    jobs,    \* speech_queue
    api,     \* the API task: "idle", the job it works on, "crashed" or "dead"
    step,    \* what handle_job does: a request, "play" or "fallback"
    wire,    \* wake-flag messages between the publisher and the tree
    flag     \* SharedState.conversation_active

vars == <<worker, busy, events, audio, jobs, api, step, wire, flag>>

Kinds == {"listen", "say"}

Init ==
    /\ worker = "listening" /\ busy = FALSE /\ events = <<>>
    /\ audio = "running" /\ jobs = <<>> /\ api = "idle" /\ step = "none"
    /\ wire = <<>> /\ flag = FALSE

Publish(up) == Len(wire) < WireMax /\ wire' = Append(wire, up)

-----------------------------------------------------------------------------
(* The worker thread.                                                       *)

\* Faulty variant: the worker listens while the robot is busy.
WakeWordBusy ==
    /\ worker = "listening"
    /\ worker' = "recording" /\ busy' = TRUE /\ events' = Append(events, "wake")
    /\ UNCHANGED <<audio, jobs, api, step, wire, flag>>

WakeWord ==
    /\ worker = "listening" /\ ~busy
    /\ worker' = "recording" /\ busy' = TRUE /\ events' = Append(events, "wake")
    /\ UNCHANGED <<audio, jobs, api, step, wire, flag>>

Recorded ==
    /\ worker = "recording"
    /\ worker' = IF audio = "stopping" THEN "dead" ELSE "listening"
    /\ events' = Append(events, "recorded")
    /\ UNCHANGED <<busy, audio, jobs, api, step, wire, flag>>

(* The microphone disappears, or Porcupine fails.                           *)
WorkerFails ==
    /\ worker # "dead"
    /\ worker' = "dead"
    /\ UNCHANGED <<busy, events, audio, jobs, api, step, wire, flag>>

-----------------------------------------------------------------------------
(* The audio task.                                                          *)

Wake ==
    /\ audio = "running" /\ events # <<>> /\ Head(events) = "wake"
    /\ events' = Tail(events)
    /\ Publish(TRUE)
    /\ UNCHANGED <<worker, busy, audio, jobs, api, step, flag>>

\* Faulty variant: the queue has no limit.
HandUnbounded ==
    /\ audio = "running" /\ events # <<>> /\ Head(events) = "recorded"
    /\ events' = Tail(events) /\ jobs' = Append(jobs, "listen")
    /\ UNCHANGED <<worker, busy, audio, api, step, wire, flag>>

(* A recording is put into the queue, or waits for a place in it.           *)
Hand ==
    /\ audio = "running" /\ events # <<>> /\ Head(events) = "recorded"
    /\ events' = Tail(events)
    /\ IF Len(jobs) < JobsMax THEN jobs' = Append(jobs, "listen") /\ UNCHANGED audio
       ELSE audio' = "putting" /\ UNCHANGED jobs
    /\ UNCHANGED <<worker, busy, api, step, wire, flag>>

Put ==
    /\ audio = "putting" /\ Len(jobs) < JobsMax
    /\ jobs' = Append(jobs, "listen") /\ audio' = "running"
    /\ UNCHANGED <<worker, busy, events, api, step, wire, flag>>

\* Faulty variant: the flag is cleared in the tree, not on MQTT.
EndConversationSilent == flag' = FALSE /\ busy' = FALSE /\ UNCHANGED wire

(* end_conversation, run by the supervisor when either task has crashed.    *)
EndConversation == flag' = FALSE /\ busy' = FALSE /\ Publish(FALSE)

(* The task finds its worker gone; events it has not taken are lost.        *)
AudioCrash ==
    /\ audio = "running" /\ worker = "dead"
    /\ audio' = "dead" /\ events' = <<>>
    /\ EndConversation
    /\ UNCHANGED <<worker, jobs, api, step>>

-----------------------------------------------------------------------------
(* The API task and the cues of the behavior tree.                          *)

\* Faulty variant: a cue evicts the oldest job of a full queue.
CueEvicts ==
    /\ jobs' = Append(IF Len(jobs) = JobsMax THEN Tail(jobs) ELSE jobs, "say")
    /\ UNCHANGED <<worker, busy, events, audio, api, step, wire, flag>>

(* queue_cue: a full queue drops the cue itself.                            *)
Cue ==
    /\ jobs' = IF Len(jobs) = JobsMax THEN jobs ELSE Append(jobs, "say")
    /\ UNCHANGED <<worker, busy, events, audio, api, step, wire, flag>>

(* What a job begins with: without API keys the fallback sound, else the    *)
(* first request, or the playback of a phrase spoken before.                *)
FirstSteps(kind) ==
    {"fallback"} \cup IF kind = "listen" THEN {"transcribe"} ELSE {"synthesize", "play"}

Take ==
    /\ api = "idle" /\ jobs # <<>>
    /\ api' = Head(jobs) /\ jobs' = Tail(jobs)
    /\ step' \in FirstSteps(Head(jobs))
    /\ UNCHANGED <<worker, busy, events, audio, wire, flag>>

Cascade == [transcribe |-> "respond", respond |-> "synthesize", synthesize |-> "play"]

(* A request is answered; or it fails, or API_TIMEOUT_SECONDS have passed.  *)
Request ==
    /\ step \in DOMAIN Cascade
    /\ step' \in {Cascade[step], "fallback"}
    /\ UNCHANGED <<worker, busy, events, audio, jobs, api, wire, flag>>

(* The finally of a job: a recording takes the flag down and releases the   *)
(* listener.                                                                *)
Close(next) ==
    /\ api' = next /\ step' = "none"
    /\ IF api = "listen" THEN Publish(FALSE) /\ busy' = FALSE ELSE UNCHANGED <<wire, busy>>

(* handle_job has played its answer, or the fallback sound, or failed to.   *)
Finish ==
    /\ step \in {"play", "fallback"}
    /\ Close("idle")
    /\ UNCHANGED <<worker, events, audio, jobs, flag>>

(* An error of the playback that handle_job does not catch: the task leaves *)
(* its loop and closes its HTTP client before the supervisor learns of it.  *)
JobFails ==
    /\ step = "play"
    /\ Close("crashed")
    /\ UNCHANGED <<worker, events, audio, jobs, flag>>

ApiCrash ==
    /\ api = "crashed"
    /\ api' = "dead"
    /\ EndConversation
    /\ UNCHANGED <<worker, events, audio, jobs, step>>

-----------------------------------------------------------------------------
(* The behavior tree's side.                                                *)

Deliver ==
    /\ wire # <<>>
    /\ flag' = Head(wire) /\ wire' = Tail(wire)
    /\ UNCHANGED <<worker, busy, events, audio, jobs, api, step>>

(* CONVERSATION_TIMEOUT_S has passed since the flag was raised.             *)
Expire ==
    /\ flag
    /\ flag' = FALSE
    /\ UNCHANGED <<worker, busy, events, audio, jobs, api, step, wire>>

Talk ==
    \/ WakeWord \/ Recorded \/ WorkerFails
    \/ Wake \/ Hand \/ Put \/ AudioCrash
    \/ Take \/ Request \/ Finish \/ JobFails \/ ApiCrash
    \/ Deliver \/ Expire

Next == Talk \/ Cue

Spec == Init /\ [][Next]_vars

(* Recordings take 5 s, requests are bounded by API_TIMEOUT_SECONDS, a      *)
(* playback ends, the broker delivers, and a task that waits for a place in *)
(* the queue gets one of those the API task frees.                          *)
Fairness ==
    /\ WF_vars(Recorded) /\ WF_vars(Wake) /\ WF_vars(Hand) /\ SF_vars(Put)
    /\ WF_vars(AudioCrash) /\ WF_vars(Take) /\ WF_vars(Request) /\ WF_vars(Finish) /\ WF_vars(ApiCrash)
    /\ WF_vars(Deliver)

-----------------------------------------------------------------------------
TypeOK ==
    /\ worker \in {"listening", "recording", "dead"}
    /\ audio \in {"running", "putting", "stopping", "dead"} /\ api \in Kinds \cup {"idle", "crashed", "dead"}
    /\ step \in {"none", "transcribe", "respond", "synthesize", "play", "fallback"}
    /\ {busy, flag} \subseteq BOOLEAN
    /\ events \in Seq({"wake", "recorded"}) /\ Len(events) <= 4
    /\ jobs \in Seq(Kinds) /\ Len(jobs) <= JobsMax
    /\ wire \in Seq(BOOLEAN)

Count(s, x) == Cardinality({i \in 1..Len(s) : s[i] = x})
One(b) == IF b THEN 1 ELSE 0

(* Recordings that were begun and not yet answered.                         *)
Open == One(worker = "recording") + Count(events, "recorded") + One(audio = "putting")
            + Count(jobs, "listen") + One(api = "listen")

(* As long as the two tasks live there is one conversation at a time, and   *)
(* the listener is off from its wake word to the end of its answer.         *)
OneConversation ==
    api # "dead" => /\ Open <= 1
                    /\ (Open = 1 /\ audio # "dead" => busy)

(* A conversation that is over does not keep the robot standing still: as   *)
(* long as the API task lives and once the messages under way have arrived, *)
(* the wake flag is up only while the listener is still off - also when the *)
(* wake-word task died in between.  When the API task has died, a wake word *)
(* heard just before may raise the flag after end_conversation; then only   *)
(* Expire lowers it.                                                        *)
FlagFollows == flag /\ wire = <<>> /\ api # "dead" => busy

(* The robot can always be spoken to again: the listener is released after  *)
(* every wake word, whatever fails, as long as the API task lives.          *)
Rearmed == busy ~> (~busy \/ api = "dead")

=============================================================================
