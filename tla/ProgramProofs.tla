--------------------------- MODULE ProgramProofs ----------------------------
(***************************************************************************)
(* Proofs about Program and the conversation in it, for every size of the  *)
(* speech queue: when the robot goes down; where a conversation is on its  *)
(* way from the wake-word worker through the audio task, the queue and the *)
(* API task, and what the listener and the wake flag know of it; that      *)
(* neither a conversation nor a shutdown comes to a standstill.            *)
(***************************************************************************)
EXTENDS Program, SequenceTheorems, FiniteSetTheorems, TLAPS

bodyVars == <<shutdown, signalled, serial, tree>>

(* The steps that ask for shutdown, each with its reason.                   *)
LEMMA AsksForReason ==
    ASSUME Signal \/ SerialCrashes \/ TreeCrashes
    PROVE  shutdown' /\ (signalled' \/ serial' # "running" \/ tree' # "running")
<1>1. CASE Signal
  BY <1>1 DEF Signal
<1>2. CASE SerialCrashes
  BY <1>2 DEF SerialCrashes, Critical
<1>3. CASE TreeCrashes
  BY <1>3 DEF TreeCrashes, Critical
<1> QED BY <1>1, <1>2, <1>3

(* Neither the way down nor anything the optional tasks do asks for it.     *)
LEMMA OthersKeep ==
    ASSUME BodyDecides, (Talk /\ UNCHANGED mainVars) \/ TreeCue \/ VisionCrashes \/ Down
    PROVE  BodyDecides'
<1>1. CASE (Talk /\ UNCHANGED mainVars) \/ TreeCue \/ VisionCrashes
  <2>1. UNCHANGED bodyVars
    BY <1>1 DEF TreeCue, VisionCrashes, mainVars, bodyVars
  <2> QED BY <2>1 DEF BodyDecides, bodyVars
<1>2. CASE Stop
  BY <1>2 DEF Stop, BodyDecides
<1>3. CASE Parked
  BY <1>3 DEF Parked, BodyDecides
<1>4. CASE ListenerStops \/ AudioEnds
  BY <1>4 DEF ListenerStops, AudioEnds, mainVars, BodyDecides
<1>5. CASE CameraStops \/ VisionEnds \/ Stopped \/ Exit
  BY <1>5 DEF CameraStops, VisionEnds, Stopped, Exit, BodyDecides
<1> QED BY <1>1, <1>2, <1>3, <1>4, <1>5 DEF Down

(* _run_guarded and the signal handlers: the robot goes down when it is     *)
(* told to or when a critical task has ended, and for nothing else.         *)
THEOREM BodyAlwaysDecides == ProgramSpec => []BodyDecides
<1>1. ProgramInit => BodyDecides
  BY DEF ProgramInit, BodyDecides
<1>2. BodyDecides /\ [ProgramNext]_pvars => BodyDecides'
  <2> SUFFICES ASSUME BodyDecides, [ProgramNext]_pvars PROVE BodyDecides'
    OBVIOUS
  <2>1. CASE Signal \/ SerialCrashes \/ TreeCrashes
    BY <2>1, AsksForReason DEF BodyDecides
  <2>2. CASE (Talk /\ UNCHANGED mainVars) \/ TreeCue \/ VisionCrashes \/ Down
    BY <2>2, OthersKeep
  <2>3. CASE UNCHANGED pvars
    BY <2>3 DEF pvars, mainVars, BodyDecides
  <2> QED BY <2>1, <2>2, <2>3 DEF ProgramNext
<1> QED BY <1>1, <1>2, PTL DEF ProgramSpec

-----------------------------------------------------------------------------
(* The way of one conversation through the tasks.                           *)

(* The recordings that wait in the speech queue.                            *)
Waiting(queue) == {i \in 1..Len(queue) : queue[i] = "listen"}
OneWaits(queue) == \A i, j \in Waiting(queue) : i = j

(* A recording is on its way to its answer.                                 *)
Handed == audio = "putting" \/ Waiting(jobs) # {} \/ api = "listen"

(* The one conversation is with the thread, in its messages, or handed on;  *)
(* its recording waits in one place.                                        *)
Places ==
    /\ events \in {<<>>, <<"wake">>, <<"recorded">>, <<"wake", "recorded">>}
    /\ worker = "recording" => events \in {<<>>, <<"wake">>}
    /\ worker = "recording" \/ events # <<>> => ~Handed
    /\ audio = "putting" \/ api = "listen" => Waiting(jobs) = {}
    /\ audio = "putting" => api # "listen"
    /\ OneWaits(jobs)

(* From its wake word to its end the listener is off, unless the task that  *)
(* would switch it on again is dead.                                        *)
Listener ==
    /\ audio # "stopping"
    /\ audio = "dead" => worker = "dead" /\ events = <<>>
    /\ audio # "dead" /\ (worker = "recording" \/ events # <<>> \/ Handed) => busy

(* The last word on the wake flag: what the tree will believe.              *)
LastWord == IF wire = <<>> THEN flag ELSE wire[Len(wire)]

(* What the worker can still post, with the API task dead or not.           *)
EventsFew ==
    Len(events) + (IF worker = "recording" THEN 1 ELSE 0) <= (IF busy THEN 4 ELSE 2)

(* A job has a request to make exactly while the API task works on it.      *)
Working == step # "none" <=> api \in Kinds

(* The inductive invariant of the conversation.                             *)
SpeechInv ==
    /\ TypeOK /\ Working /\ EventsFew
    /\ api # "dead" => Places /\ Listener /\ (LastWord => busy)

(* What queueing a cue or a recording does to the recordings that wait.     *)
LEMMA WaitingAppended ==
    ASSUME NEW queue \in Seq(Kinds)
    PROVE  /\ Waiting(Append(queue, "say")) = Waiting(queue)
           /\ Waiting(Append(queue, "listen")) # {}
           /\ Waiting(queue) = {} => OneWaits(Append(queue, "listen"))
<1>1. \A k : Len(Append(queue, k)) = Len(queue) + 1 /\ Append(queue, k)[Len(queue) + 1] = k
             /\ \A i \in 1..Len(queue) : Append(queue, k)[i] = queue[i]
  OBVIOUS
<1>2. Waiting(Append(queue, "say")) = Waiting(queue)
  BY <1>1 DEF Waiting
<1>3. Waiting(Append(queue, "listen")) = Waiting(queue) \cup {Len(queue) + 1}
  BY <1>1 DEF Waiting
<1> QED BY <1>2, <1>3 DEF OneWaits

(* What taking a job from the queue does to them.                           *)
LEMMA WaitingTaken ==
    ASSUME NEW queue \in Seq(Kinds), queue # <<>>, OneWaits(queue)
    PROVE  /\ Head(queue) \in Kinds /\ OneWaits(Tail(queue))
           /\ Waiting(queue) = {} => Waiting(Tail(queue)) = {}
           /\ Head(queue) = "listen" => Waiting(queue) # {} /\ Waiting(Tail(queue)) = {}
           /\ Waiting(Tail(queue)) # {} => Waiting(queue) # {}
<1>1. /\ Len(Tail(queue)) = Len(queue) - 1 /\ Len(queue) \in Nat \ {0} /\ Head(queue) = queue[1]
      /\ \A i \in 1..(Len(queue) - 1) : Tail(queue)[i] = queue[i + 1]
  OBVIOUS
<1>2. \A i \in Waiting(Tail(queue)) : i \in Nat \ {0} /\ i + 1 \in Waiting(queue)
  BY <1>1 DEF Waiting
<1>3. Head(queue) = "listen" => 1 \in Waiting(queue)
  BY <1>1 DEF Waiting
<1>4. Head(queue) = "listen" => Waiting(Tail(queue)) = {}
  <2> SUFFICES ASSUME Head(queue) = "listen", NEW i \in Waiting(Tail(queue)) PROVE FALSE
    OBVIOUS
  <2>1. i + 1 = 1 /\ i \in Nat \ {0}
    BY <1>2, <1>3 DEF OneWaits
  <2> QED BY <2>1
<1>5. OneWaits(Tail(queue))
  <2> SUFFICES ASSUME NEW i \in Waiting(Tail(queue)), NEW j \in Waiting(Tail(queue)) PROVE i = j
    BY DEF OneWaits
  <2>1. i + 1 = j + 1 /\ i \in Nat /\ j \in Nat
    BY <1>2 DEF OneWaits
  <2> QED BY <2>1
<1> QED BY <1>2, <1>3, <1>4, <1>5

(* A sequence of two is known by its elements.                              *)
LEMMA PairIs ==
    ASSUME NEW S, NEW a \in S, NEW b \in S, NEW s \in Seq(S), Len(s) = 2, s[1] = a, s[2] = b
    PROVE  s = <<a, b>>
<1>1. /\ <<a, b>> \in Seq(S) /\ Len(<<a, b>>) = 2
      /\ <<a, b>>[1] = a /\ <<a, b>>[2] = b
  OBVIOUS
<1>2. \A i \in 1..Len(s) : s[i] = <<a, b>>[i]
  BY <1>1
<1>3. \A t \in Seq(S) : Len(s) = Len(t) /\ (\A i \in 1..Len(s) : s[i] = t[i]) => s = t
  BY SeqEqual
<1> QED BY <1>1, <1>2, <1>3, Zenon

(* Types and the steps of a job.                                            *)
LEMMA TypesKept ==
    ASSUME SpeechInv, Talk \/ Cue \/ Stop \/ ListenerStops \/ AudioEnds
    PROVE  worker' \in {"listening", "recording", "dead"}
           /\ audio' \in {"running", "putting", "stopping", "dead"}
           /\ api' \in Kinds \cup {"idle", "crashed", "dead"}
           /\ step' \in {"none", "transcribe", "respond", "synthesize", "play", "fallback"}
           /\ busy' \in BOOLEAN /\ flag' \in BOOLEAN
           /\ wire' \in Seq(BOOLEAN) 
           /\ jobs' \in Seq(Kinds) /\ Len(jobs') <= JobsMax
           /\ events' \in Seq({"wake", "recorded"})
           /\ Working'
<1>1. /\ JobsMax \in Nat /\ \A s \in Seq(BOOLEAN) : \A b \in BOOLEAN : Append(s, b) \in Seq(BOOLEAN)
  BY SpeechAssumption
<1> USE DEF SpeechInv, TypeOK, Kinds, Working
<1>2. CASE WakeWord
  BY <1>2 DEF WakeWord
<1>3. CASE Recorded
  BY <1>3 DEF Recorded
<1>4. CASE WorkerFails
  BY <1>4 DEF WorkerFails
<1>5. CASE Wake
  BY <1>1, <1>5 DEF Wake, Publish
<1>6. CASE Hand
  <2>1. events' \in Seq({"wake", "recorded"})
    BY <1>6 DEF Hand
  <2>2. Append(jobs, "listen") \in Seq(Kinds) /\ Len(Append(jobs, "listen")) = Len(jobs) + 1
    OBVIOUS
  <2>3. \/ Len(jobs) < JobsMax /\ jobs' = Append(jobs, "listen") /\ audio' = audio
        \/ audio' = "putting" /\ jobs' = jobs
    BY <1>6, Zenon DEF Hand
  <2>4. jobs' \in Seq(Kinds) /\ Len(jobs') <= JobsMax
    <3>1. Len(jobs) \in Nat /\ Len(jobs) <= JobsMax
      OBVIOUS
    <3>2. CASE Len(jobs) < JobsMax /\ jobs' = Append(jobs, "listen")
      BY <1>1, <2>2, <3>1, <3>2
    <3>3. CASE jobs' = jobs
      BY <3>1, <3>3
    <3> QED BY <2>3, <3>2, <3>3
  <2> QED BY <1>6, <2>1, <2>3, <2>4 DEF Hand
<1>7. CASE Put
  BY <1>1, <1>7 DEF Put
<1>8. CASE AudioCrash
  <2>1. wire' = Append(wire, FALSE) /\ flag' = FALSE /\ busy' = FALSE /\ events' = <<>>
    BY <1>8, Zenon DEF AudioCrash, EndConversation, Publish
  <2>2. wire' \in Seq(BOOLEAN) /\ events' \in Seq({"wake", "recorded"})
    BY <1>1, <2>1
  <2> QED BY <1>8, <2>1, <2>2 DEF AudioCrash
<1>9. CASE Take
  BY <1>1, <1>9 DEF Take, FirstSteps
<1>10. CASE Request
  BY <1>10 DEF Request, Cascade
<1>11. CASE Finish \/ JobFails
  BY <1>1, <1>11 DEF Finish, JobFails, Close, Publish
<1>12. CASE ApiCrash
  BY <1>1, <1>12 DEF ApiCrash, EndConversation, Publish
<1>13. CASE Deliver
  BY <1>13 DEF Deliver
<1>14. CASE Expire
  BY <1>14 DEF Expire
<1>15. CASE Cue
  BY <1>1, <1>15 DEF Cue
<1>16. CASE Stop
  BY <1>1, <1>16 DEF Stop, CancelApi
<1>17. CASE ListenerStops \/ AudioEnds
  BY <1>17 DEF ListenerStops, AudioEnds
<1> QED
  BY <1>2, <1>3, <1>4, <1>5, <1>6, <1>7, <1>8, <1>9, <1>10, <1>11, <1>12, <1>13, <1>14, <1>15,
     <1>16, <1>17 DEF Talk

(* The worker's events stay few: a wake word needs a released listener.     *)
LEMMA EventsBound ==
    ASSUME SpeechInv, Talk \/ Cue \/ Stop \/ ListenerStops \/ AudioEnds
    PROVE  EventsFew'
<1>1. /\ \A s \in Seq({"wake", "recorded"}) : /\ Len(Append(s, "wake")) = Len(s) + 1
                                               /\ Len(Append(s, "recorded")) = Len(s) + 1
                                               /\ s # <<>> => Len(Tail(s)) = Len(s) - 1
                                               /\ Len(s) \in Nat
      /\ Len(<<>>) = 0 /\ Len(<<"wake">>) = 1 /\ Len(<<"recorded">>) = 1
      /\ Len(<<"wake", "recorded">>) = 2
  OBVIOUS
<1>2. /\ events \in Seq({"wake", "recorded"}) /\ busy \in BOOLEAN /\ EventsFew
      /\ api # "dead" => Places
  BY DEF SpeechInv, TypeOK
<1>3. CASE WakeWord
  BY <1>1, <1>2, <1>3 DEF WakeWord, EventsFew
<1>4. CASE Recorded \/ WorkerFails \/ ListenerStops
  BY <1>1, <1>2, <1>4 DEF Recorded, WorkerFails, ListenerStops, EventsFew
<1>5. CASE Wake \/ Hand
  <2>1. worker' = worker /\ busy' = busy /\ events # <<>> /\ events' = Tail(events)
    BY <1>5, Zenon DEF Wake, Hand
  <2> QED BY <1>1, <1>2, <2>1 DEF EventsFew
<1>6. CASE AudioCrash
  BY <1>1, <1>2, <1>6 DEF AudioCrash, EndConversation, EventsFew
<1>7. CASE Finish \/ JobFails
  <2>1. events' = events /\ worker' = worker /\ (busy' = busy \/ api = "listen")
    BY <1>7, Zenon DEF Finish, JobFails, Close
  <2>2. api = "listen" => worker # "recording" /\ events = <<>>
    BY <1>2 DEF Places, Handed
  <2> QED BY <1>1, <1>2, <2>1, <2>2 DEF EventsFew
<1>8. CASE ApiCrash
  <2>1. events' = events /\ worker' = worker /\ api = "crashed"
    BY <1>8, Zenon DEF ApiCrash
  <2>2. Len(events) + (IF worker = "recording" THEN 1 ELSE 0) <= 2
    <3>1. /\ events \in {<<>>, <<"wake">>, <<"recorded">>, <<"wake", "recorded">>}
          /\ worker = "recording" => events \in {<<>>, <<"wake">>}
      BY <1>2, <2>1 DEF Places
    <3>2. Len(events) <= 2 /\ (worker = "recording" => Len(events) <= 1)
      <4>1. Len(events) \in {0, 1, 2}
        BY <1>1, <3>1
      <4>2. worker = "recording" => Len(events) \in {0, 1}
        BY <1>1, <3>1
      <4>3. (\A n \in {0, 1, 2} : n <= 2) /\ (\A n \in {0, 1} : n <= 1)
        OBVIOUS
      <4> QED BY <4>1, <4>2, <4>3, Zenon
    <3> QED BY <1>1, <1>2, <3>2
  <2> QED BY <1>1, <1>2, <2>1, <2>2 DEF EventsFew
<1>9. CASE Stop
  <2>1. events' = events /\ worker' = worker /\ (busy' = busy \/ api = "listen")
    BY <1>9, Zenon DEF Stop, CancelApi
  <2>2. api = "listen" => worker # "recording" /\ events = <<>>
    BY <1>2 DEF Places, Handed
  <2> QED BY <1>1, <1>2, <2>1, <2>2 DEF EventsFew
<1>10. CASE Put \/ Take \/ Request \/ Deliver \/ Expire \/ Cue \/ AudioEnds
  <2>1. events' = events /\ worker' = worker /\ busy' = busy
    BY <1>10, Zenon DEF Put, Take, Request, Deliver, Expire, Cue, AudioEnds
  <2> QED BY <1>2, <2>1 DEF EventsFew
<1> QED BY <1>3, <1>4, <1>5, <1>6, <1>7, <1>8, <1>9, <1>10 DEF Talk

(* A dead API task stays dead.                                              *)
LEMMA AliveBefore ==
    ASSUME SpeechInv, Talk \/ Cue \/ Stop \/ ListenerStops \/ AudioEnds, api' # "dead"
    PROVE  api # "dead"
<1>1. Take \/ Request \/ Finish \/ JobFails \/ ApiCrash => api # "dead"
  BY DEF SpeechInv, Working, Kinds, Take, Request, Cascade, Finish, JobFails, ApiCrash
<1>2. ~(Take \/ Request \/ Finish \/ JobFails \/ ApiCrash) => api' = api \/ api' = "dead"
  BY Zenon DEF Talk, WakeWord, Recorded, WorkerFails, Wake, Hand, Put, AudioCrash, Deliver, Expire,
       Cue, Stop, CancelApi, ListenerStops, AudioEnds
<1> QED BY <1>1, <1>2

(* While the API task lives a conversation is at one place, and the         *)
(* listener off until its answer.                                           *)
LEMMA PlacesKept ==
    ASSUME SpeechInv, Talk \/ Cue \/ Stop \/ ListenerStops \/ AudioEnds, api' # "dead"
    PROVE  Places' /\ Listener'
<1>1. Append(<<"wake">>, "recorded") = <<"wake", "recorded">>
  <2>1. /\ Append(<<"wake">>, "recorded") \in Seq({"wake", "recorded"})
        /\ Len(Append(<<"wake">>, "recorded")) = 2
        /\ Append(<<"wake">>, "recorded")[1] = "wake"
        /\ Append(<<"wake">>, "recorded")[2] = "recorded"
    OBVIOUS
  <2>2. "wake" \in {"wake", "recorded"} /\ "recorded" \in {"wake", "recorded"}
    OBVIOUS
  <2> QED BY <2>1, <2>2, PairIs, Zenon
<1>2. /\ Append(<<>>, "wake") = <<"wake">> /\ Append(<<>>, "recorded") = <<"recorded">>
      /\ Tail(<<"wake">>) = <<>> /\ Tail(<<"recorded">>) = <<>>
      /\ Tail(<<"wake", "recorded">>) = <<"recorded">>
      /\ Head(<<"wake">>) = "wake" /\ Head(<<"wake", "recorded">>) = "wake"
      /\ Head(<<"recorded">>) = "recorded"
      /\ <<"wake">> # <<>> /\ <<"recorded">> # <<>> /\ <<"wake", "recorded">> # <<>>
  OBVIOUS
<1>3. api # "dead"
  BY AliveBefore
<1>4. Places /\ Listener /\ jobs \in Seq(Kinds) /\ busy \in BOOLEAN
  BY <1>3 DEF SpeechInv, TypeOK
<1> USE DEF Places, Listener, Handed
<1>5. CASE WakeWord
  BY <1>2, <1>4, <1>5 DEF WakeWord
<1>6. CASE Recorded
  BY <1>1, <1>2, <1>4, <1>6 DEF Recorded
<1>7. CASE WorkerFails
  BY <1>4, <1>7 DEF WorkerFails
<1>8. CASE Wake
  BY <1>2, <1>4, <1>8 DEF Wake
<1>9. CASE Hand
  BY <1>2, <1>4, <1>9, WaitingAppended DEF Hand
<1>10. CASE Put
  BY <1>4, <1>10, WaitingAppended DEF Put
<1>11. CASE AudioCrash
  BY <1>4, <1>11 DEF AudioCrash
<1>12. CASE Take
  BY <1>4, <1>12, WaitingTaken DEF Take
<1>13. CASE Request \/ Deliver \/ Expire
  BY <1>4, <1>13 DEF Request, Deliver, Expire
<1>14. CASE Finish \/ JobFails
  BY <1>4, <1>14 DEF Finish, JobFails, Close
<1>15. CASE Cue
  <2>1. Waiting(jobs') = Waiting(jobs)
    BY <1>4, <1>15, WaitingAppended DEF Cue
  <2>2. OneWaits(jobs') = OneWaits(jobs)
    BY <2>1 DEF OneWaits
  <2>3. UNCHANGED <<worker, busy, events, audio, api>>
    BY <1>15, Zenon DEF Cue
  <2> QED BY <1>4, <2>1, <2>2, <2>3
<1>16. CASE ApiCrash \/ Stop
  BY <1>16 DEF ApiCrash, Stop, CancelApi
<1>17. CASE ListenerStops \/ AudioEnds
  BY <1>4, <1>17 DEF ListenerStops, AudioEnds
<1> QED
  BY <1>5, <1>6, <1>7, <1>8, <1>9, <1>10, <1>11, <1>12, <1>13, <1>14, <1>15, <1>16, <1>17 DEF Talk

(* While the API task lives the last word on the wake flag is not up once   *)
(* the listener is released.                                                *)
LEMMA LastWordKept ==
    ASSUME SpeechInv, Talk \/ Cue \/ Stop \/ ListenerStops \/ AudioEnds, api' # "dead", LastWord'
    PROVE  busy'
<1>1. api # "dead" /\ wire \in Seq(BOOLEAN)
  BY AliveBefore DEF SpeechInv, TypeOK
<1>2. (LastWord => busy) /\ Places /\ Listener
  BY <1>1 DEF SpeechInv
<1>3. \A b \in BOOLEAN : /\ Append(wire, b) # <<>>
                         /\ Append(wire, b)[Len(Append(wire, b))] = b
  BY <1>1
<1>4. ~\E w : wire' = Append(w, FALSE) /\ Append(w, FALSE) = Append(wire, FALSE)
  BY <1>3 DEF LastWord
<1>5. CASE Wake
  <2>1. busy' = busy /\ events # <<>> /\ audio = "running"
    BY <1>5, Zenon DEF Wake
  <2> QED BY <1>2, <2>1 DEF Listener
<1>6. CASE AudioCrash \/ ApiCrash
  BY <1>4, <1>6, Zenon DEF AudioCrash, ApiCrash, EndConversation, Publish
<1>7. CASE Finish \/ JobFails
  <2>1. CASE api = "listen"
    BY <1>4, <1>7, <2>1, Zenon DEF Finish, JobFails, Close, Publish
  <2>2. CASE api # "listen"
    <3>1. wire' = wire /\ flag' = flag /\ busy' = busy
      BY <1>7, <2>2, Zenon DEF Finish, JobFails, Close
    <3> QED BY <1>2, <3>1 DEF LastWord
  <2> QED BY <2>1, <2>2
<1>8. CASE Deliver
  <2>1. wire # <<>> /\ flag' = Head(wire) /\ wire' = Tail(wire) /\ busy' = busy
    BY <1>8, Zenon DEF Deliver
  <2>2. LastWord' = LastWord
    <3>1. CASE Len(wire) = 1
      <4>1. Tail(wire) = <<>> /\ Head(wire) = wire[Len(wire)]
        BY <1>1, <2>1, <3>1
      <4> QED BY <2>1, <4>1, Zenon DEF LastWord
    <3>2. CASE Len(wire) # 1
      <4>1. Tail(wire) # <<>> /\ Tail(wire)[Len(Tail(wire))] = wire[Len(wire)]
        <5>1. Len(wire) \in Nat \ {0, 1} /\ Len(Tail(wire)) = Len(wire) - 1
          BY <1>1, <2>1, <3>2
        <5>2. \A i \in 1..Len(Tail(wire)) : Tail(wire)[i] = wire[i + 1]
          BY <1>1, <2>1
        <5>3. Len(wire) - 1 \in 1..Len(Tail(wire)) /\ (Len(wire) - 1) + 1 = Len(wire)
          BY <5>1
        <5>4. Tail(wire)[Len(wire) - 1] = wire[(Len(wire) - 1) + 1]
          BY <5>2, <5>3
        <5> QED BY <5>1, <5>3, <5>4
      <4> QED BY <2>1, <4>1, Zenon DEF LastWord
    <3> QED BY <3>1, <3>2
  <2> QED BY <1>2, <2>1, <2>2, Zenon
<1>9. CASE Expire
  <2>1. wire' = wire /\ busy' = busy /\ flag /\ flag' = FALSE
    BY <1>9, Zenon DEF Expire
  <2> QED BY <1>2, <2>1, Zenon DEF LastWord
<1>10. CASE WakeWord
  BY <1>10, Zenon DEF WakeWord
<1>11. CASE \/ Recorded \/ WorkerFails \/ Hand \/ Put \/ Take \/ Request \/ Cue
           \/ ListenerStops \/ AudioEnds
  <2>1. wire' = wire /\ flag' = flag /\ busy' = busy
    BY <1>11, Zenon DEF Recorded, WorkerFails, Hand, Put, Take, Request, Cue, ListenerStops, AudioEnds
  <2> QED BY <1>2, <2>1, Zenon DEF LastWord
<1>12. CASE Stop
  BY <1>12 DEF Stop, CancelApi
<1> QED BY <1>5, <1>6, <1>7, <1>8, <1>9, <1>10, <1>11, <1>12 DEF Talk

(* The rest of the program is no matter of the conversation.                *)
LEMMA SpeechSide ==
    ASSUME [ProgramNext]_pvars
    PROVE  \/ Talk \/ Cue \/ Stop \/ ListenerStops \/ AudioEnds
           \/ UNCHANGED vars
BY Zenon DEF ProgramNext, pvars, TreeCue, Signal, SerialCrashes, TreeCrashes, VisionCrashes, Down,
             Parked, CameraStops, VisionEnds, Stopped, Exit

(* Every step of the program keeps SpeechInv.                               *)
LEMMA SpeechStep == ASSUME SpeechInv, [ProgramNext]_pvars PROVE SpeechInv'
<1>1. CASE Talk \/ Cue \/ Stop \/ ListenerStops \/ AudioEnds
  <2>1. /\ worker' \in {"listening", "recording", "dead"}
        /\ audio' \in {"running", "putting", "stopping", "dead"}
        /\ api' \in Kinds \cup {"idle", "crashed", "dead"}
        /\ step' \in {"none", "transcribe", "respond", "synthesize", "play", "fallback"}
        /\ busy' \in BOOLEAN /\ flag' \in BOOLEAN
        /\ wire' \in Seq(BOOLEAN)
        /\ jobs' \in Seq(Kinds) /\ Len(jobs') <= JobsMax
        /\ events' \in Seq({"wake", "recorded"})
        /\ Working'
    BY <1>1, TypesKept
  <2>2. EventsFew'
    BY <1>1, EventsBound
  <2>3. Len(events') <= 4
    BY <2>1, <2>2 DEF EventsFew
  <2>4. {busy', flag'} \subseteq BOOLEAN
    BY <2>1
  <2>5. TypeOK'
    BY <2>1, <2>3, <2>4, Zenon DEF TypeOK
  <2>6. api' # "dead" => Places' /\ Listener' /\ (LastWord' => busy')
    BY <1>1, PlacesKept, LastWordKept
  <2> QED BY <2>1, <2>2, <2>5, <2>6 DEF SpeechInv
<1>2. CASE UNCHANGED vars
  <2>1. /\ worker' = worker /\ busy' = busy /\ events' = events /\ audio' = audio /\ jobs' = jobs
        /\ api' = api /\ step' = step /\ wire' = wire /\ flag' = flag
    BY <1>2, Zenon DEF vars
  <2>2. TypeOK' = TypeOK /\ Working' = Working /\ EventsFew' = EventsFew
    BY <2>1 DEF TypeOK, Working, EventsFew
  <2>3. Places' = Places /\ Listener' = Listener /\ LastWord' = LastWord
    BY <2>1 DEF Places, Listener, LastWord, Handed
  <2> QED BY <2>1, <2>2, <2>3 DEF SpeechInv
<1> QED BY <1>1, <1>2, SpeechSide

(* SpeechInv holds at the start.                                            *)
LEMMA SpeechStart == ASSUME ProgramInit PROVE SpeechInv
<1>1. /\ worker = "listening" /\ busy = FALSE /\ events = <<>> /\ audio = "running" /\ jobs = <<>>
      /\ api = "idle" /\ step = "none" /\ wire = <<>> /\ flag = FALSE
  BY Zenon DEF ProgramInit, Init
<1>2. Waiting(<<>>) = {} /\ Len(<<>>) = 0 /\ JobsMax \in Nat
  BY SpeechAssumption DEF Waiting
<1>3. Places /\ Listener /\ EventsFew /\ Working
  BY <1>1, <1>2 DEF Places, Listener, Handed, OneWaits, EventsFew, Working, Kinds
<1>4. TypeOK
  <2>1. <<>> \in Seq(Kinds) /\ <<>> \in Seq(BOOLEAN) /\ <<>> \in Seq({"wake", "recorded"})
        /\ 0 <= 4 /\ 0 <= JobsMax /\ {FALSE} \subseteq BOOLEAN
    BY <1>2
  <2> QED BY <1>1, <1>2, <2>1 DEF TypeOK
<1> QED BY <1>1, <1>3, <1>4, Zenon DEF SpeechInv, LastWord

(* The inductive invariant of the conversation in the whole program:        *)
(* crashes of every task, signals and the way down included, for every size *)
(* of the speech queue.                                                     *)
THEOREM SpeechInvariant == ProgramSpec => []SpeechInv
BY SpeechStart, SpeechStep, PTL DEF ProgramSpec

(* Type correctness of the whole program. That the loop never holds more    *)
(* than four of the worker's events is part of it, and needs SpeechInv.     *)
THEOREM ProgramTypes == ProgramSpec => []ProgramTypeOK
<1> DEFINE MainTypes ==
      /\ stage \in {"running", "stopping", "stopped", "exited"}
      /\ shutdown \in BOOLEAN /\ signalled \in BOOLEAN
      /\ serial \in {"running", "parking", "ended"} /\ tree \in {"running", "ended"}
      /\ vision \in {"running", "waiting", "ended"} /\ camera \in {"running", "ended"}
<1>1. ProgramInit => MainTypes
  BY DEF ProgramInit
<1>2. MainTypes /\ [ProgramNext]_pvars => MainTypes'
  <2> SUFFICES ASSUME MainTypes, [ProgramNext]_pvars PROVE MainTypes'
    OBVIOUS
  <2>1. CASE (Talk /\ UNCHANGED mainVars) \/ TreeCue \/ UNCHANGED pvars
    BY <2>1 DEF TreeCue, mainVars, pvars
  <2>2. CASE Signal \/ SerialCrashes \/ TreeCrashes \/ VisionCrashes
    BY <2>2 DEF Signal, SerialCrashes, TreeCrashes, VisionCrashes, Critical
  <2>3. CASE Stop
    BY <2>3 DEF Stop
  <2>4. CASE Parked \/ ListenerStops \/ AudioEnds \/ CameraStops \/ VisionEnds \/ Stopped \/ Exit
    BY <2>4 DEF Parked, ListenerStops, AudioEnds, CameraStops, VisionEnds, Stopped, Exit, mainVars
  <2> QED BY <2>1, <2>2, <2>3, <2>4 DEF ProgramNext, Down
<1>3. SpeechInv /\ MainTypes => ProgramTypeOK
  <2>1. \A a, b \in BOOLEAN : {a, b} \subseteq BOOLEAN
    OBVIOUS
  <2> QED BY <2>1, Zenon DEF SpeechInv, ProgramTypeOK
<1> QED BY <1>1, <1>2, <1>3, SpeechInvariant, PTL DEF ProgramSpec

(* Counting what occurs nowhere, or at one position.                        *)
LEMMA CountIs ==
    ASSUME NEW s, NEW x
    PROVE  /\ {i \in 1..Len(s) : s[i] = x} = {} => Count(s, x) = 0
           /\ \A k \in 1..Len(s) : {i \in 1..Len(s) : s[i] = x} = {k} => Count(s, x) = 1
BY FS_EmptySet, FS_Singleton DEF Count

(* One conversation at a time, with the listener off from its wake word to  *)
(* the end of its answer, however worker, audio task, API task and the      *)
(* tree's cues interleave, for every size of the queue.                     *)
THEOREM AlwaysOneConversation == ProgramSpec => []OneConversation
<1>1. SpeechInv => OneConversation
  <2> SUFFICES ASSUME SpeechInv, api # "dead"
               PROVE  Open <= 1 /\ (Open = 1 /\ audio # "dead" => busy)
    BY DEF OneConversation
  <2>1. Places /\ Listener
    BY DEF SpeechInv
  <2>2. Waiting(jobs) = {} => Count(jobs, "listen") = 0
    BY CountIs DEF Waiting
  <2>3. Waiting(jobs) # {} => Count(jobs, "listen") = 1
    <3> SUFFICES ASSUME NEW k \in Waiting(jobs) PROVE Count(jobs, "listen") = 1
      OBVIOUS
    <3>1. Waiting(jobs) = {k}
      BY <2>1 DEF Places, OneWaits
    <3> QED BY <3>1, CountIs DEF Waiting
  <2>4. events \in {<<>>, <<"wake">>} => Count(events, "recorded") = 0
    <3>1. {i \in 1..Len(<<>>) : <<>>[i] = "recorded"} = {}
      OBVIOUS
    <3>2. {i \in 1..Len(<<"wake">>) : <<"wake">>[i] = "recorded"} = {}
      OBVIOUS
    <3> QED BY <3>1, <3>2, CountIs
  <2>5. events \in {<<"recorded">>, <<"wake", "recorded">>} => Count(events, "recorded") = 1
    <3>1. {i \in 1..Len(<<"recorded">>) : <<"recorded">>[i] = "recorded"} = {1}
      OBVIOUS
    <3>2. {i \in 1..Len(<<"wake", "recorded">>) : <<"wake", "recorded">>[i] = "recorded"} = {2}
      OBVIOUS
    <3>3. 1 \in 1..Len(<<"recorded">>) /\ 2 \in 1..Len(<<"wake", "recorded">>)
      OBVIOUS
    <3>4. Count(<<"recorded">>, "recorded") = 1 /\ Count(<<"wake", "recorded">>, "recorded") = 1
      BY <3>1, <3>2, <3>3, CountIs
    <3> QED BY <3>4
  <2>6. /\ One(worker = "recording") = IF worker = "recording" THEN 1 ELSE 0
        /\ One(audio = "putting") = IF audio = "putting" THEN 1 ELSE 0
        /\ One(api = "listen") = IF api = "listen" THEN 1 ELSE 0
    BY DEF One
  <2>7. <<"recorded">> # <<>> /\ <<"wake", "recorded">> # <<>>
    OBVIOUS
  <2>8. Handed => worker # "recording" /\ events = <<>>
    BY <2>1 DEF Places
  <2>9. worker = "recording" => events \in {<<>>, <<"wake">>}
    BY <2>1 DEF Places
  <2> QED BY <2>1, <2>2, <2>3, <2>4, <2>5, <2>6, <2>8, <2>9 DEF Open, Places, Listener, Handed
<1> QED BY <1>1, SpeechInvariant, PTL

(* A conversation that is over leaves no wake flag behind, as long as the   *)
(* API task lives: conversation_active is up only while the listener is     *)
(* off, once the messages under way have arrived.                           *)
THEOREM FlagAlwaysFollows == ProgramSpec => []FlagFollows
<1>1. SpeechInv => FlagFollows
  BY Zenon DEF SpeechInv, FlagFollows, LastWord
<1> QED BY <1>1, SpeechInvariant, PTL

-----------------------------------------------------------------------------
(* Nobody waits for nothing.                                                *)

(* What a listener that is off may be waiting for: its conversation, or the *)
(* audio task, which is about to notice that the worker is dead.            *)
Reason ==
    \/ worker = "recording" \/ events # <<>> \/ Handed
    \/ worker = "dead" /\ audio = "running"
OffForReason == busy /\ api # "dead" => Reason

(* The worker goes on recording after its wake word, or dies.               *)
WakeIsFollowed == api # "dead" /\ events = <<"wake">> => worker # "listening"

(* Taking another job leaves the recordings that wait where they are.       *)
LEMMA WaitingLeft ==
    ASSUME NEW queue \in Seq(Kinds), queue # <<>>, Head(queue) # "listen", Waiting(queue) # {}
    PROVE  Waiting(Tail(queue)) # {}
<1>1. PICK k \in 1..Len(queue) : queue[k] = "listen"
  BY DEF Waiting
<1>2. k # 1
  BY <1>1
<1>3. k - 1 \in 1..Len(Tail(queue)) /\ Tail(queue)[k - 1] = queue[k]
  BY <1>2
<1> QED BY <1>1, <1>3 DEF Waiting

(* The steps of the conversation that leave api # "dead".                   *)
LEMMA ReasonTalk ==
    ASSUME SpeechInv, OffForReason, WakeIsFollowed, Talk, busy', api' # "dead"
    PROVE  Reason'
<1>1. /\ worker \in {"listening", "recording", "dead"}
      /\ audio \in {"running", "putting", "stopping", "dead"}
      /\ events \in Seq({"wake", "recorded"}) /\ jobs \in Seq(Kinds)
      /\ step # "none" <=> api \in Kinds
  BY Zenon DEF SpeechInv, TypeOK, Working
<1>2. \A e : Append(events, e) # <<>>
  BY <1>1
<1>3. api # "dead" => /\ audio # "stopping" /\ Places
                      /\ audio = "dead" => worker = "dead" /\ events = <<>>
  BY Zenon DEF SpeechInv, Listener
<1>4. CASE WakeWord \/ Recorded
  BY <1>2, <1>4, Zenon DEF WakeWord, Recorded, Reason
<1>5. CASE WorkerFails
  <2>1. /\ worker # "dead" /\ worker' = "dead" /\ UNCHANGED <<busy, events, audio, jobs, api>>
    BY <1>5, Zenon DEF WorkerFails
  <2>2. audio = "running" \/ audio = "putting"
    BY <1>1, <1>3, <2>1
  <2> QED BY <2>1, <2>2, Zenon DEF Reason, Handed
<1>6. CASE Wake
  <2>1. /\ audio = "running" /\ events # <<>> /\ Head(events) = "wake" /\ events' = Tail(events)
        /\ UNCHANGED <<worker, busy, audio, jobs, api>>
    BY <1>6, Zenon DEF Wake
  <2>2. events = <<"wake">> \/ events = <<"wake", "recorded">>
    BY <1>3, <2>1 DEF Places
  <2>3. CASE events = <<"wake">>
    <3>1. worker # "listening"
      BY <2>1, <2>3, Zenon DEF WakeIsFollowed
    <3> QED BY <1>1, <2>1, <3>1 DEF Reason
  <2>4. CASE events = <<"wake", "recorded">>
    <3>1. events' # <<>>
      BY <2>1, <2>4
    <3> QED BY <3>1 DEF Reason
  <2> QED BY <2>2, <2>3, <2>4
<1>7. CASE Hand \/ Put
  <2>1. audio' = "putting" \/ jobs' = Append(jobs, "listen")
    BY <1>7, Zenon DEF Hand, Put
  <2>2. Waiting(Append(jobs, "listen")) # {}
    BY <1>1, WaitingAppended
  <2> QED BY <2>1, <2>2, Zenon DEF Reason, Handed
<1>8. CASE AudioCrash \/ ApiCrash
  BY <1>8, Zenon DEF AudioCrash, ApiCrash, EndConversation
<1>9. CASE Take
  <2>1. /\ api = "idle" /\ jobs # <<>> /\ api' = Head(jobs) /\ jobs' = Tail(jobs)
        /\ UNCHANGED <<worker, busy, events, audio>>
    BY <1>9, Zenon DEF Take
  <2>2. Reason
    BY <2>1 DEF OffForReason
  <2>3. CASE Waiting(jobs) # {} /\ Head(jobs) # "listen"
    <3>1. Waiting(Tail(jobs)) # {}
      BY <1>1, <2>1, <2>3, WaitingLeft
    <3> QED BY <2>1, <3>1, Zenon DEF Reason, Handed
  <2>4. CASE Head(jobs) = "listen"
    BY <2>1, <2>4, Zenon DEF Reason, Handed
  <2>5. CASE Waiting(jobs) = {}
    <3>1. api # "listen"
      BY <2>1
    <3> QED BY <2>1, <2>2, <2>5, <3>1, Zenon DEF Reason, Handed
  <2> QED BY <2>3, <2>4, <2>5
<1>10. CASE Finish \/ JobFails
  <2>1. /\ step # "none" /\ UNCHANGED <<worker, events, audio, jobs>>
        /\ IF api = "listen" THEN busy' = FALSE ELSE UNCHANGED busy
    BY <1>10 DEF Finish, JobFails, Close
  <2>2. api # "listen" /\ busy /\ api # "dead"
    BY <1>1, <2>1 DEF Kinds
  <2>3. Reason
    BY <2>2, Zenon DEF OffForReason
  <2> QED BY <2>1, <2>2, <2>3, Zenon DEF Reason, Handed
<1>11. CASE Request \/ Deliver \/ Expire
  <2>1. UNCHANGED <<worker, busy, events, audio, jobs, api>>
    BY <1>11, Zenon DEF Request, Deliver, Expire
  <2> QED BY <2>1, Zenon DEF OffForReason, Reason, Handed
<1> QED BY <1>4, <1>5, <1>6, <1>7, <1>8, <1>9, <1>10, <1>11, Zenon DEF Talk

(* Every step of the program keeps it.                                      *)
LEMMA ReasonStep ==
    ASSUME SpeechInv, OffForReason, WakeIsFollowed, [ProgramNext]_pvars
    PROVE  OffForReason'
<1> SUFFICES ASSUME busy', api' # "dead" PROVE Reason'
  BY Zenon DEF OffForReason
<1>1. CASE Talk
  BY <1>1, ReasonTalk
<1>2. CASE Cue
  <2>1. /\ jobs' = jobs \/ jobs' = Append(jobs, "say")
        /\ UNCHANGED <<worker, busy, events, audio, api>>
    BY <1>2 DEF Cue
  <2>2. Waiting(jobs') = Waiting(jobs)
    <3>1. jobs \in Seq(Kinds)
      BY Zenon DEF SpeechInv, TypeOK
    <3> QED BY <2>1, <3>1, WaitingAppended, Zenon
  <2> QED BY <2>1, <2>2, Zenon DEF OffForReason, Reason, Handed
<1>3. CASE UNCHANGED vars
  BY <1>3, Zenon DEF vars, OffForReason, Reason, Handed
<1>4. CASE Stop
  BY <1>4, Zenon DEF Stop, CancelApi
<1>5. CASE ListenerStops \/ AudioEnds
  <2>1. audio = "stopping" /\ api' = api
    BY <1>5, Zenon DEF ListenerStops, AudioEnds
  <2> QED BY <2>1, Zenon DEF SpeechInv, Listener
<1>6. Talk \/ Cue \/ UNCHANGED vars \/ Stop \/ ListenerStops \/ AudioEnds
  BY Zenon DEF ProgramNext, TreeCue, Signal, SerialCrashes, TreeCrashes, VisionCrashes, Down,
     Parked, CameraStops, VisionEnds, Stopped, Exit, pvars
<1> QED BY <1>1, <1>2, <1>3, <1>4, <1>5, <1>6

(* A wake word is followed by its recording, or by the end of the worker.   *)
LEMMA WakeStep ==
    ASSUME SpeechInv, WakeIsFollowed, [ProgramNext]_pvars
    PROVE  WakeIsFollowed'
<1> SUFFICES ASSUME api' # "dead", events' = <<"wake">> PROVE worker' # "listening"
  BY Zenon DEF WakeIsFollowed
<1>1. /\ worker \in {"listening", "recording", "dead"}
      /\ events \in Seq({"wake", "recorded"})
      /\ step # "none" <=> api \in Kinds
  BY Zenon DEF SpeechInv, TypeOK, Working
<1>2. api # "dead" => Places
  BY Zenon DEF SpeechInv
<1>3. CASE WakeWord \/ WorkerFails
  BY <1>3 DEF WakeWord, WorkerFails
<1>4. CASE Recorded
  <2>1. events' = Append(events, "recorded")
    BY <1>4, Zenon DEF Recorded
  <2>2. events'[Len(events')] = "recorded"
    BY <1>1, <2>1
  <2> QED BY <2>2
<1>5. CASE Wake \/ Hand
  <2>1. events # <<>> /\ events' = Tail(events) /\ UNCHANGED api
    BY <1>5, Zenon DEF Wake, Hand
  <2>2. events \in {<<"wake">>, <<"recorded">>, <<"wake", "recorded">>}
    BY <1>2, <2>1 DEF Places
  <2> QED BY <2>1, <2>2
<1>6. CASE AudioCrash
  BY <1>6 DEF AudioCrash
<1>7. CASE ListenerStops \/ Stop
  BY <1>7, Zenon DEF ListenerStops, Stop, CancelApi
<1>8. CASE Finish \/ JobFails
  <2>1. step # "none" /\ UNCHANGED <<worker, events>>
    BY <1>8 DEF Finish, JobFails
  <2>2. api # "dead"
    BY <1>1, <2>1 DEF Kinds
  <2> QED BY <2>1, <2>2, Zenon DEF WakeIsFollowed
<1>9. CASE Take
  <2>1. api = "idle" /\ UNCHANGED <<worker, events>>
    BY <1>9, Zenon DEF Take
  <2> QED BY <2>1 DEF WakeIsFollowed
<1>10. CASE ApiCrash
  BY <1>10, Zenon DEF ApiCrash
<1>11. CASE UNCHANGED <<worker, events, api>>
  BY <1>11, Zenon DEF WakeIsFollowed
<1>12. \/ WakeWord \/ WorkerFails \/ Recorded \/ Wake \/ Hand \/ AudioCrash \/ ListenerStops \/ Stop
       \/ Finish \/ JobFails \/ Take \/ ApiCrash \/ UNCHANGED <<worker, events, api>>
  BY Zenon DEF ProgramNext, Talk, Put, Request, Deliver, Expire, Cue, TreeCue, Signal,
     SerialCrashes, TreeCrashes, VisionCrashes, Down, Parked, AudioEnds, CameraStops, VisionEnds,
     Stopped, Exit, pvars, vars
<1> QED BY <1>3, <1>4, <1>5, <1>6, <1>7, <1>8, <1>9, <1>10, <1>11, <1>12

(* The listener is off for a reason: while the API task lives, busy stands  *)
(* only as long as its conversation is in the hands of some task, or the    *)
(* audio task has still to notice that the worker died in it.               *)
THEOREM ListenerOffForReason == ProgramSpec => []OffForReason
<1>1. ProgramInit => OffForReason /\ WakeIsFollowed
  BY DEF ProgramInit, Init, OffForReason, WakeIsFollowed
<1>2. SpeechInv /\ OffForReason /\ WakeIsFollowed /\ [ProgramNext]_pvars
        => OffForReason' /\ WakeIsFollowed'
  BY ReasonStep, WakeStep
<1> QED BY <1>1, <1>2, SpeechInvariant, PTL DEF ProgramSpec

(* The guards of the steps that Speech's Fairness is about.                 *)
Room == Len(wire) < WireMax
CanTalk ==
    \/ worker = "recording"                                                \* Recorded
    \/ audio = "running" /\ events # <<>> /\ Head(events) = "wake" /\ Room \* Wake
    \/ audio = "running" /\ events # <<>> /\ Head(events) = "recorded"     \* Hand
    \/ audio = "putting" /\ Len(jobs) < JobsMax                            \* Put
    \/ audio = "running" /\ worker = "dead" /\ Room                        \* AudioCrash
    \/ api = "idle" /\ jobs # <<>>                                         \* Take
    \/ step \in DOMAIN Cascade                                             \* Request
    \/ step \in {"play", "fallback"} /\ (api = "listen" => Room)           \* Finish
    \/ api = "crashed" /\ Room                                             \* ApiCrash
    \/ wire # <<>>                                                         \* Deliver

(* A conversation never comes to a standstill with everyone waiting: not    *)
(* the audio task for a place in a full queue, not the API task for a job,  *)
(* not a publication for the broker.                                        *)
THEOREM ConversationGoesOn == ProgramSpec => [](busy /\ api # "dead" => CanTalk)
<1>1. ASSUME SpeechInv, OffForReason, busy, api # "dead" PROVE CanTalk
  <2>1. /\ audio \in {"running", "putting", "stopping", "dead"}
        /\ api \in Kinds \cup {"idle", "crashed", "dead"}
        /\ step \in {"none", "transcribe", "respond", "synthesize", "play", "fallback"}
        /\ events \in Seq({"wake", "recorded"}) /\ jobs \in Seq(Kinds) /\ wire \in Seq(BOOLEAN)
        /\ step # "none" <=> api \in Kinds
    BY <1>1, Zenon DEF SpeechInv, TypeOK, Working
  <2>2. /\ worker = "recording" \/ events # <<>> => ~Handed
        /\ audio # "stopping" /\ (audio = "dead" => events = <<>>)
    BY <1>1, Zenon DEF SpeechInv, Places, Listener
  <2>3. JobsMax \in Nat \ {0} /\ WireMax \in Nat \ {0}
    BY SpeechAssumption
  <2>4. wire = <<>> => Room
    BY <2>3 DEF Room
  <2>5. DOMAIN Cascade = {"transcribe", "respond", "synthesize"}
    BY DEF Cascade
  <2>6. CASE worker = "recording" \/ wire # <<>>
    BY <2>6, Zenon DEF CanTalk
  <2>7. CASE wire = <<>> /\ events # <<>>
    <3>1. audio = "running"
      BY <2>1, <2>2, <2>7 DEF Handed
    <3>2. Head(events) \in {"wake", "recorded"}
      BY <2>1, <2>7
    <3> QED BY <2>4, <2>7, <3>1, <3>2 DEF CanTalk
  <2>8. CASE wire = <<>> /\ worker = "dead" /\ audio = "running"
    BY <2>4, <2>8, Zenon DEF CanTalk
  <2>9. CASE wire = <<>> /\ step # "none"
    BY <2>1, <2>4, <2>5, <2>9 DEF CanTalk
  <2>10. CASE wire = <<>> /\ step = "none" /\ Handed
    <3>1. api \in {"idle", "crashed"}
      BY <1>1, <2>1, <2>10
    <3>2. api # "listen"
      BY <3>1
    <3>3. CASE api = "crashed"
      BY <2>4, <2>10, <3>3, Zenon DEF CanTalk
    <3>4. CASE api = "idle" /\ Waiting(jobs) # {}
      <4>1. jobs # <<>>
        BY <3>4 DEF Waiting
      <4> QED BY <3>4, <4>1, Zenon DEF CanTalk
    <3>5. CASE api = "idle" /\ audio = "putting"
      <4>1. jobs # <<>> \/ Len(jobs) < JobsMax
        BY <2>1, <2>3
      <4> QED BY <3>5, <4>1, Zenon DEF CanTalk
    <3> QED BY <2>10, <3>1, <3>2, <3>3, <3>4, <3>5 DEF Handed
  <2> QED BY <1>1, <2>6, <2>7, <2>8, <2>9, <2>10, Zenon DEF OffForReason, Reason
<1>2. SpeechInv /\ OffForReason => (busy /\ api # "dead" => CanTalk)
  BY <1>1
<1> QED BY <1>2, SpeechInvariant, ListenerOffForReason, PTL

-----------------------------------------------------------------------------
(* The way down, for itself.                                                *)

(* What main has left behind in each of its stages.                         *)
WayDown ==
    /\ stage # "running" => /\ serial # "running" /\ tree = "ended" /\ vision # "running"
                            /\ audio \in {"stopping", "dead"} /\ api = "dead"
    /\ stage \in {"stopped", "exited"} => serial = "ended" /\ vision = "ended" /\ audio = "dead"
    /\ stage = "exited" => camera = "ended"
    /\ audio = "dead" => worker = "dead"
    /\ audio = "stopping" => stage = "stopping"

(* What is still to end, each with the steps it has left.                   *)
StageLeft == CASE stage = "running" -> 3 [] stage = "stopping" -> 2
               [] stage = "stopped" -> 1 [] stage = "exited" -> 0
SerialLeft == CASE serial = "running" -> 2 [] serial = "parking" -> 1 [] serial = "ended" -> 0
VisionLeft == CASE vision = "running" -> 2 [] vision = "waiting" -> 1 [] vision = "ended" -> 0
AudioLeft == CASE audio \in {"running", "putting"} -> 2 [] audio = "stopping" -> 1
               [] audio = "dead" -> 0
WorkerLeft == CASE worker = "listening" -> 2 [] worker = "recording" -> 1 [] worker = "dead" -> 0
Left == StageLeft + SerialLeft + VisionLeft + AudioLeft + WorkerLeft
          + One(tree = "running") + One(camera = "running")

(* The types that Left and WayDown look at.                                 *)
LeftTypes ==
    /\ stage \in {"running", "stopping", "stopped", "exited"}
    /\ serial \in {"running", "parking", "ended"} /\ tree \in {"running", "ended"}
    /\ vision \in {"running", "waiting", "ended"} /\ camera \in {"running", "ended"}
    /\ worker \in {"listening", "recording", "dead"}
    /\ audio \in {"running", "putting", "stopping", "dead"}
    /\ step # "none" <=> api \in Kinds

leftVars == <<stage, serial, tree, vision, camera, worker, audio>>

(* What the conversation still does once the program is on its way down,    *)
(* and before.                                                              *)
LEMMA TalkOnTheWay ==
    ASSUME LeftTypes, WayDown, Talk, UNCHANGED mainVars
    PROVE  /\ WayDown'
           /\ stage # "running" => \/ UNCHANGED leftVars /\ api' = api
                                   \/ /\ worker' # worker /\ UNCHANGED <<audio, api>>
                                      /\ worker = "listening" \/ worker' = "dead"
           /\ stage # "running" /\ Recorded => worker = "recording" /\ worker' = "dead"
<1>1. UNCHANGED <<stage, serial, tree, vision, camera>>
  BY DEF mainVars
<1>2. CASE WakeWord
  BY <1>1, <1>2 DEF WakeWord, WayDown, Recorded
<1>3. CASE Recorded
  BY <1>1, <1>3 DEF Recorded, WayDown, LeftTypes
<1>4. CASE WorkerFails
  BY <1>1, <1>4 DEF WorkerFails, WayDown, Recorded
<1>5. CASE Wake \/ Hand \/ Put
  <2>1. /\ audio \in {"running", "putting"} /\ audio' \in {"running", "putting"}
        /\ UNCHANGED <<worker, api>> /\ ~Recorded
    BY <1>5 DEF Wake, Hand, Put, Recorded
  <2> QED BY <1>1, <2>1 DEF WayDown
<1>6. CASE AudioCrash
  BY <1>1, <1>6 DEF AudioCrash, WayDown, Recorded
<1>7. CASE Take \/ Finish \/ JobFails \/ ApiCrash
  <2>1. UNCHANGED <<worker, audio>> /\ (api = "idle" \/ step # "none" \/ api = "crashed")
    BY <1>7 DEF Take, Finish, JobFails, ApiCrash
  <2>2. api # "dead"
    BY <2>1 DEF LeftTypes, Kinds
  <2>3. stage = "running"
    BY <2>2 DEF WayDown
  <2> QED BY <1>1, <2>1, <2>3, Zenon DEF WayDown
<1>8. CASE Request \/ Deliver \/ Expire
  <2>1. UNCHANGED <<worker, audio, api>> /\ ~Recorded
    <3>1. UNCHANGED <<worker, audio, api, events>>
      BY <1>8, Zenon DEF Request, Deliver, Expire
    <3> QED BY <1>8, <3>1 DEF Request, Deliver, Expire, Recorded
  <2> QED BY <1>1, <2>1 DEF WayDown, leftVars
<1> QED BY <1>2, <1>3, <1>4, <1>5, <1>6, <1>7, <1>8, Zenon DEF Talk

(* So does everything else that is not the way down.                        *)
LEMMA OthersOnTheWay ==
    ASSUME LeftTypes, WayDown,
           TreeCue \/ Signal \/ SerialCrashes \/ TreeCrashes \/ VisionCrashes \/ UNCHANGED pvars
    PROVE  WayDown' /\ (stage # "running" => UNCHANGED leftVars)
<1>1. CASE TreeCue \/ Signal \/ UNCHANGED pvars
  <2>1. UNCHANGED leftVars /\ api' = api
    BY <1>1, Zenon DEF TreeCue, Cue, Signal, pvars, vars, mainVars, leftVars
  <2> QED BY <2>1 DEF leftVars, WayDown
<1>2. CASE SerialCrashes
  BY <1>2 DEF SerialCrashes, vars, WayDown
<1>3. CASE TreeCrashes
  BY <1>3 DEF TreeCrashes, vars, WayDown
<1>4. CASE VisionCrashes
  BY <1>4 DEF VisionCrashes, vars, WayDown
<1> QED BY <1>1, <1>2, <1>3, <1>4

(* The steps left are numbers, and those of a part that does not move stay. *)
LEMMA LeftIs ==
    ASSUME LeftTypes
    PROVE  /\ StageLeft \in Nat /\ SerialLeft \in Nat /\ VisionLeft \in Nat
           /\ AudioLeft \in Nat /\ WorkerLeft \in Nat
           /\ One(tree = "running") \in Nat /\ One(camera = "running") \in Nat
BY DEF LeftTypes, StageLeft, SerialLeft, VisionLeft, AudioLeft, WorkerLeft, One

LEMMA LeftStays ==
    /\ stage' = stage => StageLeft' = StageLeft
    /\ serial' = serial => SerialLeft' = SerialLeft
    /\ vision' = vision => VisionLeft' = VisionLeft
    /\ audio' = audio => AudioLeft' = AudioLeft
    /\ worker' = worker => WorkerLeft' = WorkerLeft
    /\ tree' = tree => One(tree = "running")' = One(tree = "running")
    /\ camera' = camera => One(camera = "running")' = One(camera = "running")
BY DEF StageLeft, SerialLeft, VisionLeft, AudioLeft, WorkerLeft, One

(* One step of the way down.                                                *)
LEMMA DownLowers ==
    ASSUME LeftTypes, LeftTypes', WayDown, Down
    PROVE  WayDown' /\ Left' < Left
<1>0. /\ StageLeft \in Nat /\ SerialLeft \in Nat /\ VisionLeft \in Nat
      /\ AudioLeft \in Nat /\ WorkerLeft \in Nat
      /\ One(tree = "running") \in Nat /\ One(camera = "running") \in Nat
  BY LeftIs
<1>1. /\ StageLeft' \in Nat /\ SerialLeft' \in Nat /\ VisionLeft' \in Nat
      /\ AudioLeft' \in Nat /\ WorkerLeft' \in Nat
      /\ One(tree = "running")' \in Nat /\ One(camera = "running")' \in Nat
  BY DEF LeftTypes, StageLeft, SerialLeft, VisionLeft, AudioLeft, WorkerLeft, One
<1>2. CASE Stop
  <2>1. WayDown'
    BY <1>2 DEF Stop, CancelApi, LeftTypes, WayDown
  <2>2. StageLeft' < StageLeft
    BY <1>2 DEF Stop, StageLeft
  <2>3. SerialLeft' <= SerialLeft
    BY <1>2 DEF Stop, LeftTypes, SerialLeft
  <2>4. VisionLeft' <= VisionLeft
    BY <1>2 DEF Stop, LeftTypes, VisionLeft
  <2>5. AudioLeft' <= AudioLeft
    BY <1>2 DEF Stop, LeftTypes, AudioLeft
  <2>6. One(tree = "running")' <= One(tree = "running")
    BY <1>2 DEF Stop, One
  <2>7. WorkerLeft' = WorkerLeft /\ One(camera = "running")' = One(camera = "running")
    BY <1>2, LeftStays DEF Stop
  <2>8. Left' < Left
    BY <1>0, <1>1, <2>2, <2>3, <2>4, <2>5, <2>6, <2>7 DEF Left
  <2> QED BY <2>1, <2>8
<1>3. CASE Parked
  <2>1. UNCHANGED <<stage, tree, vision, camera, worker, audio, api>>
    BY <1>3 DEF Parked, vars
  <2>2. SerialLeft' < SerialLeft
    BY <1>3 DEF Parked, SerialLeft
  <2>3. /\ StageLeft' = StageLeft /\ VisionLeft' = VisionLeft
        /\ AudioLeft' = AudioLeft /\ WorkerLeft' = WorkerLeft
        /\ One(camera = "running")' = One(camera = "running")
        /\ One(tree = "running")' = One(tree = "running")
    BY <2>1, LeftStays
  <2>4. Left' < Left
    BY <1>0, <1>1, <2>2, <2>3 DEF Left
  <2>5. WayDown'
    BY <1>3, <2>1 DEF Parked, WayDown
  <2> QED BY <2>4, <2>5
<1>4. CASE ListenerStops
  <2>1. UNCHANGED <<stage, serial, tree, vision, camera, audio, api>>
    BY <1>4 DEF ListenerStops, mainVars
  <2>2. WorkerLeft' < WorkerLeft
    BY <1>4 DEF ListenerStops, WorkerLeft
  <2>3. /\ StageLeft' = StageLeft /\ SerialLeft' = SerialLeft
        /\ VisionLeft' = VisionLeft /\ AudioLeft' = AudioLeft
        /\ One(camera = "running")' = One(camera = "running")
        /\ One(tree = "running")' = One(tree = "running")
    BY <2>1, LeftStays
  <2>4. Left' < Left
    BY <1>0, <1>1, <2>2, <2>3 DEF Left
  <2>5. WayDown'
    BY <1>4, <2>1 DEF ListenerStops, WayDown
  <2> QED BY <2>4, <2>5
<1>5. CASE AudioEnds
  <2>1. UNCHANGED <<stage, serial, tree, vision, camera, worker, api>>
    BY <1>5 DEF AudioEnds, mainVars
  <2>2. AudioLeft' < AudioLeft
    BY <1>5 DEF AudioEnds, AudioLeft
  <2>3. /\ StageLeft' = StageLeft /\ SerialLeft' = SerialLeft
        /\ VisionLeft' = VisionLeft /\ WorkerLeft' = WorkerLeft
        /\ One(camera = "running")' = One(camera = "running")
        /\ One(tree = "running")' = One(tree = "running")
    BY <2>1, LeftStays
  <2>4. Left' < Left
    BY <1>0, <1>1, <2>2, <2>3 DEF Left
  <2>5. WayDown'
    BY <1>5, <2>1 DEF AudioEnds, WayDown
  <2> QED BY <2>4, <2>5
<1>6. CASE CameraStops
  <2>1. UNCHANGED <<stage, serial, tree, vision, worker, audio, api>>
    BY <1>6 DEF CameraStops, vars
  <2>2. One(camera = "running")' < One(camera = "running")
    BY <1>6 DEF CameraStops, One
  <2>3. /\ StageLeft' = StageLeft /\ SerialLeft' = SerialLeft
        /\ VisionLeft' = VisionLeft /\ AudioLeft' = AudioLeft
        /\ WorkerLeft' = WorkerLeft /\ One(tree = "running")' = One(tree = "running")
    BY <2>1, LeftStays
  <2>4. Left' < Left
    BY <1>0, <1>1, <2>2, <2>3 DEF Left
  <2>5. WayDown'
    BY <1>6, <2>1 DEF CameraStops, WayDown
  <2> QED BY <2>4, <2>5
<1>7. CASE VisionEnds
  <2>1. UNCHANGED <<stage, serial, tree, camera, worker, audio, api>>
    BY <1>7 DEF VisionEnds, vars
  <2>2. VisionLeft' < VisionLeft
    BY <1>7 DEF VisionEnds, VisionLeft
  <2>3. /\ StageLeft' = StageLeft /\ SerialLeft' = SerialLeft
        /\ AudioLeft' = AudioLeft /\ WorkerLeft' = WorkerLeft
        /\ One(camera = "running")' = One(camera = "running")
        /\ One(tree = "running")' = One(tree = "running")
    BY <2>1, LeftStays
  <2>4. Left' < Left
    BY <1>0, <1>1, <2>2, <2>3 DEF Left
  <2>5. WayDown'
    BY <1>7, <2>1 DEF VisionEnds, WayDown
  <2> QED BY <2>4, <2>5
<1>8. CASE Stopped \/ Exit
  <2>1. UNCHANGED <<serial, tree, vision, camera, worker, audio, api>>
    BY <1>8 DEF Stopped, Exit, vars
  <2>2. StageLeft' < StageLeft
    BY <1>8 DEF Stopped, Exit, StageLeft
  <2>3. WayDown'
    BY <1>8, <2>1 DEF Stopped, Exit, WayDown
  <2>4. /\ SerialLeft' = SerialLeft /\ VisionLeft' = VisionLeft
        /\ AudioLeft' = AudioLeft /\ WorkerLeft' = WorkerLeft
        /\ One(tree = "running")' = One(tree = "running")
        /\ One(camera = "running")' = One(camera = "running")
    BY <2>1, LeftStays
  <2>5. Left' < Left
    BY <1>0, <1>1, <2>2, <2>4 DEF Left
  <2> QED BY <2>3, <2>5
<1> QED BY <1>2, <1>3, <1>4, <1>5, <1>6, <1>7, <1>8 DEF Down

(* One step of anything else.                                               *)
LEMMA OthersLower ==
    ASSUME LeftTypes, LeftTypes', WayDown, stage # "running",
           (Talk /\ UNCHANGED mainVars) \/ TreeCue \/ Signal \/ SerialCrashes \/ TreeCrashes
             \/ VisionCrashes \/ UNCHANGED pvars
    PROVE  Left' <= Left /\ (Recorded => Left' < Left)
<1> USE LeftIs, LeftStays
<1>1. UNCHANGED leftVars => Left' = Left
  BY DEF leftVars, Left
<1>2. CASE Talk /\ UNCHANGED mainVars
  <2>1. \/ UNCHANGED leftVars /\ api' = api
        \/ /\ worker' # worker /\ UNCHANGED <<audio, api>>
           /\ worker = "listening" \/ worker' = "dead"
    BY <1>2, TalkOnTheWay
  <2>2. Recorded => worker = "recording" /\ worker' = "dead"
    BY <1>2, TalkOnTheWay
  <2>3. worker' # worker /\ (worker = "listening" \/ worker' = "dead") => WorkerLeft' < WorkerLeft
    BY DEF LeftTypes, WorkerLeft
  <2>4. ASSUME worker' # worker, UNCHANGED audio, WorkerLeft' < WorkerLeft PROVE Left' < Left
    <3>1. WorkerLeft' \in Nat
      BY DEF LeftTypes, WorkerLeft
    <3> QED BY <1>2, <2>4, <3>1 DEF mainVars, Left
  <2>5. Left \in Nat
    BY DEF Left
  <2>6. CASE UNCHANGED leftVars
    BY <1>1, <2>2, <2>5, <2>6 DEF leftVars
  <2>7. CASE worker' # worker /\ UNCHANGED audio /\ (worker = "listening" \/ worker' = "dead")
    <3>1. Left' < Left
      BY <2>3, <2>4, <2>7
    <3>2. Left' \in Nat
      BY DEF LeftTypes, Left, StageLeft, SerialLeft, VisionLeft, AudioLeft, WorkerLeft, One
    <3> QED BY <2>5, <3>1, <3>2
  <2> QED BY <2>1, <2>6, <2>7
<1>3. CASE TreeCue \/ Signal \/ SerialCrashes \/ TreeCrashes \/ VisionCrashes \/ UNCHANGED pvars
  <2>1. UNCHANGED leftVars
    BY <1>3, OthersOnTheWay
  <2>2. ~Recorded
    <3> SUFFICES ASSUME Recorded PROVE FALSE
      OBVIOUS
    <3>1. worker' = worker
      BY <2>1 DEF leftVars
    <3> QED BY <3>1 DEF Recorded
  <2>3. Left \in Nat
    BY DEF Left
  <2> QED BY <1>1, <2>1, <2>2, <2>3
<1> QED BY <1>2, <1>3

(* What every state of the program knows of its way down.                   *)
LEMMA AlwaysOnTheWay == ProgramSpec => [](LeftTypes /\ WayDown)
<1>1. SpeechInv /\ ProgramTypeOK => LeftTypes
  BY Zenon DEF SpeechInv, Working, ProgramTypeOK, TypeOK, LeftTypes
<1>2. ProgramInit => WayDown
  BY DEF ProgramInit, Init, WayDown
<1>3. LeftTypes /\ LeftTypes' /\ WayDown /\ [ProgramNext]_pvars => WayDown'
  <2> SUFFICES ASSUME LeftTypes, LeftTypes', WayDown, [ProgramNext]_pvars PROVE WayDown'
    OBVIOUS
  <2>1. CASE Talk /\ UNCHANGED mainVars
    BY <2>1, TalkOnTheWay
  <2>2. CASE TreeCue \/ Signal \/ SerialCrashes \/ TreeCrashes \/ VisionCrashes
               \/ UNCHANGED pvars
    BY <2>2, OthersOnTheWay
  <2>3. CASE Down
    BY <2>3, DownLowers
  <2> QED BY <2>1, <2>2, <2>3, Zenon DEF ProgramNext
<1> QED BY <1>1, <1>2, <1>3, SpeechInvariant, ProgramTypes, PTL DEF ProgramSpec

(* The guards of the steps that ProgramFairSpec wants for the way down.     *)
CanEnd ==
    \/ stage = "running" /\ shutdown                                \* Stop
    \/ serial = "parking"                                           \* Parked
    \/ audio = "stopping" /\ worker \in {"listening", "recording", "dead"}
                                        \* ListenerStops, Recorded or AudioEnds
    \/ vision # "running" /\ camera = "running"                     \* CameraStops
    \/ vision = "waiting"                                           \* VisionEnds
    \/ /\ stage = "stopping" /\ serial = "ended" /\ tree = "ended"  \* Stopped
       /\ vision = "ended" /\ audio = "dead" /\ api = "dead"
    \/ stage = "stopped" /\ camera = "ended"                        \* Exit

(* A program that was told to stop never waits for nothing: in main's       *)
(* stages, as long as asyncio.run has not returned, some task or thread can *)
(* take a step towards the end, whatever had crashed before.                *)
THEOREM ShutdownNeverStuck == ProgramSpec => [](shutdown /\ stage # "exited" => CanEnd)
<1>1. LeftTypes /\ WayDown => (shutdown /\ stage # "exited" => CanEnd)
  BY DEF LeftTypes, WayDown, CanEnd
<1> QED BY <1>1, AlwaysOnTheWay, PTL

(* Once main has cancelled its tasks nothing comes back: no step of anyone  *)
(* adds to what is left to end, each step of the way down takes some of it  *)
(* away, and so does the last recording of the microphone.                  *)
THEOREM ShutdownProgresses ==
    ProgramSpec => [][/\ Down => Left' < Left
                      /\ stage # "running" => Left' <= Left /\ (Recorded => Left' < Left)]_pvars
<1>1. ASSUME LeftTypes, LeftTypes', WayDown, [ProgramNext]_pvars
      PROVE  [/\ Down => Left' < Left
              /\ stage # "running" => Left' <= Left /\ (Recorded => Left' < Left)]_pvars
  <2>1. Down => Left' < Left
    BY <1>1, DownLowers
  <2>2. ASSUME stage # "running" PROVE Left' <= Left /\ (Recorded => Left' < Left)
    <3>1. CASE Down
      <4>1. Left' \in Nat /\ Left \in Nat
        BY <1>1 DEF LeftTypes, Left, StageLeft, SerialLeft, VisionLeft, AudioLeft, WorkerLeft, One
      <4> QED BY <2>1, <3>1, <4>1
    <3>2. CASE ~Down
      <4>1. \/ Talk /\ UNCHANGED mainVars
            \/ TreeCue \/ Signal \/ SerialCrashes \/ TreeCrashes \/ VisionCrashes \/ UNCHANGED pvars
        BY <1>1, <3>2, Zenon DEF ProgramNext
      <4> QED BY <1>1, <2>2, <4>1, OthersLower
    <3> QED BY <3>1, <3>2
  <2> QED BY <2>1, <2>2
<1>2. /\ LeftTypes /\ WayDown /\ (LeftTypes /\ WayDown)' /\ [ProgramNext]_pvars
      => [/\ Down => Left' < Left
          /\ stage # "running" => Left' <= Left /\ (Recorded => Left' < Left)]_pvars
  BY <1>1
<1> QED BY <1>2, AlwaysOnTheWay, PTL DEF ProgramSpec

=============================================================================
