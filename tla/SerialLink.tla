----------------------------- MODULE SerialLink -----------------------------
(***************************************************************************)
(* The serial task: serial_module.py.  The event loop owns the command     *)
(* queue and the phase of serial_task; one worker thread at a time writes  *)
(* a command and reads lines until its answer; the lines it reads reach    *)
(* the loop through call_soon_threadsafe, in order, before the worker's    *)
(* result does.  The controller at the other end of the cable executes     *)
(* what was written and may answer, stay silent, speak up or reboot.       *)
(*                                                                         *)
(* Commands are letters.  A flag that no guard reads follows each of them: *)
(* "old" marks a command queued before the Pi knew of the controller's     *)
(* latest boot.  Timeouts may strike at any moment.                        *)
(***************************************************************************)
EXTENDS Naturals, Sequences

CONSTANTS
    Letters,    \* the commands the rest of the program may queue; "E" is the E-stop
    QueueMax,   \* maxsize of the command queue (200)
    WireMax     \* commands or lines under way in one direction (bound of the model)

ASSUME SerialLinkAssumption ==
    /\ "E" \in Letters /\ "P" \notin Letters
    /\ QueueMax \in Nat \ {0} /\ WireMax \in Nat \ {0}

VARIABLES
    phase,     \* where serial_task is
    queue,     \* command_queue
    inflight,  \* the letter of the command the worker sent, <<>> or one
    reply,     \* the worker's result: <<>> (timeout, no banner) or one line
    inbox,     \* how many lines were handed to the loop and not yet handled
    parkLeft,  \* park commands not yet written
    orphan,    \* a worker abandoned by the cancellation: the letter it waits for, or "none"
    parkOk,    \* the port worked while parking
    downlink,  \* commands written, not yet executed
    uplink,    \* lines sent by the controller, not yet read
    legs,      \* the controller drives its servos
    known      \* the Pi has handled the controller's latest boot

loopVars == <<phase, queue, inflight, reply, parkLeft, parkOk>>
wireVars == <<downlink, uplink, legs>>
vars == <<loopVars, inbox, orphan, wireVars, known>>

Phases == {"closed", "waiting", "banner", "idle", "sending", "answered", "parking", "parkWait",
           "stopped"}
AllLetters == Letters \cup {"P", "O", "W"}
Items == [cmd : AllLetters, old : BOOLEAN]
Lines == [kind : {"ACK", "NACK"}, cmd : AllLetters] \cup [kind : {"EVT", "READY"}, cmd : {"none"}]

Ready == [kind |-> "READY", cmd |-> "none"]
Event == [kind |-> "EVT", cmd |-> "none"]
Item(c) == [cmd |-> c, old |-> ~known]
Fresh(c) == [cmd |-> c, old |-> FALSE]

\* Faulty variant: the walk is stopped, the servos stay on.
ParkCommandsStop == <<"W">>

ParkCommands == <<"W", "O">>

Init ==
    /\ phase = "closed" /\ queue = <<>> /\ inflight = <<>> /\ reply = <<>> /\ inbox = 0
    /\ parkLeft = ParkCommands /\ parkOk = TRUE /\ orphan = "none"
    /\ downlink = <<>> /\ uplink = <<>> /\ legs = FALSE /\ known = FALSE

-----------------------------------------------------------------------------
(* The producers (offer, offer_urgent); they are cancelled with the task.   *)

Closing == phase \in {"parking", "parkWait", "stopped"}

\* Faulty variant: a full queue grows.
OfferUnbounded(c) ==
    /\ ~Closing
    /\ queue' = Append(queue, Item(c))
    /\ UNCHANGED <<phase, inflight, reply, parkLeft, parkOk, inbox, orphan, wireVars, known>>

Offer(c) ==
    /\ ~Closing
    /\ queue' = Append(IF Len(queue) = QueueMax THEN Tail(queue) ELSE queue, Item(c))
    /\ UNCHANGED <<phase, inflight, reply, parkLeft, parkOk, inbox, orphan, wireVars, known>>

OfferUrgent ==
    /\ ~Closing
    /\ queue' = <<Item("E")>>
    /\ UNCHANGED <<phase, inflight, reply, parkLeft, parkOk, inbox, orphan, wireVars, known>>

-----------------------------------------------------------------------------
(* Opening the port and waiting for the banner.                             *)

Aged(items) == [i \in 1..Len(items) |-> [items[i] EXCEPT !.old = TRUE]]

(* A boot of the controller, which forgets what it had received.            *)
Boots(lines) ==
    /\ downlink' = <<>> /\ legs' = FALSE /\ known' = FALSE
    /\ uplink' = Append(lines, Ready)
    /\ queue' = Aged(queue)

(* Opening the port flushes its input and resets a USB-attached board, not  *)
(* one on the GPIO UART.                                                    *)
Open ==
    /\ phase = "closed"
    /\ phase' = "waiting"
    /\ \/ Boots(<<>>)
       \/ uplink' = <<>> /\ UNCHANGED <<downlink, legs, known, queue>>
    /\ UNCHANGED <<inflight, reply, parkLeft, parkOk, inbox, orphan>>

(* wait_for_ready: everything before the banner is thrown away, and what    *)
(* already follows it is flushed.                                           *)
WaitLine ==
    /\ phase = "waiting" /\ uplink # <<>>
    /\ IF Head(uplink) = Ready
       THEN phase' = "banner" /\ reply' = <<Ready>> /\ uplink' = <<>>
       ELSE uplink' = Tail(uplink) /\ UNCHANGED <<phase, reply>>
    /\ UNCHANGED <<queue, inflight, parkLeft, parkOk, inbox, orphan, downlink, legs, known>>

WaitTimeout ==
    /\ phase = "waiting"
    /\ phase' = "banner" /\ reply' = <<>>
    /\ UNCHANGED <<queue, inflight, parkLeft, parkOk, inbox, orphan, wireVars, known>>

\* Faulty variant: the backlog is kept.
KeepPending == UNCHANGED queue

(* discard_pending; on_connect runs right after it.                         *)
DiscardPending == queue' = <<>>

BannerUnderWay == \E i \in 1..Len(uplink) : uplink[i] = Ready

Connect ==
    /\ phase = "banner"
    /\ DiscardPending
    /\ known' = ~BannerUnderWay
    /\ phase' = "idle" /\ reply' = <<>>
    /\ UNCHANGED <<inflight, parkLeft, parkOk, inbox, orphan, wireVars>>

-----------------------------------------------------------------------------
(* One command after the other.                                             *)

Send(item) ==
    /\ Len(downlink) < WireMax
    /\ inflight' = <<item.cmd>> /\ downlink' = Append(downlink, item)
    /\ phase' = "sending"
    /\ UNCHANGED <<reply, parkLeft, parkOk, inbox, orphan, uplink, legs, known>>

\* Faulty variant: a command is taken from the queue when it is answered.
TakeKeeping ==
    /\ phase = "idle" /\ queue # <<>>
    /\ Send(Head(queue))
    /\ UNCHANGED queue

Take ==
    /\ phase = "idle" /\ queue # <<>>
    /\ queue' = Tail(queue)
    /\ Send(Head(queue))

Ping ==
    /\ phase = "idle" /\ queue = <<>>
    /\ Send(Fresh("P"))
    /\ UNCHANGED queue

(* is_reply_to, and the banner of a controller that rebooted meanwhile.     *)
IsReplyTo(c, line) == line.kind \in {"ACK", "NACK"} /\ line.cmd = c

\* Faulty variant: a banner is passed on, but does not end the wait.
AnswersReplyOnly(line, c) == IsReplyTo(c, line)

Answers(line, c) == line = Ready \/ IsReplyTo(c, line)

ReadLine ==
    /\ phase = "sending" /\ uplink # <<>> /\ inbox < WireMax
    /\ inbox' = inbox + 1 /\ uplink' = Tail(uplink)
    /\ IF Answers(Head(uplink), inflight[1])
       THEN phase' = "answered" /\ reply' = <<Head(uplink)>>
       ELSE UNCHANGED <<phase, reply>>
    /\ UNCHANGED <<queue, inflight, parkLeft, parkOk, orphan, downlink, legs, known>>

(* The command gets no answer in time; one that comes later is read by the  *)
(* wait for the next command, which knows its own answer by the letter only.*)
Timeout ==
    /\ phase = "sending"
    /\ phase' = "answered" /\ reply' = <<>>
    /\ UNCHANGED <<queue, inflight, parkLeft, parkOk, inbox, orphan, wireVars, known>>

(* The loop runs on_line for a forwarded line.                              *)
HandleLine ==
    /\ inbox > 0
    /\ inbox' = inbox - 1
    /\ UNCHANGED <<loopVars, orphan, wireVars, known>>

(* serial_task goes on after the worker's result.                           *)
Resume ==
    /\ phase = "answered" /\ inbox = 0
    /\ phase' = "idle" /\ inflight' = <<>> /\ reply' = <<>>
    /\ IF reply = <<Ready>>
       THEN DiscardPending /\ known' = ~BannerUnderWay
       ELSE UNCHANGED <<queue, known>>
    /\ UNCHANGED <<parkLeft, parkOk, inbox, orphan, wireVars>>

(* SerialException: what the controller has received it may still execute;  *)
(* what it answered is lost with the port.                                  *)
PortFails ==
    /\ phase \in {"waiting", "sending"}
    /\ phase' = "closed" /\ inflight' = <<>> /\ reply' = <<>>
    /\ downlink' \in {downlink, <<>>} /\ uplink' = <<>>
    /\ UNCHANGED <<queue, parkLeft, parkOk, inbox, orphan, legs, known>>

-----------------------------------------------------------------------------
(* Shutdown.  Cancelling serial_task abandons a running worker: its thread  *)
(* goes on reading while park's own worker writes and reads.                *)

Cancel ==
    /\ ~Closing
    /\ phase' = IF phase = "closed" THEN "stopped" ELSE "parking"
    /\ orphan' = CASE phase = "sending" -> inflight[1]
                   [] phase = "waiting" -> "READY"
                   [] OTHER -> "none"
    /\ inflight' = <<>> /\ reply' = <<>>
    /\ UNCHANGED <<queue, parkLeft, parkOk, inbox, wireVars, known>>

Park ==
    /\ phase = "parking"
    /\ IF parkLeft = <<>> THEN phase' = "stopped" /\ UNCHANGED <<parkLeft, downlink>>
       ELSE /\ downlink' = Append(downlink, Fresh(Head(parkLeft)))
            /\ parkLeft' = Tail(parkLeft) /\ phase' = "parkWait"
    /\ UNCHANGED <<queue, inflight, reply, parkOk, inbox, orphan, uplink, legs, known>>

(* The letter park waits for in parkWait.                                   *)
Parked == ParkCommands[Len(ParkCommands) - Len(parkLeft)]

ParkRead ==
    /\ phase = "parkWait" /\ uplink # <<>> /\ inbox < WireMax
    /\ inbox' = inbox + 1 /\ uplink' = Tail(uplink)
    /\ phase' = IF Answers(Head(uplink), Parked) THEN "parking" ELSE phase
    /\ UNCHANGED <<queue, inflight, reply, parkLeft, parkOk, orphan, downlink, legs, known>>

ParkTimeout ==
    /\ phase = "parkWait"
    /\ phase' = "parking"
    /\ UNCHANGED <<queue, inflight, reply, parkLeft, parkOk, inbox, orphan, wireVars, known>>

ParkFails ==
    /\ phase = "parkWait"
    /\ phase' = "stopped" /\ parkOk' = FALSE
    /\ UNCHANGED <<queue, inflight, reply, parkLeft, inbox, orphan, wireVars, known>>

OrphanRead ==
    /\ orphan # "none" /\ uplink # <<>> /\ inbox < WireMax
    /\ uplink' = Tail(uplink)
    /\ inbox' = IF orphan = "READY" THEN inbox ELSE inbox + 1
    /\ orphan' = IF Answers(Head(uplink), orphan) THEN "none" ELSE orphan
    /\ UNCHANGED <<loopVars, downlink, legs, known>>

OrphanEnds ==
    /\ orphan # "none"
    /\ orphan' = "none"
    /\ UNCHANGED <<loopVars, inbox, wireVars, known>>

-----------------------------------------------------------------------------
(* The controller.                                                          *)

(* S may power the legs, O and E switch them off; the answer may get lost.  *)
Execute ==
    /\ downlink # <<>>
    /\ downlink' = Tail(downlink)
    /\ LET c == Head(downlink).cmd
       IN  /\ legs' \in CASE c = "S" -> {legs, TRUE}
                         [] c \in {"O", "E"} -> {FALSE}
                         [] OTHER -> {legs}
           /\ \/ UNCHANGED uplink
              \/ /\ Len(uplink) < WireMax
                 /\ \E kind \in {"ACK", "NACK"} :
                      uplink' = Append(uplink, [kind |-> kind, cmd |-> c])
    /\ UNCHANGED <<loopVars, inbox, orphan, known>>

Report ==
    /\ Len(uplink) < WireMax
    /\ uplink' = Append(uplink, Event)
    /\ UNCHANGED <<loopVars, inbox, orphan, downlink, legs, known>>

Reboot ==
    /\ Len(uplink) < WireMax
    /\ Boots(uplink)
    /\ UNCHANGED <<phase, inflight, reply, parkLeft, parkOk, inbox, orphan>>

-----------------------------------------------------------------------------
Producer == OfferUrgent \/ \E c \in Letters \ {"E"} : Offer(c)
Task == \/ Open \/ WaitLine \/ WaitTimeout \/ Connect \/ Take \/ Ping \/ ReadLine \/ Timeout
        \/ HandleLine \/ Resume
Shutdown == Cancel \/ Park \/ ParkRead \/ ParkTimeout \/ ParkFails \/ OrphanRead \/ OrphanEnds
Controller == Execute \/ Report \/ Reboot

(* The task is over.                                                        *)
Ended == phase = "stopped" /\ UNCHANGED vars

Next == Producer \/ Task \/ PortFails \/ Shutdown \/ Controller \/ Ended

Spec == Init /\ [][Next]_vars

(* The event loop and the worker go on; a line that has arrived is read     *)
(* before a deadline 0.3 s away passes, at least once in a while; the       *)
(* controller works off what it received.                                   *)
FairSpec == /\ Spec /\ WF_vars(Task) /\ WF_vars(WaitTimeout) /\ SF_vars(ReadLine)
            /\ WF_vars(Execute)

-----------------------------------------------------------------------------
(* Types, the limit of the queue, and one command at a time.                *)
TypeOK ==
    /\ phase \in Phases /\ orphan \in AllLetters \cup {"none", "READY"}
    /\ queue \in Seq(Items) /\ Len(queue) <= QueueMax
    /\ inflight \in Seq(AllLetters) /\ Len(inflight) <= 1
    /\ (phase = "sending") => inflight # <<>>
    /\ reply \in Seq(Lines) /\ Len(reply) <= 1
    /\ inbox \in 0..WireMax /\ uplink \in Seq(Lines) /\ downlink \in Seq(Items)
    /\ parkLeft \in Seq(AllLetters)
    /\ {parkOk, legs, known} \subseteq BOOLEAN

(* Once the Pi has handled a boot of the controller, nothing that was meant *)
(* for the controller before that boot is in the queue any more.            *)
BacklogIsFresh == known => \A i \in 1..Len(queue) : ~queue[i].old

(* The commands under way, in the order of the queue: those written come    *)
(* first, and a task that is being cancelled gives up its queue.            *)
CommandsOf(items) == [i \in 1..Len(items) |-> items[i].cmd]

Waiting == CommandsOf(downlink) \o IF Closing THEN <<>> ELSE CommandsOf(queue)

Channel == INSTANCE CommandChannel
           WITH Commands <- AllLetters, pending <- Waiting, powered <- legs

(* Through timeouts, late answers, resets, lost ports and the shutdown, no  *)
(* command overtakes another and none runs twice: SerialLink implements     *)
(* CommandChannel.                                                          *)
ChannelSpec == Channel!Spec

(* README.md: "When the Pi software exits, it stops any walk and switches   *)
(* the servos off first": if the port worked to the end, the servos are off *)
(* once the controller has executed what it was sent, whatever was in       *)
(* flight when the task was cancelled.                                      *)
ParkedAtExit == phase = "stopped" /\ parkLeft = <<>> /\ parkOk /\ downlink = <<>> => ~legs

(* A boot of the controller does not go unnoticed: unless the controller    *)
(* boots for ever, the Pi handles it or loses the port.                     *)
ResetNoticed == <>[][~Reboot]_vars => [](~known => <>(known \/ phase = "closed" \/ Closing))

=============================================================================
