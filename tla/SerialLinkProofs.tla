-------------------------- MODULE SerialLinkProofs --------------------------
(***************************************************************************)
(* Proofs about SerialLink, for every set of letters and every bound: its  *)
(* types and the limit of its queue, that the backlog is fresh, that the   *)
(* servos are off after parking, that no boot of the controller is lost    *)
(* sight of, and that it implements CommandChannel.                        *)
(***************************************************************************)
EXTENDS SerialLink, SequenceTheorems, TLAPS

(* What is queued or written is a command with its flag.                    *)
LEMMA ItemTypes ==
    ASSUME NEW c \in AllLetters, known \in BOOLEAN
    PROVE  Item(c) \in Items /\ Fresh(c) \in Items
<1>1. (~known) \in {TRUE, FALSE}
  <2>1. CASE known = TRUE
    BY <2>1
  <2>2. CASE known = FALSE
    BY <2>2
  <2> QED BY <2>1, <2>2
<1> QED BY <1>1, Zenon DEF Item, Fresh, Items

(* The letter of a command.                                                 *)
LEMMA ItemParts ==
    ASSUME NEW item \in Items
    PROVE  item.cmd \in AllLetters
BY DEF Items

(* The lines the controller sends.                                          *)
LEMMA LineTypes ==
    /\ Ready \in Lines /\ Event \in Lines
    /\ \A kind \in {"ACK", "NACK"}, c \in AllLetters : [kind |-> kind, cmd |-> c] \in Lines
BY DEF Ready, Event, Lines

(* A boot marks what is queued, and leaves the commands as they are.        *)
LEMMA AgedTypes ==
    ASSUME NEW items \in Seq(Items)
    PROVE  /\ Aged(items) \in Seq(Items) /\ Len(Aged(items)) = Len(items)
           /\ \A i \in 1..Len(items) : Aged(items)[i].cmd = items[i].cmd
<1>1. ASSUME NEW item \in Items
      PROVE  [item EXCEPT !.old = TRUE] \in Items /\ [item EXCEPT !.old = TRUE].cmd = item.cmd
  BY <1>1 DEF Items
<1>2. \A i \in 1..Len(items) : items[i] \in Items
  OBVIOUS
<1>3. \A i \in 1..Len(items) : /\ [items[i] EXCEPT !.old = TRUE] \in Items
                                /\ [items[i] EXCEPT !.old = TRUE].cmd = items[i].cmd
  BY <1>1, <1>2
<1>4. Aged(items) \in [1..Len(items) -> Items] /\ Len(items) \in Nat
  BY <1>3 DEF Aged
<1>5. Aged(items) \in Seq(Items) /\ Len(Aged(items)) = Len(items)
  BY <1>4
<1>6. ASSUME NEW i \in 1..Len(items) PROVE Aged(items)[i].cmd = items[i].cmd
  BY <1>3, <1>6, Zenon DEF Aged
<1> QED BY <1>5, <1>6

(* The commands of the producers, the ping and the park commands.           *)
LEMMA LettersKnown ==
    /\ \A c \in Letters : c \in AllLetters
    /\ "P" \in AllLetters /\ "O" \in AllLetters /\ "W" \in AllLetters
BY DEF AllLetters

-----------------------------------------------------------------------------
(* What of TypeOK is not a flag.                                            *)
Shapes ==
    /\ phase \in Phases /\ orphan \in AllLetters \cup {"none", "READY"}
    /\ queue \in Seq(Items) /\ Len(queue) <= QueueMax
    /\ inflight \in Seq(AllLetters) /\ Len(inflight) <= 1
    /\ (phase = "sending") => inflight # <<>>
    /\ reply \in Seq(Lines) /\ Len(reply) <= 1
    /\ inbox \in 0..WireMax /\ uplink \in Seq(Lines) /\ downlink \in Seq(Items)
    /\ parkLeft \in Seq(AllLetters)

(* What of it is a flag.                                                    *)
Flags == {parkOk, legs, known} \subseteq BOOLEAN

(* The two halves of the type invariant.                                    *)
LEMMA TypeParts == TypeOK <=> Shapes /\ Flags
BY DEF TypeOK, Shapes, Flags

(* What Append makes is a sequence over the same set.                       *)
LEMMA Grows ==
    ASSUME NEW S, NEW seq \in Seq(S)
    PROVE  \A x \in S : Append(seq, x) \in Seq(S)
OBVIOUS

(* A sequence of one.                                                       *)
LEMMA Single ==
    ASSUME NEW S, NEW x \in S
    PROVE  <<x>> \in Seq(S) /\ Len(<<x>>) <= 1
OBVIOUS

(* The empty sequence has every type and breaks no limit.                   *)
LEMMA Empty ==
    /\ <<>> \in Seq(Items) /\ <<>> \in Seq(Lines) /\ <<>> \in Seq(AllLetters)
    /\ Len(<<>>) <= 1 /\ Len(<<>>) <= QueueMax
BY SerialLinkAssumption

(* A boot keeps the types of the sequences.                                 *)
LEMMA BootsTypes ==
    ASSUME Shapes, NEW lines \in Seq(Lines), Boots(lines)
    PROVE  /\ downlink' = <<>> /\ uplink' \in Seq(Lines)
           /\ queue' \in Seq(Items) /\ Len(queue') = Len(queue)
<1>1. downlink' = <<>> /\ uplink' = Append(lines, Ready) /\ queue' = Aged(queue)
  BY Zenon DEF Boots
<1> QED BY <1>1, AgedTypes, LineTypes DEF Shapes

(* The types hold when the task is created.                                 *)
LEMMA InitTypes == Init => Shapes /\ Flags
<1> SUFFICES ASSUME Init PROVE Shapes /\ Flags
  OBVIOUS
<1>1. Shapes
  BY LettersKnown, SerialLinkAssumption DEF Init, Shapes, Phases, ParkCommands
<1>2. Flags
  BY Zenon DEF Init, Flags
<1> QED BY <1>1, <1>2

(* The producers keep the types, and the queue its limit.                   *)
LEMMA ProducerTypes ==
    ASSUME Shapes, Flags, Producer
    PROVE  Shapes' /\ Flags'
<1>1. \A c \in AllLetters : Item(c) \in Items
  BY ItemTypes DEF Flags
<1>2. CASE OfferUrgent
  <2>1. queue' = <<Item("E")>> /\ Item("E") \in Items
    BY <1>1, <1>2, LettersKnown, SerialLinkAssumption DEF OfferUrgent
  <2>2. UNCHANGED <<phase, inflight, reply, parkLeft, inbox, orphan, downlink, uplink>>
    BY <1>2 DEF OfferUrgent, wireVars
  <2>3. Shapes'
    BY <2>1, <2>2, SerialLinkAssumption DEF Shapes
  <2>4. Flags'
    BY <1>2, Zenon DEF OfferUrgent, wireVars, Flags
  <2> QED BY <2>3, <2>4
<1>3. ASSUME NEW c \in Letters \ {"E"}, Offer(c) PROVE Shapes' /\ Flags'
  <2>1. Item(c) \in Items
    BY <1>1, LettersKnown
  <2>2. queue' = Append(IF Len(queue) = QueueMax THEN Tail(queue) ELSE queue, Item(c))
    BY <1>3 DEF Offer
  <2>3. UNCHANGED <<phase, inflight, reply, parkLeft, inbox, orphan, downlink, uplink>>
    BY <1>3 DEF Offer, wireVars
  <2>4. queue' \in Seq(Items) /\ Len(queue') <= QueueMax
    <3> HIDE DEF Item
    <3>1. CASE Len(queue) = QueueMax
      <4>1. Tail(queue) \in Seq(Items) /\ Len(Tail(queue)) = QueueMax - 1
        BY <3>1, SerialLinkAssumption DEF Shapes
      <4> QED BY <2>1, <2>2, <3>1, <4>1, SerialLinkAssumption
    <3>2. CASE Len(queue) # QueueMax
      BY <2>1, <2>2, <3>2, SerialLinkAssumption DEF Shapes
    <3> QED BY <3>1, <3>2
  <2>5. Shapes'
    BY <2>3, <2>4 DEF Shapes
  <2>6. Flags'
    BY <1>3, Zenon DEF Offer, wireVars, Flags
  <2> QED BY <2>5, <2>6
<1> QED BY <1>2, <1>3 DEF Producer

(* So do the steps of serial_task and its worker,                           *)
LEMMA TaskTypes ==
    ASSUME Shapes, Flags, Task
    PROVE  Shapes' /\ Flags'
<1>1. Fresh("P") \in Items
  BY ItemTypes, LettersKnown DEF Flags
<1>2. CASE Open
  <2>1. UNCHANGED <<inflight, reply, parkLeft, inbox, orphan>> /\ phase' = "waiting"
    BY <1>2 DEF Open
  <2>2. CASE Boots(<<>>)
    <3>1. downlink' = <<>> /\ uplink' \in Seq(Lines) /\ queue' \in Seq(Items)
          /\ Len(queue') = Len(queue)
      <4>1. <<>> \in Seq(Lines)
        OBVIOUS
      <4> QED BY <2>2, <4>1, BootsTypes, Zenon
    <3>2. Shapes'
      BY <2>1, <3>1 DEF Shapes, Phases
    <3>3. Flags'
      BY <1>2, <2>2, Zenon DEF Open, Boots, Flags
    <3> QED BY <3>3, <3>2
  <2>3. CASE uplink' = <<>> /\ UNCHANGED <<downlink, legs, known, queue>>
    <3>1. UNCHANGED <<downlink, queue>>
      BY <2>3, Zenon
    <3>2. Shapes'
      BY <2>1, <2>3, <3>1 DEF Shapes, Phases
    <3>3. Flags'
      BY <1>2, <2>3, Zenon DEF Open, Flags
    <3> QED BY <3>2, <3>3
  <2> QED BY <1>2, <2>2, <2>3 DEF Open
<1>3. CASE WaitLine
  <2>1. UNCHANGED <<queue, inflight, parkLeft, inbox, orphan, downlink>>
    BY <1>3, Zenon DEF WaitLine
  <2>2. \/ phase' = "banner" /\ reply' = <<Ready>> /\ uplink' = <<>>
        \/ uplink' = Tail(uplink) /\ phase' = phase /\ reply' = reply
    BY <1>3, Zenon DEF WaitLine
  <2>3. Tail(uplink) \in Seq(Lines) /\ Ready \in Lines
    BY <1>3, LineTypes, HeadTailProperties, Zenon DEF WaitLine, Shapes
  <2>4. phase' \in Phases /\ phase' # "sending"
    BY <1>3, <2>2 DEF WaitLine, Phases
  <2>5. reply' \in Seq(Lines) /\ Len(reply') <= 1 /\ uplink' \in Seq(Lines)
    BY <2>2, <2>3, Empty, Single, Zenon DEF Shapes
  <2>6. Shapes'
    BY <2>1, <2>4, <2>5, Zenon DEF Shapes
  <2>7. Flags'
    BY <1>3, Zenon DEF WaitLine, Flags
  <2> QED BY <2>6, <2>7
<1>4. CASE WaitTimeout
  <2>1. Shapes'
    BY <1>4 DEF WaitTimeout, Shapes, Phases, wireVars
  <2>2. Flags'
    BY <1>4, Zenon DEF WaitTimeout, Flags, wireVars
  <2> QED BY <2>1, <2>2
<1>5. CASE Connect
  <2>1. phase' = "idle" /\ reply' = <<>> /\ queue' = <<>>
    BY <1>5, Zenon DEF Connect, DiscardPending
  <2>2. UNCHANGED <<inflight, parkLeft, inbox, orphan, downlink, uplink>>
    BY <1>5, Zenon DEF Connect, wireVars
  <2>3. Shapes'
    BY <2>1, <2>2, SerialLinkAssumption DEF Shapes, Phases
  <2>4. known' \in BOOLEAN
    BY <1>5 DEF Connect
  <2>5. Flags'
    BY <1>5, <2>4, Zenon DEF Connect, wireVars, Flags
  <2> QED BY <2>3, <2>5
<1>6. ASSUME NEW item \in Items, Send(item), queue' \in Seq(Items), Len(queue') <= QueueMax
      PROVE  Shapes' /\ Flags'
  <2>1. UNCHANGED <<reply, parkLeft, inbox, orphan, uplink>>
    BY <1>6, Zenon DEF Send
  <2>2. Shapes'
    BY <1>6, <2>1, ItemParts DEF Send, Shapes, Phases
  <2>3. Flags'
    BY <1>6, Zenon DEF Send, Flags
  <2> QED BY <2>2, <2>3
<1>7. CASE Take
  <2>1. Head(queue) \in Items /\ Tail(queue) \in Seq(Items) /\ Len(Tail(queue)) <= QueueMax
    BY <1>7, SerialLinkAssumption DEF Take, Shapes
  <2> QED BY <1>6, <1>7, <2>1 DEF Take
<1>8. CASE Ping
  BY <1>1, <1>6, <1>8 DEF Ping, Shapes
<1>9. CASE ReadLine
  <2>1. UNCHANGED <<queue, inflight, parkLeft, orphan, downlink>>
    BY <1>9, Zenon DEF ReadLine
  <2>2. uplink # <<>> /\ uplink' = Tail(uplink) /\ inbox < WireMax /\ inbox' = inbox + 1
    BY <1>9 DEF ReadLine
  <2>3. \/ phase' = "answered" /\ reply' = <<Head(uplink)>>
        \/ phase' = phase /\ reply' = reply
    BY <1>9, Zenon DEF ReadLine
  <2>4. Tail(uplink) \in Seq(Lines) /\ Head(uplink) \in Lines
    BY <2>2, HeadTailProperties, Zenon DEF Shapes
  <2>5. phase' \in Phases /\ (phase' = "sending" => phase = "sending")
    BY <2>3 DEF Shapes, Phases
  <2>6. reply' \in Seq(Lines) /\ Len(reply') <= 1 /\ uplink' \in Seq(Lines)
    BY <2>2, <2>3, <2>4, Single, Zenon DEF Shapes
  <2>7. inbox' \in 0..WireMax
    BY <2>2, SerialLinkAssumption DEF Shapes
  <2>8. Shapes'
    BY <2>1, <2>5, <2>6, <2>7, Zenon DEF Shapes
  <2>9. Flags'
    BY <1>9, Zenon DEF ReadLine, Flags
  <2> QED BY <2>8, <2>9
<1>10. CASE Timeout
  <2>1. Shapes'
    BY <1>10 DEF Timeout, Shapes, Phases, wireVars
  <2>2. Flags'
    BY <1>10, Zenon DEF Timeout, Flags, wireVars
  <2> QED BY <2>1, <2>2
<1>11. CASE HandleLine
  <2>1. UNCHANGED <<phase, queue, inflight, reply, parkLeft, orphan, downlink, uplink>>
    BY <1>11, Zenon DEF HandleLine, loopVars, wireVars
  <2>2. Shapes'
    BY <1>11, <2>1, SerialLinkAssumption DEF HandleLine, Shapes
  <2>3. Flags'
    BY <1>11, Zenon DEF HandleLine, Flags, loopVars, wireVars
  <2> QED BY <2>2, <2>3
<1>12. CASE Resume
  <2>1. phase' = "idle" /\ reply' = <<>> /\ inflight' = <<>>
    BY <1>12, Zenon DEF Resume
  <2>2. UNCHANGED <<parkLeft, inbox, orphan, downlink, uplink>>
    BY <1>12, Zenon DEF Resume, wireVars
  <2>3. queue' = <<>> \/ queue' = queue
    BY <1>12, Zenon DEF Resume, DiscardPending
  <2>4. phase' \in Phases /\ phase' # "sending"
    BY <2>1 DEF Phases
  <2>5. queue' \in Seq(Items) /\ Len(queue') <= QueueMax
    BY <2>3, Empty, Zenon DEF Shapes
  <2>6. Shapes'
    BY <2>1, <2>2, <2>4, <2>5, Empty, Zenon DEF Shapes
  <2>7. known' \in BOOLEAN
    BY <1>12 DEF Resume, Flags
  <2>8. Flags'
    BY <1>12, <2>7, Zenon DEF Resume, wireVars, Flags
  <2> QED BY <2>6, <2>8
<1> QED
  BY <1>2, <1>3, <1>4, <1>5, <1>7, <1>8, <1>9, <1>10, <1>11, <1>12 DEF Task

(* a port that fails,                                                       *)
LEMMA PortFailsTypes ==
    ASSUME Shapes, Flags, PortFails
    PROVE  Shapes' /\ Flags'
<1>1. UNCHANGED <<queue, parkLeft, inbox, orphan>>
  BY Zenon DEF PortFails
<1>2. phase' = "closed" /\ inflight' = <<>> /\ reply' = <<>> /\ uplink' = <<>>
  BY Zenon DEF PortFails
<1>3. phase' \in Phases /\ phase' # "sending"
  BY <1>2 DEF Phases
<1>4. downlink' \in Seq(Items)
  <2>1. downlink' = downlink \/ downlink' = <<>>
    BY Zenon DEF PortFails
  <2> QED BY <2>1, Empty, Zenon DEF Shapes
<1>5. Shapes'
  BY <1>1, <1>2, <1>3, <1>4, Empty, Zenon DEF Shapes
<1>6. Flags'
  BY Zenon DEF PortFails, Flags
<1> QED BY <1>5, <1>6

(* the cancellation and park,                                               *)
LEMMA ShutdownTypes ==
    ASSUME Shapes, Flags, Shutdown
    PROVE  Shapes' /\ Flags'
<1>1. \A c \in AllLetters : Fresh(c) \in Items
  BY ItemTypes DEF Flags
<1>2. CASE Cancel
  <2>1. (orphan' = inflight[1] /\ phase = "sending") \/ orphan' = "READY" \/ orphan' = "none"
    BY <1>2 DEF Cancel
  <2>2. orphan' \in AllLetters \cup {"none", "READY"}
    BY <2>1 DEF Shapes
  <2>3. phase' \in {"stopped", "parking"} /\ inflight' = <<>> /\ reply' = <<>>
    BY <1>2 DEF Cancel
  <2>4. UNCHANGED <<queue, parkLeft, inbox, downlink, uplink>>
    BY <1>2, Zenon DEF Cancel, wireVars
  <2>5. Shapes'
    BY <2>2, <2>3, <2>4 DEF Shapes, Phases
  <2>6. Flags'
    BY <1>2, Zenon DEF Cancel, wireVars, Flags
  <2> QED BY <2>5, <2>6
<1>3. CASE Park
  <2>1. UNCHANGED <<queue, inflight, reply, inbox, orphan, uplink>>
    BY <1>3, Zenon DEF Park
  <2>2. ASSUME parkLeft = <<>> PROVE Shapes'
    <3>1. phase' = "stopped" /\ UNCHANGED <<parkLeft, downlink>>
      BY <1>3, <2>2, Zenon DEF Park
    <3>2. phase' \in Phases /\ phase' # "sending"
      BY <3>1 DEF Phases
    <3> QED BY <2>1, <3>1, <3>2, Zenon DEF Shapes
  <2>3. ASSUME parkLeft # <<>> PROVE Shapes'
    <3>1. Head(parkLeft) \in AllLetters /\ Tail(parkLeft) \in Seq(AllLetters)
      BY <2>3 DEF Shapes
    <3>2. Fresh(Head(parkLeft)) \in Items
      BY <1>1, <3>1
    <3>3. downlink' = Append(downlink, Fresh(Head(parkLeft)))
          /\ parkLeft' = Tail(parkLeft) /\ phase' = "parkWait"
      BY <1>3, <2>3 DEF Park
    <3>4. downlink' \in Seq(Items)
      BY <3>2, <3>3, Grows, Zenon DEF Shapes
    <3>5. phase' \in Phases /\ phase' # "sending"
      BY <3>3 DEF Phases
    <3> QED BY <2>1, <3>1, <3>3, <3>4, <3>5, Zenon DEF Shapes
  <2>4. Flags'
    BY <1>3, Zenon DEF Park, Flags
  <2>5. Shapes'
    BY <2>2, <2>3
  <2> QED BY <2>4, <2>5
<1>4. CASE ParkRead
  <2>1. UNCHANGED <<queue, inflight, reply, parkLeft, orphan, downlink>>
    BY <1>4, Zenon DEF ParkRead
  <2>2. phase' \in {"parking", "parkWait"}
    BY <1>4 DEF ParkRead
  <2>3. uplink # <<>> /\ uplink' = Tail(uplink) /\ inbox < WireMax /\ inbox' = inbox + 1
    BY <1>4 DEF ParkRead
  <2>4. Tail(uplink) \in Seq(Lines)
    BY <2>3, HeadTailProperties, Zenon DEF Shapes
  <2>5. Shapes'
    BY <1>4, <2>1, <2>2, <2>3, <2>4, SerialLinkAssumption DEF ParkRead, Shapes, Phases
  <2>6. Flags'
    BY <1>4, Zenon DEF ParkRead, Flags
  <2> QED BY <2>5, <2>6
<1>5. CASE ParkTimeout
  <2>1. Shapes'
    BY <1>5 DEF ParkTimeout, Shapes, Phases, wireVars
  <2>2. Flags'
    BY <1>5, Zenon DEF ParkTimeout, Flags, wireVars
  <2> QED BY <2>1, <2>2
<1>6. CASE ParkFails
  <2>1. Shapes'
    BY <1>6 DEF ParkFails, Shapes, Phases, wireVars
  <2>2. parkOk' = FALSE /\ UNCHANGED <<legs, known>>
    BY <1>6, Zenon DEF ParkFails, wireVars
  <2>3. Flags'
    BY <2>2, Zenon DEF Flags
  <2> QED BY <2>1, <2>3
<1>7. CASE OrphanRead
  <2>1. UNCHANGED <<phase, queue, inflight, reply, parkLeft, downlink>>
    BY <1>7, Zenon DEF OrphanRead, loopVars
  <2>2. orphan' \in {orphan, "none"}
    BY <1>7 DEF OrphanRead
  <2>3. uplink # <<>> /\ uplink' = Tail(uplink) /\ inbox < WireMax /\ inbox' \in {inbox, inbox + 1}
    BY <1>7 DEF OrphanRead
  <2>4. Tail(uplink) \in Seq(Lines)
    BY <2>3, HeadTailProperties, Zenon DEF Shapes
  <2>5. Shapes'
    BY <2>1, <2>2, <2>3, <2>4, SerialLinkAssumption DEF Shapes
  <2>6. Flags'
    BY <1>7, Zenon DEF OrphanRead, loopVars, Flags
  <2> QED BY <2>5, <2>6
<1>8. CASE OrphanEnds
  <2>1. Shapes'
    BY <1>8 DEF OrphanEnds, Shapes, loopVars, wireVars
  <2>2. Flags'
    BY <1>8, Zenon DEF OrphanEnds, Flags, loopVars, wireVars
  <2> QED BY <2>1, <2>2
<1> QED BY <1>2, <1>3, <1>4, <1>5, <1>6, <1>7, <1>8 DEF Shutdown

(* What the controller does with the next command.                          *)
LEMMA ExecuteParts ==
    ASSUME Shapes, Execute
    PROVE  /\ downlink # <<>> /\ downlink' = Tail(downlink)
           /\ Head(downlink).cmd \in AllLetters
           /\ \/ uplink' = uplink
              \/ \E line \in Lines : uplink' = Append(uplink, line)
           /\ UNCHANGED <<phase, queue, inflight, reply, parkLeft, inbox, orphan>>
<1>1. Head(downlink).cmd \in AllLetters
  BY ItemParts DEF Execute, Shapes
<1>2. uplink' = uplink
      \/ \E kind \in {"ACK", "NACK"} :
            uplink' = Append(uplink, [kind |-> kind, cmd |-> Head(downlink).cmd])
  BY Zenon DEF Execute
<1>3. uplink' = uplink \/ \E line \in Lines : uplink' = Append(uplink, line)
  BY <1>1, <1>2, LineTypes, Zenon
<1>4. UNCHANGED <<phase, queue, inflight, reply, parkLeft, inbox, orphan>>
  BY Zenon DEF Execute, loopVars
<1> QED BY <1>1, <1>3, <1>4 DEF Execute

(* and the controller.                                                      *)
LEMMA ControllerTypes ==
    ASSUME Shapes, Flags, Controller
    PROVE  Shapes' /\ Flags'
<1>1. CASE Execute
  <2>1. Tail(downlink) \in Seq(Items)
    BY <1>1, ExecuteParts, HeadTailProperties, Zenon DEF Shapes
  <2>2. uplink' \in Seq(Lines)
    <3>1. uplink' = uplink \/ \E line \in Lines : uplink' = Append(uplink, line)
      BY <1>1, ExecuteParts
    <3> QED BY <3>1, Grows, Zenon DEF Shapes
  <2>3. Shapes'
    BY <1>1, <2>1, <2>2, ExecuteParts, Zenon DEF Shapes
  <2>4. legs' \in BOOLEAN
    BY <1>1 DEF Execute, Flags
  <2>5. Flags'
    BY <1>1, <2>4, Zenon DEF Execute, loopVars, Flags
  <2> QED BY <2>3, <2>5
<1>2. CASE Report
  <2>1. Shapes'
    BY <1>2, LineTypes DEF Report, Shapes, loopVars
  <2>2. Flags'
    BY <1>2, Zenon DEF Report, Flags, loopVars
  <2> QED BY <2>1, <2>2
<1>3. CASE Reboot
  <2>1. UNCHANGED <<phase, inflight, reply, parkLeft, inbox, orphan>>
    BY <1>3, Zenon DEF Reboot
  <2>2. Boots(uplink) /\ uplink \in Seq(Lines)
    BY <1>3 DEF Reboot, Shapes
  <2>3. Shapes'
    <3>1. /\ downlink' = <<>> /\ uplink' \in Seq(Lines)
          /\ queue' \in Seq(Items) /\ Len(queue') = Len(queue)
      BY <2>2, BootsTypes, Zenon
    <3> QED BY <2>1, <3>1, Empty, Zenon DEF Shapes
  <2>4. Flags'
    BY <1>3, Zenon DEF Reboot, Boots, Flags
  <2> QED BY <2>3, <2>4
<1> QED BY <1>1, <1>2, <1>3 DEF Controller

(* A step of others keeps the types.                                        *)
LEMMA StutterTypes ==
    ASSUME Shapes, Flags, UNCHANGED vars
    PROVE  Shapes' /\ Flags'
<1>1. Shapes'
  BY DEF vars, loopVars, wireVars, Shapes
<1>2. Flags'
  BY Zenon DEF vars, loopVars, wireVars, Flags
<1> QED BY <1>1, <1>2

(* The types, and the limit of the queue: offer never makes it longer than  *)
(* the 200 commands it was created with, however full it was.               *)
THEOREM LinkTypes == Spec => []TypeOK
<1>1. Init => TypeOK
  BY InitTypes, TypeParts
<1>2. TypeOK /\ [Next]_vars => TypeOK'
  <2> SUFFICES ASSUME Shapes, Flags, [Next]_vars PROVE Shapes' /\ Flags'
    BY TypeParts DEF TypeOK, Shapes, Flags
  <2> QED
    BY ProducerTypes, TaskTypes, PortFailsTypes, ShutdownTypes, ControllerTypes, StutterTypes
    DEF Next, Ended
<1> QED BY <1>1, <1>2, PTL DEF Spec

-----------------------------------------------------------------------------
(* None of the commands was queued before the Pi knew of the last boot.     *)
AllFresh(items) == \A i \in 1..Len(items) : items[i].old = FALSE

(* Fresh sequences stay fresh when they lose their head or gain a fresh     *)
(* item.                                                                    *)
LEMMA FreshSequences ==
    /\ AllFresh(<<>>)
    /\ \A items \in Seq(Items) : items # <<>> /\ AllFresh(items) => AllFresh(Tail(items))
    /\ \A items \in Seq(Items), item \in Items :
           AllFresh(items) /\ item.old = FALSE => AllFresh(Append(items, item))
<1>1. AllFresh(<<>>)
  BY DEF AllFresh
<1>2. ASSUME NEW items \in Seq(Items), items # <<>>, AllFresh(items) PROVE AllFresh(Tail(items))
  BY <1>2 DEF AllFresh
<1>3. ASSUME NEW items \in Seq(Items), NEW item \in Items, AllFresh(items), item.old = FALSE
      PROVE  AllFresh(Append(items, item))
  <2>1. ASSUME NEW i \in 1..Len(items) + 1
        PROVE  \/ Append(items, item)[i] = item
               \/ i \in 1..Len(items) /\ Append(items, item)[i] = items[i]
    OBVIOUS
  <2> QED BY <1>3, <2>1, AppendProperties DEF AllFresh
<1> QED BY <1>1, <1>2, <1>3

(* The property in terms of AllFresh.                                       *)
LEMMA BacklogForm ==
    ASSUME Shapes
    PROVE  BacklogIsFresh <=> (known => AllFresh(queue))
<1>1. ASSUME NEW i \in 1..Len(queue) PROVE (~queue[i].old) <=> queue[i].old = FALSE
  <2>1. queue[i] \in Items
    BY <1>1 DEF Shapes
  <2>2. queue[i].old \in BOOLEAN
    BY <2>1 DEF Items
  <2> QED BY <2>2
<1> QED BY <1>1, Zenon DEF BacklogIsFresh, AllFresh

(* One step keeps the backlog fresh.                                        *)
LEMMA FreshStep ==
    ASSUME Shapes, Flags, known => AllFresh(queue), [Next]_vars
    PROVE  known' => AllFresh(queue')
<1>1. CASE OfferUrgent
  <2>1. Item("E") \in Items /\ (known => Item("E").old = FALSE)
    <3>1. "E" \in AllLetters
      BY LettersKnown, SerialLinkAssumption
    <3>2. Item("E") \in Items
      BY <3>1, ItemTypes DEF Flags
    <3> QED BY <3>2 DEF Item
  <2>2. queue' = <<Item("E")>> /\ known' = known
    BY <1>1, Zenon DEF OfferUrgent
  <2>3. ASSUME NEW item, item.old = FALSE PROVE AllFresh(<<item>>)
    BY <2>3 DEF AllFresh
  <2> QED BY <2>1, <2>2, <2>3, Zenon
<1>2. ASSUME NEW c \in Letters \ {"E"}, Offer(c) PROVE known' => AllFresh(queue')
  <2>1. Item(c) \in Items /\ (known => Item(c).old = FALSE)
    <3>1. Item(c) \in Items
      BY LettersKnown, ItemTypes DEF Flags
    <3> QED BY <3>1 DEF Item
  <2>2. /\ known' = known
        /\ \/ queue' = Append(queue, Item(c))
           \/ Len(queue) = QueueMax /\ queue' = Append(Tail(queue), Item(c))
    BY <1>2, Zenon DEF Offer
  <2>3. Len(queue) = QueueMax => queue # <<>> /\ Tail(queue) \in Seq(Items)
    BY SerialLinkAssumption DEF Shapes
  <2>4. queue \in Seq(Items)
    BY DEF Shapes
  <2> QED BY <2>1, <2>2, <2>3, <2>4, FreshSequences, Zenon
<1>3. CASE Connect \/ Resume
  <2>1. queue' = <<>> \/ (queue' = queue /\ known' = known)
    BY <1>3, Zenon DEF Connect, Resume, DiscardPending
  <2> QED BY <2>1, FreshSequences, Zenon
<1>4. CASE Take
  <2>1. queue \in Seq(Items) /\ queue # <<>>
    BY <1>4 DEF Take, Shapes
  <2>2. queue' = Tail(queue) /\ known' = known
    BY <1>4, Zenon DEF Take, Send
  <2> QED BY <2>1, <2>2, FreshSequences, Zenon
<1>5. CASE Open \/ Reboot
  <2>1. known' = FALSE \/ (queue' = queue /\ known' = known)
    BY <1>5, Zenon DEF Open, Reboot, Boots
  <2> QED BY <2>1, Zenon
<1>6. CASE WaitLine \/ WaitTimeout \/ Ping \/ ReadLine \/ Timeout \/ HandleLine \/ PortFails
  <2>1. queue' = queue /\ known' = known
    BY <1>6, Zenon DEF WaitLine, WaitTimeout, Ping, Send, ReadLine, Timeout, HandleLine,
       PortFails, loopVars
  <2> QED BY <2>1, Zenon
<1>7. CASE Shutdown
  <2>1. queue' = queue /\ known' = known
    BY <1>7, Zenon DEF Shutdown, Cancel, Park, ParkRead, ParkTimeout, ParkFails, OrphanRead,
       OrphanEnds, loopVars
  <2> QED BY <2>1, Zenon
<1>8. CASE Execute \/ Report \/ Ended \/ UNCHANGED vars
  <2>1. queue' = queue /\ known' = known
    BY <1>8, Zenon DEF Execute, Report, Ended, vars, loopVars
  <2> QED BY <2>1, Zenon
<1> QED
  BY <1>1, <1>2, <1>3, <1>4, <1>5, <1>6, <1>7, <1>8, Zenon
  DEF Next, Producer, Task, Controller

(* discard_pending on every banner, together with the offers that mark what *)
(* they queue: a queue in which the Pi believes the controller's latest     *)
(* boot handled holds nothing from before that boot.                        *)
THEOREM BacklogAlwaysFresh == Spec => []BacklogIsFresh
<1> DEFINE Fine == known => AllFresh(queue)
<1>1. Init => Fine
  BY Zenon DEF Init
<1>2. TypeOK /\ Fine /\ [Next]_vars => Fine'
  BY FreshStep, TypeParts, Zenon
<1>3. TypeOK /\ Fine => BacklogIsFresh
  BY BacklogForm, TypeParts, Zenon
<1> HIDE DEF Fine
<1> QED BY <1>1, <1>2, <1>3, LinkTypes, PTL DEF Spec

-----------------------------------------------------------------------------
(* The way down.  Nothing is written after the servos-off command but what  *)
(* was written before it: the last command under way is that one.           *)
LastWritten == IF downlink = <<>> THEN legs = FALSE ELSE downlink[Len(downlink)].cmd = "O"

(* What is left of the park commands, and that the last one is written when *)
(* none is left.                                                            *)
ParkInv ==
    /\ parkLeft \in {ParkCommands, <<"O">>, <<>>}
    /\ parkLeft # ParkCommands => Closing
    /\ parkLeft = <<>> => LastWritten

(* A controller that boots has forgotten the commands and switched off.     *)
LEMMA BootsParks ==
    ASSUME NEW lines, Boots(lines)
    PROVE  LastWritten'
<1>1. downlink' = <<>> /\ legs' = FALSE
  BY Zenon DEF Boots
<1> QED BY <1>1, Zenon DEF LastWritten

(* The controller executes the next command: if it was the last one, it was *)
(* the servos-off command and the servos are off.                           *)
LEMMA ExecuteParks ==
    ASSUME Shapes, Execute, LastWritten
    PROVE  LastWritten'
<1>1. /\ downlink # <<>> /\ downlink' = Tail(downlink)
      /\ downlink \in Seq(Items) /\ downlink[Len(downlink)].cmd = "O"
  BY Zenon DEF Execute, Shapes, LastWritten
<1>2. CASE Len(downlink) = 1
  <2>1. Head(downlink).cmd = "O" /\ Tail(downlink) = <<>>
    BY <1>1, <1>2
  <2>2. legs' = FALSE
    BY <2>1 DEF Execute
  <2> QED BY <1>1, <2>1, <2>2, Zenon DEF LastWritten
<1>3. CASE Len(downlink) # 1
  <2>1. /\ Len(downlink') = Len(downlink) - 1 /\ Len(downlink') \in Nat \ {0}
        /\ \A i \in 1..Len(downlink') : downlink'[i] = downlink[i + 1]
    <3> HIDE DEF Items
    <3> QED BY <1>1, <1>3
  <2>2. downlink' # <<>> /\ downlink'[Len(downlink')] = downlink[Len(downlink)]
    BY <1>1, <2>1
  <2> QED BY <1>1, <2>2, Zenon DEF LastWritten
<1> QED BY <1>2, <1>3

(* The park commands, one after the other.                                  *)
LEMMA ParkSplit ==
    /\ ParkCommands # <<>> /\ ParkCommands # <<"O">> /\ <<"O">> # <<>>
    /\ Head(ParkCommands) = "W" /\ Tail(ParkCommands) = <<"O">>
    /\ Head(<<"O">>) = "O" /\ Tail(<<"O">>) = <<>>
BY DEF ParkCommands

(* Park writes the next park command.                                       *)
LEMMA ParkParks ==
    ASSUME Shapes, Flags, ParkInv, Park
    PROVE  ParkInv'
<1>1. phase' \in {"stopped", "parkWait"}
  BY DEF Park
<1>2. Closing'
  BY <1>1 DEF Closing
<1>3. CASE parkLeft = <<>>
  <2>1. UNCHANGED <<parkLeft, downlink, legs>>
    BY <1>3, Zenon DEF Park
  <2> QED BY <1>2, <1>3, <2>1, Zenon DEF ParkInv, LastWritten
<1>4. CASE parkLeft # <<>>
  <2>1. /\ downlink' = Append(downlink, Fresh(Head(parkLeft)))
        /\ parkLeft' = Tail(parkLeft)
    BY <1>4, Zenon DEF Park
  <2>2. parkLeft = ParkCommands \/ parkLeft = <<"O">>
    BY <1>4, Zenon DEF ParkInv
  <2>3. parkLeft' \in {ParkCommands, <<"O">>, <<>>}
    BY <2>1, <2>2, ParkSplit, Zenon
  <2>4. ASSUME parkLeft' = <<>> PROVE LastWritten'
    <3>1. Head(parkLeft) = "O"
      BY <2>1, <2>2, <2>4, ParkSplit, Zenon
    <3>2. Fresh("O") \in Items /\ Fresh("O").cmd = "O"
      BY LettersKnown, ItemTypes DEF Flags, Fresh
    <3>3. downlink' # <<>> /\ downlink'[Len(downlink')] = Fresh("O")
      BY <2>1, <3>1, <3>2, AppendProperties DEF Shapes
    <3> QED BY <3>2, <3>3, Zenon DEF LastWritten
  <2> QED BY <1>2, <2>3, <2>4, Zenon DEF ParkInv
<1> QED BY <1>3, <1>4

(* Every step keeps ParkInv: nothing but park writes once the task is       *)
(* cancelled, and before that no park command is gone.                      *)
LEMMA ParkStep ==
    ASSUME Shapes, Flags, ParkInv, [Next]_vars
    PROVE  ParkInv'
<1>1. CASE Park
  BY <1>1, ParkParks
<1>2. CASE Execute
  <2>1. UNCHANGED <<phase, parkLeft>>
    BY <1>2, Zenon DEF Execute, loopVars
  <2> QED BY <1>2, <2>1, ExecuteParks, Zenon DEF ParkInv, Closing
<1>3. CASE Reboot
  <2>1. UNCHANGED <<phase, parkLeft>> /\ Boots(uplink)
    BY <1>3, Zenon DEF Reboot
  <2> QED BY <2>1, BootsParks, Zenon DEF ParkInv, Closing
<1>4. ASSUME ~Closing, parkLeft' = parkLeft PROVE ParkInv'
  <2>1. parkLeft' = ParkCommands
    BY <1>4, Zenon DEF ParkInv
  <2> QED BY <2>1, ParkSplit, Zenon DEF ParkInv
<1>5. CASE Open \/ WaitLine \/ WaitTimeout \/ Connect \/ Take \/ Ping \/ ReadLine \/ Timeout
           \/ Resume \/ PortFails \/ Cancel
  <2>1. parkLeft' = parkLeft
    BY <1>5, Zenon DEF Open, WaitLine, WaitTimeout, Connect, Take, Ping, Send, ReadLine, Timeout,
       Resume, PortFails, Cancel
  <2>2. ~Closing
    BY <1>5 DEF Open, WaitLine, WaitTimeout, Connect, Take, Ping, ReadLine, Timeout, Resume,
       PortFails, Cancel, Closing
  <2> QED BY <1>4, <2>1, <2>2
<1>6. CASE Producer
  <2>1. UNCHANGED <<phase, parkLeft, downlink, legs>>
    BY <1>6, Zenon DEF Producer, Offer, OfferUrgent, wireVars
  <2> QED BY <2>1, Zenon DEF ParkInv, Closing, LastWritten
<1>7. CASE ParkRead \/ ParkTimeout \/ ParkFails
  <2>1. UNCHANGED <<parkLeft, downlink, legs>>
    BY <1>7, Zenon DEF ParkRead, ParkTimeout, ParkFails, wireVars
  <2>2. phase' \in {"parking", "parkWait", "stopped"}
    BY <1>7 DEF ParkRead, ParkTimeout, ParkFails
  <2>3. Closing'
    BY <2>2 DEF Closing
  <2> QED BY <2>1, <2>3, Zenon DEF ParkInv, LastWritten
<1>8. CASE HandleLine \/ OrphanRead \/ OrphanEnds \/ Report \/ Ended \/ UNCHANGED vars
  <2>1. UNCHANGED <<phase, parkLeft, downlink, legs>>
    BY <1>8, Zenon DEF HandleLine, OrphanRead, OrphanEnds, Report, Ended, vars, loopVars, wireVars
  <2> QED BY <2>1, Zenon DEF ParkInv, Closing, LastWritten
<1> QED
  BY <1>1, <1>2, <1>3, <1>5, <1>6, <1>7, <1>8, Zenon DEF Next, Task, Shutdown, Controller

(* park: whatever was under way when serial_task was cancelled, once both   *)
(* park commands are written and executed the servos are off.               *)
THEOREM AlwaysParkedAtExit == Spec => []ParkedAtExit
<1>1. Init => ParkInv
  <2>1. Init => parkLeft = ParkCommands
    BY Zenon DEF Init
  <2> QED BY <2>1, ParkSplit, Zenon DEF ParkInv
<1>2. TypeOK /\ ParkInv /\ [Next]_vars => ParkInv'
  BY ParkStep, TypeParts, Zenon
<1>3. ParkInv => ParkedAtExit
  <2> SUFFICES ASSUME ParkInv PROVE ParkedAtExit
    OBVIOUS
  <2>1. parkLeft = <<>> /\ downlink = <<>> => legs = FALSE
    BY Zenon DEF ParkInv, LastWritten
  <2> QED BY <2>1, Zenon DEF ParkedAtExit
<1> QED BY <1>1, <1>2, <1>3, LinkTypes, PTL DEF Spec

-----------------------------------------------------------------------------
(* Sequences cut and grown.                                                 *)

(* Every cut is one of the cuts.                                            *)
LEMMA CutForm ==
    ASSUME NEW s, NEW i \in 0..Len(s), NEW n \in 0..Len(s)
    PROVE  Channel!Cut(s, i, n) \in Channel!Cuts(s)
BY DEF Channel!Cuts

(* What lies between two parts may be cut out,                              *)
LEMMA CutMiddle ==
    ASSUME NEW S, NEW a \in Seq(S), NEW b \in Seq(S), NEW c \in Seq(S)
    PROVE  a \o c \in Channel!Cuts(a \o (b \o c))
<1> DEFINE s == a \o (b \o c)
<1>1. b \o c \in Seq(S) /\ Len(b \o c) = Len(b) + Len(c)
  BY ConcatProperties
<1>2. s \in Seq(S) /\ Len(s) = Len(a) + Len(b) + Len(c)
  BY <1>1, ConcatProperties
<1>3. /\ \A i \in 1..Len(a) : s[i] = a[i]
      /\ \A i \in 1..Len(c) : s[Len(a) + Len(b) + i] = c[i]
  <2>1. \A i \in 1..Len(a) + Len(b \o c) :
           s[i] = IF i <= Len(a) THEN a[i] ELSE (b \o c)[i - Len(a)]
    BY <1>1, ConcatProperties
  <2>2. \A i \in 1..Len(b) + Len(c) : (b \o c)[i] = IF i <= Len(b) THEN b[i] ELSE c[i - Len(b)]
    BY ConcatProperties
  <2>3. ASSUME NEW i \in 1..Len(c) PROVE s[Len(a) + Len(b) + i] = c[i]
    <3>1. /\ Len(a) + Len(b) + i \in 1..Len(a) + Len(b \o c) /\ ~(Len(a) + Len(b) + i <= Len(a))
          /\ Len(a) + Len(b) + i - Len(a) = Len(b) + i
          /\ Len(b) + i \in 1..Len(b) + Len(c) /\ ~(Len(b) + i <= Len(b))
          /\ Len(b) + i - Len(b) = i
      BY <1>1, LenProperties
    <3> HIDE DEF s
    <3>2. ASSUME NEW k \in 1..Len(a) + Len(b \o c), ~(k <= Len(a))
          PROVE  s[k] = (b \o c)[k - Len(a)]
      BY <2>1, <3>2, Zenon
    <3>3. ASSUME NEW k \in 1..Len(b) + Len(c), ~(k <= Len(b))
          PROVE  (b \o c)[k] = c[k - Len(b)]
      BY <2>2, <3>3, Zenon
    <3>4. s[Len(a) + Len(b) + i] = (b \o c)[Len(b) + i]
      BY <3>1, <3>2
    <3>5. (b \o c)[Len(b) + i] = c[i]
      BY <3>1, <3>3
    <3> QED BY <3>4, <3>5, Zenon
  <2>4. ASSUME NEW i \in 1..Len(a) PROVE s[i] = a[i]
    <3>1. i \in 1..Len(a) + Len(b \o c) /\ i <= Len(a)
      BY <1>1, LenProperties
    <3> HIDE DEF s
    <3> QED BY <2>1, <3>1
  <2> QED BY <2>3, <2>4
<1> HIDE DEF s
<1>4. /\ Len(a) \in 0..Len(s) /\ Len(b) \in 0..Len(s)
      /\ Len(a) \in Nat /\ Len(b) \in Nat /\ Len(c) \in Nat
  BY <1>2, LenProperties
<1>5. SubSeq(s, 1, Len(a)) = a
  <2>1. \A i \in 1..Len(a) : s[i] \in S
    BY <1>3
  <2>2. /\ SubSeq(s, 1, Len(a)) \in Seq(S) /\ Len(SubSeq(s, 1, Len(a))) = Len(a)
        /\ \A i \in 1..Len(a) : SubSeq(s, 1, Len(a))[i] = s[i]
    BY <1>4, <2>1, SubSeqProperties
  <2> QED BY <1>3, <2>2, SeqEqual
<1>6. SubSeq(s, Len(a) + Len(b) + 1, Len(s)) = c
  <2> DEFINE t == SubSeq(s, Len(a) + Len(b) + 1, Len(s))
  <2>1. \A i \in Len(a) + Len(b) + 1..Len(s) : s[i] \in S
    BY <1>2, <1>4
  <2>2. /\ t \in Seq(S) /\ Len(t) = Len(c)
        /\ \A i \in 1..Len(c) : t[i] = s[Len(a) + Len(b) + i]
    BY <1>2, <1>4, <2>1, SubSeqProperties
  <2> HIDE DEF t
  <2>3. t = c
    BY <1>3, <2>2, SeqEqual
  <2> QED BY <2>3 DEF t
<1>7. a \o c \in Channel!Cuts(s)
  <2>1. a \o c = Channel!Cut(s, Len(a), Len(b))
    BY <1>5, <1>6, Zenon DEF Channel!Cut
  <2> QED BY <1>4, <2>1, CutForm, Zenon
<1> QED BY <1>7 DEF s

(* so may either end, or nothing.                                           *)
LEMMA CutEnds ==
    ASSUME NEW S, NEW a \in Seq(S), NEW b \in Seq(S)
    PROVE  /\ a \in Channel!Cuts(a \o b) /\ b \in Channel!Cuts(a \o b)
           /\ a \in Channel!Cuts(a)
<1>1. <<>> \in Seq(S) /\ a \o <<>> = a /\ b \o <<>> = b /\ <<>> \o b = b /\ <<>> \o a = a
  BY ConcatEmptySeq
<1>2. a \o <<>> \in Channel!Cuts(a \o (b \o <<>>))
  BY <1>1, CutMiddle
<1>3. <<>> \o b \in Channel!Cuts(<<>> \o (a \o b))
  BY <1>1, CutMiddle
<1>4. a \o b \in Seq(S) /\ <<>> \o (a \o b) = a \o b
  BY ConcatProperties, ConcatEmptySeq
<1>5. <<>> \o a \in Channel!Cuts(<<>> \o (<<>> \o a))
  BY <1>1, CutMiddle
<1> QED BY <1>1, <1>2, <1>3, <1>4, <1>5, Zenon

(* A new last element of the second part is the last of the whole.          *)
LEMMA AppendToConcat ==
    ASSUME NEW a \in Seq(AllLetters), NEW b \in Seq(AllLetters), NEW x \in AllLetters
    PROVE  Append(a \o b, x) = a \o Append(b, x)
<1>1. a \o b \in Seq(AllLetters) /\ <<x>> \in Seq(AllLetters)
  BY ConcatProperties
<1>2. Append(a \o b, x) = (a \o b) \o <<x>> /\ Append(b, x) = b \o <<x>>
  BY <1>1, AppendIsConcat
<1>3. (a \o b) \o <<x>> = a \o (b \o <<x>>)
  BY <1>1, ConcatAssociative
<1> QED BY <1>2, <1>3, Zenon

(* What moves from the head of one sequence to the end of another.          *)
LEMMA Handover ==
    ASSUME NEW S, NEW a \in Seq(S), NEW b \in Seq(S), b # <<>>
    PROVE  Append(a, Head(b)) \o Tail(b) = a \o b
<1>1. Head(b) \in S /\ Tail(b) \in Seq(S) /\ <<Head(b)>> \in Seq(S)
  BY HeadTailProperties
<1>2. b = <<Head(b)>> \o Tail(b)
  OBVIOUS
<1>3. Append(a, Head(b)) = a \o <<Head(b)>>
  BY <1>1, AppendIsConcat
<1>4. (a \o <<Head(b)>>) \o Tail(b) = a \o (<<Head(b)>> \o Tail(b))
  BY <1>1, ConcatAssociative
<1> QED BY <1>2, <1>3, <1>4, Zenon

(* The next element of the whole is that of the first part.                 *)
LEMMA ConcatHead ==
    ASSUME NEW S, NEW a \in Seq(S), NEW b \in Seq(S), a # <<>>
    PROVE  a \o b # <<>> /\ Head(a \o b) = Head(a) /\ Tail(a \o b) = Tail(a) \o b
OBVIOUS

-----------------------------------------------------------------------------
(* The refinement.                                                          *)

(* CommandsOf goes along with every operation on the sequences.             *)
LEMMA CommandsOfSequences ==
    /\ CommandsOf(<<>>) = <<>>
    /\ \A items \in Seq(Items) :
           CommandsOf(items) \in Seq(AllLetters) /\ Len(CommandsOf(items)) = Len(items)
    /\ \A items \in Seq(Items), item \in Items :
           CommandsOf(Append(items, item)) = Append(CommandsOf(items), item.cmd)
    /\ \A items \in Seq(Items) : items # <<>> =>
           /\ CommandsOf(items) # <<>>
           /\ Head(CommandsOf(items)) = Head(items).cmd
           /\ CommandsOf(Tail(items)) = Tail(CommandsOf(items))
    /\ \A items \in Seq(Items) : CommandsOf(Aged(items)) = CommandsOf(items)
<1>1. CommandsOf(<<>>) = <<>>
  BY DEF CommandsOf
<1>2. ASSUME NEW items \in Seq(Items)
      PROVE  /\ CommandsOf(items) \in Seq(AllLetters) /\ Len(CommandsOf(items)) = Len(items)
             /\ \A i \in 1..Len(items) : CommandsOf(items)[i] = items[i].cmd
  <2>1. \A i \in 1..Len(items) : items[i].cmd \in AllLetters
    BY ItemParts
  <2>2. CommandsOf(items) \in [1..Len(items) -> AllLetters] /\ Len(items) \in Nat
    BY <2>1 DEF CommandsOf
  <2>3. CommandsOf(items) \in Seq(AllLetters) /\ Len(CommandsOf(items)) = Len(items)
    BY <2>2
  <2> QED BY <2>3, Zenon DEF CommandsOf
<1>3. ASSUME NEW items \in Seq(Items), NEW item \in Items
      PROVE  CommandsOf(Append(items, item)) = Append(CommandsOf(items), item.cmd)
  <2> DEFINE one == CommandsOf(Append(items, item))
             two == Append(CommandsOf(items), item.cmd)
  <2>1. /\ Append(items, item) \in Seq(Items) /\ Len(Append(items, item)) = Len(items) + 1
        /\ \A i \in 1..Len(items) : Append(items, item)[i] = items[i]
        /\ Append(items, item)[Len(items) + 1] = item
    BY AppendProperties
  <2>2. /\ one \in Seq(AllLetters) /\ Len(one) = Len(items) + 1
        /\ \A i \in 1..Len(items) + 1 : one[i] = Append(items, item)[i].cmd
    BY <1>2, <2>1
  <2>3. item.cmd \in AllLetters
    BY ItemParts
  <2>4. /\ two \in Seq(AllLetters) /\ Len(two) = Len(items) + 1
        /\ \A i \in 1..Len(items) : two[i] = CommandsOf(items)[i]
        /\ two[Len(items) + 1] = item.cmd
    BY <1>2, <2>3, AppendProperties
  <2> HIDE DEF one, two
  <2>5. ASSUME NEW i \in 1..Len(items) + 1 PROVE one[i] = two[i]
    BY <1>2, <2>1, <2>2, <2>4
  <2>6. one = two
    BY <2>2, <2>4, <2>5, SeqEqual
  <2> QED BY <2>6 DEF one, two
<1>4. ASSUME NEW items \in Seq(Items), items # <<>>
      PROVE  /\ CommandsOf(items) # <<>>
             /\ Head(CommandsOf(items)) = Head(items).cmd
             /\ CommandsOf(Tail(items)) = Tail(CommandsOf(items))
  <2> DEFINE one == CommandsOf(Tail(items))
             two == Tail(CommandsOf(items))
  <2>1. Len(items) \in Nat \ {0} /\ Head(items) = items[1]
    BY <1>4
  <2>2. CommandsOf(items) # <<>> /\ Head(CommandsOf(items)) = items[1].cmd
    BY <1>2, <2>1
  <2>3. /\ Tail(items) \in Seq(Items) /\ Len(Tail(items)) = Len(items) - 1
        /\ \A i \in 1..Len(items) - 1 : Tail(items)[i] = items[i + 1]
    BY <1>4, HeadTailProperties
  <2>4. /\ one \in Seq(AllLetters) /\ Len(one) = Len(items) - 1
        /\ \A i \in 1..Len(items) - 1 : one[i] = Tail(items)[i].cmd
    BY <1>2, <2>3
  <2>5. /\ two \in Seq(AllLetters) /\ Len(two) = Len(items) - 1
        /\ \A i \in 1..Len(items) - 1 : two[i] = CommandsOf(items)[i + 1]
    BY <1>2, <2>2, HeadTailProperties
  <2> HIDE DEF one, two
  <2>6. ASSUME NEW i \in 1..Len(items) - 1 PROVE one[i] = two[i]
    BY <1>2, <2>1, <2>3, <2>4, <2>5
  <2>7. one = two
    BY <2>4, <2>5, <2>6, SeqEqual
  <2> QED BY <2>1, <2>2, <2>7 DEF one, two
<1>5. ASSUME NEW items \in Seq(Items) PROVE CommandsOf(Aged(items)) = CommandsOf(items)
  <2>1. /\ Len(Aged(items)) = Len(items)
        /\ \A i \in 1..Len(items) : Aged(items)[i].cmd = items[i].cmd
    BY AgedTypes
  <2> QED BY <2>1, Zenon DEF CommandsOf
<1> QED BY <1>1, <1>2, <1>3, <1>4, <1>5

(* A step of the channel, or none.                                          *)
ChannelStep == Channel!Next \/ UNCHANGED <<Waiting, legs>>

(* What a step of the channel is, in terms of the two sequences it is made  *)
(* of: the commands written and the commands queued.                        *)
LEMMA ChannelSteps ==
    ASSUME Shapes, Shapes'
    PROVE  /\ CommandsOf(downlink) \in Seq(AllLetters)
           /\ CommandsOf(queue) \in Seq(AllLetters)
           /\ ~Closing => Waiting = CommandsOf(downlink) \o CommandsOf(queue)
           /\ Closing => Waiting = CommandsOf(downlink)
           /\ ~Closing' => Waiting' = CommandsOf(downlink') \o CommandsOf(queue')
           /\ Closing' => Waiting' = CommandsOf(downlink')
<1>1. /\ CommandsOf(downlink) \in Seq(AllLetters) /\ CommandsOf(downlink') \in Seq(AllLetters)
      /\ CommandsOf(queue) \in Seq(AllLetters) /\ CommandsOf(queue') \in Seq(AllLetters)
  BY CommandsOfSequences, Zenon DEF Shapes
<1>2. /\ CommandsOf(downlink) \o <<>> = CommandsOf(downlink)
      /\ CommandsOf(downlink') \o <<>> = CommandsOf(downlink')
  BY <1>1, ConcatEmptySeq
<1>3. CASE Closing
  BY <1>1, <1>2, <1>3, Zenon DEF Waiting
<1>4. CASE ~Closing
  BY <1>1, <1>2, <1>4, Zenon DEF Waiting
<1> QED BY <1>3, <1>4

(* offer and offer_urgent ask for a command, and may make room for it.      *)
LEMMA ProducerSteps ==
    ASSUME Shapes, Shapes', Flags, Producer
    PROVE  Channel!Next
<1> DEFINE down == CommandsOf(downlink)
<1>1. /\ down \in Seq(AllLetters) /\ CommandsOf(queue) \in Seq(AllLetters)
      /\ ~Closing /\ ~Closing' /\ legs' = legs /\ downlink' = downlink
  <2>1. ~Closing /\ phase' = phase /\ legs' = legs /\ downlink' = downlink
    BY Zenon DEF Producer, Offer, OfferUrgent, wireVars
  <2> QED BY <2>1, ChannelSteps, Zenon DEF Closing
<1>2. /\ Waiting = down \o CommandsOf(queue)
      /\ Waiting' = down \o CommandsOf(queue')
  BY <1>1, ChannelSteps, Zenon
<1> HIDE DEF down
<1>3. ASSUME NEW c \in AllLetters, NEW kept \in Seq(Items), queue' = Append(kept, Item(c)),
             down \o CommandsOf(kept) \in Channel!Cuts(Waiting)
      PROVE  Channel!Ask
  <2>1. Item(c) \in Items /\ Item(c).cmd = c
    BY ItemTypes DEF Flags, Item
  <2>2. /\ CommandsOf(queue') = Append(CommandsOf(kept), c)
        /\ CommandsOf(kept) \in Seq(AllLetters)
    BY <1>3, <2>1, CommandsOfSequences, Zenon
  <2>3. Append(down \o CommandsOf(kept), c) = down \o Append(CommandsOf(kept), c)
    BY <1>1, <2>2, AppendToConcat
  <2>4. Waiting' = Append(down \o CommandsOf(kept), c)
    BY <1>2, <2>2, <2>3, Zenon
  <2> QED BY <1>1, <1>3, <2>4, Zenon DEF Channel!Ask
<1>4. CASE OfferUrgent
  <2>1. queue' = Append(<<>>, Item("E"))
    BY <1>4 DEF OfferUrgent
  <2>2. down \o CommandsOf(<<>>) = down
    BY <1>1, CommandsOfSequences, ConcatEmptySeq
  <2>3. down \in Channel!Cuts(Waiting)
    BY <1>1, <1>2, CutEnds, Zenon
  <2>4. "E" \in AllLetters /\ <<>> \in Seq(Items)
    BY LettersKnown, SerialLinkAssumption, Empty
  <2>5. Channel!Ask
    BY <1>3, <2>1, <2>2, <2>3, <2>4, Zenon
  <2> QED BY <2>5, Zenon DEF Channel!Next
<1>5. ASSUME NEW c \in Letters \ {"E"}, Offer(c) PROVE Channel!Next
  <2>1. c \in AllLetters /\ queue \in Seq(Items)
    BY <1>5, LettersKnown DEF Shapes
  <2>2. \/ queue' = Append(queue, Item(c))
        \/ Len(queue) = QueueMax /\ queue' = Append(Tail(queue), Item(c))
    BY <1>5, Zenon DEF Offer
  <2>3. CASE queue' = Append(queue, Item(c))
    <3>1. Waiting \in Channel!Cuts(Waiting)
      <4>1. Waiting \in Seq(AllLetters)
        BY <1>1, <1>2, ConcatProperties, Zenon
      <4> QED BY <4>1, CutEnds
    <3> QED BY <1>2, <1>3, <2>1, <2>3, <3>1, Zenon DEF Channel!Next
  <2>4. CASE Len(queue) = QueueMax /\ queue' = Append(Tail(queue), Item(c))
    <3>1. queue # <<>>
      BY <2>4, SerialLinkAssumption
    <3>2. Tail(queue) \in Seq(Items)
      BY <2>1, <3>1, HeadTailProperties
    <3>3. down \o CommandsOf(Tail(queue)) \in Channel!Cuts(Waiting)
      <4> DEFINE q == CommandsOf(queue)
      <4>1. q # <<>> /\ CommandsOf(Tail(queue)) = Tail(q)
        BY <2>1, <3>1, CommandsOfSequences, Zenon
      <4>2. Head(q) \in AllLetters /\ Tail(q) \in Seq(AllLetters) /\ q = <<Head(q)>> \o Tail(q)
            /\ <<Head(q)>> \in Seq(AllLetters)
        <5>1. q \in Seq(AllLetters)
          BY <1>1
        <5> HIDE DEF q
        <5> QED BY <4>1, <5>1
      <4>3. down \o Tail(q) \in Channel!Cuts(down \o (<<Head(q)>> \o Tail(q)))
        BY <1>1, <4>2, CutMiddle, Zenon
      <4> QED BY <1>2, <4>1, <4>2, <4>3, Zenon
    <3> QED BY <1>3, <2>1, <2>4, <3>2, <3>3, Zenon DEF Channel!Next
  <2> QED BY <2>2, <2>3, <2>4
<1> QED BY <1>4, <1>5 DEF Producer

(* A step that leaves the commands and the servos alone.                    *)
LEMMA QuietStep ==
    ASSUME UNCHANGED <<downlink, queue, legs>>, Closing' <=> Closing
    PROVE  ChannelStep
BY Zenon DEF ChannelStep, Waiting

(* A step that forgets the commands written, those queued, or neither.      *)
LEMMA DropStep ==
    ASSUME Shapes, Shapes', legs' = legs,
           \/ ~Closing /\ ~Closing' /\ downlink' = downlink /\ queue' = <<>>
           \/ ~Closing /\ ~Closing' /\ downlink' = <<>> /\ queue' = queue
           \/ ~Closing /\ Closing' /\ downlink' = downlink
    PROVE  ChannelStep
<1> DEFINE down == CommandsOf(downlink)
           q == CommandsOf(queue)
<1>1. down \in Seq(AllLetters) /\ q \in Seq(AllLetters) /\ Waiting = down \o q
  BY ChannelSteps, Zenon
<1>2. CommandsOf(<<>>) = <<>>
  BY CommandsOfSequences, Zenon
<1>3. Waiting' = down \/ Waiting' = q
  <2>1. down \o <<>> = down /\ <<>> \o q = q
    BY <1>1, ConcatEmptySeq
  <2> QED BY <1>2, <2>1, ChannelSteps, Zenon
<1> HIDE DEF down, q
<1>4. Waiting' \in Channel!Cuts(Waiting)
  <2>1. down \in Channel!Cuts(down \o q) /\ q \in Channel!Cuts(down \o q)
    BY <1>1, CutEnds
  <2> QED BY <1>1, <1>3, <2>1, Zenon
<1> QED BY <1>4, Zenon DEF ChannelStep, Channel!Next, Channel!Drop

(* A boot of the controller drops what was written, and switches off.       *)
LEMMA BootStep ==
    ASSUME Shapes, Shapes', NEW lines, Boots(lines), Closing' <=> Closing
    PROVE  ChannelStep
<1> DEFINE down == CommandsOf(downlink)
           q == CommandsOf(queue)
<1>1. down \in Seq(AllLetters) /\ q \in Seq(AllLetters) /\ <<>> \in Seq(AllLetters)
  BY ChannelSteps, Empty, Zenon
<1>2. CommandsOf(downlink') = <<>> /\ CommandsOf(queue') = q /\ legs' = FALSE
  BY CommandsOfSequences, Zenon DEF Boots, Shapes
<1>3. down \o <<>> = down /\ <<>> \o q = q
  BY <1>1, ConcatEmptySeq
<1>4. \/ Waiting = down \o q /\ Waiting' = q
      \/ Waiting = down /\ Waiting' = <<>>
  BY <1>2, <1>3, ChannelSteps, Zenon
<1> HIDE DEF down, q
<1>5. q \in Channel!Cuts(down \o q) /\ <<>> \in Channel!Cuts(down \o <<>>)
  BY <1>1, CutEnds
<1>6. Waiting' \in Channel!Cuts(Waiting)
  BY <1>3, <1>4, <1>5, Zenon
<1> QED BY <1>2, <1>6, Zenon DEF ChannelStep, Channel!Next, Channel!Boot

(* A command that nobody waits behind is written at once.                   *)
LEMMA WriteStep ==
    ASSUME Shapes, Shapes', NEW item \in Items, downlink' = Append(downlink, item), legs' = legs,
           \/ Closing /\ Closing'
           \/ ~Closing /\ ~Closing' /\ queue = <<>> /\ queue' = <<>>
    PROVE  ChannelStep
<1> DEFINE down == CommandsOf(downlink)
<1>1. /\ down \in Seq(AllLetters) /\ item.cmd \in AllLetters /\ CommandsOf(<<>>) = <<>>
      /\ CommandsOf(downlink') = Append(down, item.cmd)
  BY ItemParts, CommandsOfSequences, Zenon DEF Shapes
<1>2. /\ Append(down, item.cmd) \in Seq(AllLetters)
      /\ down \o <<>> = down /\ Append(down, item.cmd) \o <<>> = Append(down, item.cmd)
  BY <1>1, ConcatEmptySeq, AppendProperties
<1>3. Waiting = down /\ Waiting' = Append(down, item.cmd)
  BY <1>1, <1>2, ChannelSteps, Zenon
<1> HIDE DEF down
<1>4. down \in Channel!Cuts(down)
  BY <1>1, CutEnds
<1>5. Channel!Ask
  BY <1>1, <1>3, <1>4, Zenon DEF Channel!Ask
<1> QED BY <1>5, Zenon DEF ChannelStep, Channel!Next

(* serial_task takes the next command from the queue and writes it.         *)
LEMMA TakeStep ==
    ASSUME Shapes, Shapes', Take
    PROVE  ChannelStep
<1>1. /\ queue # <<>> /\ queue' = Tail(queue) /\ downlink' = Append(downlink, Head(queue))
      /\ phase = "idle" /\ phase' = "sending" /\ legs' = legs
  BY Zenon DEF Take, Send
<1>2. ~Closing /\ ~Closing'
  BY <1>1 DEF Closing
<1>3. queue \in Seq(Items) /\ downlink \in Seq(Items) /\ Head(queue) \in Items
  BY <1>1, HeadTailProperties DEF Shapes
<1> DEFINE down == CommandsOf(downlink)
           q == CommandsOf(queue)
<1>4. /\ q # <<>> /\ Head(q) = Head(queue).cmd /\ CommandsOf(queue') = Tail(q)
      /\ CommandsOf(downlink') = Append(down, Head(q))
  BY <1>1, <1>3, CommandsOfSequences, Zenon
<1>5. /\ down \in Seq(AllLetters) /\ q \in Seq(AllLetters) /\ Waiting = down \o q
      /\ Waiting' = Append(down, Head(q)) \o Tail(q)
  BY <1>2, <1>4, ChannelSteps, Zenon
<1> HIDE DEF down, q
<1>6. Append(down, Head(q)) \o Tail(q) = down \o q
  BY <1>4, <1>5, Handover
<1> QED BY <1>1, <1>5, <1>6, Zenon DEF ChannelStep

(* The controller executes the command whose turn it is.                    *)
LEMMA ExecuteStep ==
    ASSUME Shapes, Shapes', Execute
    PROVE  ChannelStep
<1>1. /\ downlink # <<>> /\ downlink' = Tail(downlink) /\ queue' = queue
      /\ Closing' <=> Closing
  BY Zenon DEF Execute, loopVars, Closing
<1> DEFINE down == CommandsOf(downlink)
           q == CommandsOf(queue)
<1>2. /\ down \in Seq(AllLetters) /\ q \in Seq(AllLetters) /\ down # <<>>
      /\ Head(down) = Head(downlink).cmd /\ CommandsOf(downlink') = Tail(down)
  BY <1>1, CommandsOfSequences, Zenon DEF Shapes
<1>3. \/ Waiting = down \o q /\ Waiting' = Tail(down) \o q
      \/ Waiting = down /\ Waiting' = Tail(down)
  BY <1>1, <1>2, ChannelSteps, Zenon
<1> HIDE DEF down, q
<1>4. down \o q # <<>> /\ Head(down \o q) = Head(down) /\ Tail(down \o q) = Tail(down) \o q
  BY <1>2, ConcatHead
<1>5. Waiting # <<>> /\ Waiting' = Tail(Waiting) /\ Head(Waiting) = Head(downlink).cmd
  BY <1>2, <1>3, <1>4, Zenon
<1>6. legs' \in CASE Head(downlink).cmd = "S" -> {legs, TRUE}
                   [] Head(downlink).cmd \in {"O", "E"} -> {FALSE}
                   [] OTHER -> {legs}
  BY Zenon DEF Execute
<1>7. Channel!Execute
  BY <1>5, <1>6, Zenon DEF Channel!Execute
<1> QED BY <1>7, Zenon DEF ChannelStep, Channel!Next

(* Every step of the link is a step of the channel, or none.                *)
LEMMA StepSimulation ==
    ASSUME Shapes, Shapes', Flags, [Next]_vars
    PROVE  ChannelStep
<1>1. CASE Producer
  BY <1>1, ProducerSteps, Zenon DEF ChannelStep
<1>2. CASE Open
  <2>1. ~Closing /\ ~Closing'
    BY <1>2 DEF Open, Closing
  <2>2. Boots(<<>>) \/ UNCHANGED <<downlink, queue, legs>>
    BY <1>2, Zenon DEF Open
  <2> QED BY <2>1, <2>2, BootStep, QuietStep, Zenon
<1>3. CASE Reboot
  <2>1. Boots(uplink) /\ (Closing' <=> Closing)
    BY <1>3, Zenon DEF Reboot, Closing
  <2> QED BY <2>1, BootStep, Zenon
<1>4. CASE Connect \/ Resume
  <2>1. ~Closing /\ ~Closing'
    BY <1>4 DEF Connect, Resume, Closing
  <2>2. downlink' = downlink /\ legs' = legs /\ (queue' = <<>> \/ queue' = queue)
    BY <1>4, Zenon DEF Connect, Resume, DiscardPending, wireVars
  <2> QED BY <2>1, <2>2, DropStep, QuietStep, Zenon
<1>5. CASE Take
  BY <1>5, TakeStep
<1>6. CASE Ping
  <2>1. ~Closing /\ ~Closing'
    BY <1>6 DEF Ping, Send, Closing
  <2>2. /\ queue = <<>> /\ queue' = <<>> /\ legs' = legs
        /\ downlink' = Append(downlink, Fresh("P"))
    BY <1>6, Zenon DEF Ping, Send
  <2>3. Fresh("P") \in Items
    BY LettersKnown, ItemTypes DEF Flags
  <2> QED BY <2>1, <2>2, <2>3, WriteStep, Zenon
<1>7. CASE PortFails \/ Cancel
  <2>1. ~Closing /\ legs' = legs /\ queue' = queue
    BY <1>7, Zenon DEF PortFails, Cancel, Closing, wireVars
  <2>2. CASE PortFails
    <3>1. ~Closing /\ ~Closing'
      BY <2>2 DEF PortFails, Closing
    <3>2. downlink' = downlink \/ downlink' = <<>>
      BY <2>2, Zenon DEF PortFails
    <3> QED BY <2>1, <3>1, <3>2, DropStep, QuietStep, Zenon
  <2>3. CASE Cancel
    <3>1. Closing' /\ ~Closing
      BY <2>3 DEF Cancel, Closing
    <3>2. downlink' = downlink
      BY <2>3, Zenon DEF Cancel, wireVars
    <3> QED BY <2>1, <3>1, <3>2, DropStep, Zenon
  <2> QED BY <1>7, <2>2, <2>3
<1>8. CASE Park
  <2>1. Closing /\ Closing'
    BY <1>8 DEF Park, Closing
  <2>2. legs' = legs /\ queue' = queue
    BY <1>8, Zenon DEF Park
  <2>3. CASE parkLeft = <<>>
    <3>1. downlink' = downlink
      BY <1>8, <2>3, Zenon DEF Park
    <3> QED BY <2>1, <2>2, <3>1, QuietStep, Zenon
  <2>4. CASE parkLeft # <<>>
    <3>1. downlink' = Append(downlink, Fresh(Head(parkLeft)))
      BY <1>8, <2>4, Zenon DEF Park
    <3>2. Fresh(Head(parkLeft)) \in Items
      <4>1. Head(parkLeft) \in AllLetters
        BY <2>4, HeadTailProperties DEF Shapes
      <4> QED BY <4>1, ItemTypes DEF Flags
    <3> QED BY <2>1, <2>2, <3>1, <3>2, WriteStep, Zenon
  <2> QED BY <2>3, <2>4
<1>9. CASE Execute
  BY <1>9, ExecuteStep
<1>10. CASE WaitLine \/ WaitTimeout \/ ReadLine \/ Timeout
  <2>1. ~Closing /\ ~Closing'
    BY <1>10 DEF WaitLine, WaitTimeout, ReadLine, Timeout, Closing
  <2>2. UNCHANGED <<downlink, queue, legs>>
    BY <1>10, Zenon DEF WaitLine, WaitTimeout, ReadLine, Timeout, wireVars
  <2> QED BY <2>1, <2>2, QuietStep, Zenon
<1>11. CASE ParkRead \/ ParkTimeout \/ ParkFails
  <2>1. Closing /\ Closing'
    BY <1>11 DEF ParkRead, ParkTimeout, ParkFails, Closing
  <2>2. UNCHANGED <<downlink, queue, legs>>
    BY <1>11, Zenon DEF ParkRead, ParkTimeout, ParkFails, wireVars
  <2> QED BY <2>1, <2>2, QuietStep, Zenon
<1>12. CASE HandleLine \/ OrphanRead \/ OrphanEnds \/ Report \/ Ended \/ UNCHANGED vars
  <2>1. UNCHANGED <<phase, downlink, queue, legs>>
    BY <1>12, Zenon DEF HandleLine, OrphanRead, OrphanEnds, Report, Ended, vars, loopVars, wireVars
  <2> QED BY <2>1, QuietStep, Zenon DEF Closing
<1> QED
  BY <1>1, <1>2, <1>3, <1>4, <1>5, <1>6, <1>7, <1>8, <1>9, <1>10, <1>11, <1>12, Zenon
  DEF Next, Task, Shutdown, Controller

(* write_command, offer, discard_pending and park together: at most once,   *)
(* in the order asked for, dropped but never doubled and never overtaken.   *)
THEOREM LinkImplementsChannel == Spec => ChannelSpec
<1>1. Init => Channel!Init
  <2> SUFFICES ASSUME Init PROVE Channel!Init
    OBVIOUS
  <2>1. downlink = <<>> /\ queue = <<>> /\ legs = FALSE /\ phase = "closed"
    BY Zenon DEF Init
  <2>2. <<>> \o <<>> = <<>>
    OBVIOUS
  <2>3. Waiting = <<>>
    BY <2>1, <2>2, CommandsOfSequences, Zenon DEF Waiting
  <2> QED BY <2>1, <2>3, Zenon DEF Channel!Init
<1>2. TypeOK /\ TypeOK' /\ [Next]_vars => [Channel!Next]_(Channel!channelVars)
  <2> SUFFICES ASSUME TypeOK, TypeOK', [Next]_vars
               PROVE  Channel!Next \/ UNCHANGED <<Waiting, legs>>
    BY DEF Channel!channelVars
  <2>1. Shapes /\ Flags /\ Shapes'
    BY TypeParts, Zenon DEF TypeOK, Shapes
  <2> QED BY <2>1, StepSimulation DEF ChannelStep
<1> QED BY <1>1, <1>2, LinkTypes, PTL DEF Spec, ChannelSpec, Channel!Spec

-----------------------------------------------------------------------------
(* A boot of the controller is not lost sight of.                           *)

(* The task is about to wait for the banner or handles one, or there is one *)
(* under way.                                                               *)
Noticing ==
    \/ phase \in {"closed", "waiting", "banner"}
    \/ phase = "answered" /\ reply = <<Ready>>
    \/ BannerUnderWay
ResetPending == ~known /\ ~Closing => Noticing

(* Only a task that is being cancelled leaves a worker behind, who could    *)
(* read the banner in its place.                                            *)
OrphanClosing == orphan # "none" => Closing

(* A line at the end of those under way hides none of the others.           *)
LEMMA BannerStays ==
    ASSUME Shapes, NEW l \in Lines, uplink' = Append(uplink, l)
    PROVE  (BannerUnderWay \/ l = Ready) => BannerUnderWay'
<1>1. uplink \in Seq(Lines)
  BY Zenon DEF Shapes
<1>2. /\ Len(uplink') = Len(uplink) + 1 /\ uplink'[Len(uplink) + 1] = l
      /\ \A i \in 1..Len(uplink) : i \in 1..Len(uplink') /\ uplink'[i] = uplink[i]
  <2> HIDE DEF Lines
  <2> QED BY <1>1
<1>3. Len(uplink) + 1 \in 1..Len(uplink')
  BY <1>1, <1>2
<1> QED BY <1>2, <1>3, Zenon DEF BannerUnderWay

(* Reading a line other than the banner leaves the banner under way.        *)
LEMMA BannerBehind ==
    ASSUME Shapes, uplink # <<>>, uplink' = Tail(uplink), BannerUnderWay, Head(uplink) # Ready
    PROVE  BannerUnderWay'
<1>1. uplink \in Seq(Lines)
  BY Zenon DEF Shapes
<1>2. PICK i \in 1..Len(uplink) : uplink[i] = Ready
  BY DEF BannerUnderWay
<1> HIDE DEF Lines
<1>3. i # 1
  BY <1>1, <1>2
<1>4. i - 1 \in 1..Len(uplink') /\ uplink'[i - 1] = Ready
  BY <1>1, <1>2, <1>3
<1> QED BY <1>4, Zenon DEF BannerUnderWay

(* Every step of the link keeps sight of it.                                *)
LEMMA PendingStep ==
    ASSUME Shapes, ResetPending, OrphanClosing, [Next]_vars
    PROVE  ResetPending' /\ OrphanClosing'
<1> USE DEF ResetPending, OrphanClosing
<1>1. CASE UNCHANGED <<phase, reply, orphan, uplink, known>>
  BY <1>1, Zenon DEF Closing, Noticing, BannerUnderWay
<1>2. CASE Open \/ WaitLine \/ WaitTimeout \/ PortFails
  <2>1. phase' \in {"closed", "waiting", "banner"} /\ UNCHANGED orphan
    BY <1>2 DEF Open, WaitLine, WaitTimeout, PortFails
  <2>2. phase \in {"closed", "waiting", "sending"}
    BY <1>2 DEF Open, WaitLine, WaitTimeout, PortFails
  <2> QED BY <2>1, <2>2 DEF Noticing, Closing
<1>3. CASE Connect
  <2>1. UNCHANGED <<orphan, uplink>> /\ known' = ~BannerUnderWay /\ phase = "banner"
    BY <1>3, Zenon DEF Connect, wireVars
  <2>2. BannerUnderWay' = BannerUnderWay
    BY <2>1, Zenon DEF BannerUnderWay
  <2> QED BY <2>1, <2>2 DEF Noticing, Closing
<1>4. CASE Take \/ Ping
  <2>1. /\ phase = "idle" /\ phase' = "sending" /\ UNCHANGED <<orphan, uplink, known>>
    BY <1>4, Zenon DEF Take, Ping, Send
  <2>2. BannerUnderWay' = BannerUnderWay
    BY <2>1, Zenon DEF BannerUnderWay
  <2> QED BY <2>1, <2>2 DEF Noticing, Closing
<1>5. CASE ReadLine
  <2>1. /\ phase = "sending" /\ uplink # <<>> /\ uplink' = Tail(uplink)
        /\ UNCHANGED <<orphan, known>>
        /\ phase' \in {"answered", "sending"}
    BY <1>5 DEF ReadLine
  <2>2. CASE Head(uplink) = Ready
    <3>1. phase' = "answered" /\ reply' = <<Ready>>
      BY <1>5, <2>2, Zenon DEF ReadLine, Answers
    <3> QED BY <2>1, <3>1 DEF Noticing, Closing
  <2>3. CASE Head(uplink) # Ready
    <3>1. BannerUnderWay => BannerUnderWay'
      BY <2>1, <2>3, BannerBehind
    <3> QED BY <2>1, <3>1 DEF Noticing, Closing
  <2> QED BY <2>2, <2>3
<1>6. CASE Timeout
  <2>1. /\ phase = "sending" /\ phase' = "answered" /\ UNCHANGED <<orphan, uplink, known>>
    BY <1>6, Zenon DEF Timeout, wireVars
  <2>2. BannerUnderWay' = BannerUnderWay
    BY <2>1, Zenon DEF BannerUnderWay
  <2> QED BY <2>1, <2>2 DEF Noticing, Closing
<1>7. CASE Resume
  <2>1. /\ phase = "answered" /\ phase' = "idle" /\ UNCHANGED <<orphan, uplink>>
        /\ known' = IF reply = <<Ready>> THEN ~BannerUnderWay ELSE known
    BY <1>7 DEF Resume, wireVars
  <2>2. BannerUnderWay' = BannerUnderWay
    BY <2>1, Zenon DEF BannerUnderWay
  <2> QED BY <2>1, <2>2 DEF Noticing, Closing
<1>8. CASE Cancel \/ Park \/ ParkRead \/ ParkTimeout \/ ParkFails
  <2>1. phase' \in {"parking", "parkWait", "stopped"}
    BY <1>8 DEF Cancel, Park, ParkRead, ParkTimeout, ParkFails
  <2> QED BY <2>1 DEF Closing
<1>9. CASE OrphanRead \/ OrphanEnds
  <2>1. orphan # "none" /\ UNCHANGED phase
    BY <1>9, Zenon DEF OrphanRead, OrphanEnds, loopVars
  <2> QED BY <2>1 DEF Closing
<1>10. CASE Execute \/ Report
  <2>1. UNCHANGED <<phase, reply, orphan, known>>
    BY <1>10, Zenon DEF Execute, Report, loopVars
  <2>2. uplink' = uplink \/ \E l \in Lines : uplink' = Append(uplink, l)
    <3>1. CASE Report
      BY <3>1, LineTypes, Zenon DEF Report
    <3>2. CASE Execute
      BY <3>2, ExecuteParts
    <3> QED BY <1>10, <3>1, <3>2
  <2>3. BannerUnderWay => BannerUnderWay'
    <3>1. uplink' = uplink => BannerUnderWay' = BannerUnderWay
      BY Zenon DEF BannerUnderWay
    <3> QED BY <2>2, <3>1, BannerStays
  <2> QED BY <2>1, <2>3, Zenon DEF Noticing, Closing
<1>11. CASE Reboot
  <2>1. uplink' = Append(uplink, Ready) /\ UNCHANGED <<phase, orphan>>
    BY <1>11, Zenon DEF Reboot, Boots
  <2>2. BannerUnderWay'
    BY <2>1, LineTypes, BannerStays
  <2> QED BY <2>1, <2>2, Zenon DEF Noticing, Closing
<1>12. \/ UNCHANGED <<phase, reply, orphan, uplink, known>>
       \/ Open \/ WaitLine \/ WaitTimeout \/ PortFails \/ Connect \/ Take \/ Ping \/ ReadLine
       \/ Timeout \/ Resume \/ Cancel \/ Park \/ ParkRead \/ ParkTimeout \/ ParkFails
       \/ OrphanRead \/ OrphanEnds \/ Execute \/ Report \/ Reboot
  BY Zenon DEF Next, Producer, Offer, OfferUrgent, Task, HandleLine, Shutdown, Controller, Ended,
     vars, loopVars, wireVars
<1> QED BY <1>1, <1>2, <1>3, <1>4, <1>5, <1>6, <1>7, <1>8, <1>9, <1>10, <1>11, <1>12

(* A boot of the controller that the Pi has not handled is before it: the   *)
(* port is to be opened, the banner is waited for or on its way, or its     *)
(* handling is the next thing serial_task does.  No timeout, late answer or *)
(* full queue makes the task go on as if the controller had not booted.     *)
THEOREM ResetNeverForgotten == Spec => []ResetPending
<1>1. Init => ResetPending /\ OrphanClosing
  BY DEF Init, ResetPending, OrphanClosing, Noticing
<1>2. TypeOK /\ ResetPending /\ OrphanClosing /\ [Next]_vars => ResetPending' /\ OrphanClosing'
  BY PendingStep, TypeParts, Zenon
<1> QED BY <1>1, <1>2, LinkTypes, PTL DEF Spec

=============================================================================
