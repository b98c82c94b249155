------------------------ MODULE MCBehaviorTreeProofs ------------------------
(***************************************************************************)
(* Proofs about the types of BehaviorTree and about what MCBehaviorTree    *)
(* remembers of the operator's wishes: whose authority a walk, a tuning    *)
(* command and a write to flash have, for every period and limit and every *)
(* set of messages and controller lines.                                   *)
(***************************************************************************)
EXTENDS MCBehaviorTree, BehaviorTreeProofs, SequenceTheorems

-----------------------------------------------------------------------------
(* Types.                                                                   *)

(* The groups of variables, as BehaviorTree groups them.                    *)
Switches == estop \in BOOLEAN /\ latched \in BOOLEAN /\ resend \in BOOLEAN
Faults == imuFault \in BOOLEAN /\ imuRetry \in BOOLEAN /\ imuHandled \in BOOLEAN
Falls == fallen \in BOOLEAN /\ announced \in BOOLEAN
Rests == resting \in BOOLEAN /\ restSent \in BOOLEAN
Legs == standing \in BOOLEAN /\ walking \in BOOLEAN /\ standWait \in 0..StandRetry
Walks == walkMove \in BOOLEAN /\ walkLeft \in 0..WalkMax
Waits == convLeft \in 0..ConvMax /\ beat \in 0..Heartbeat
Postures == postureLeft \in 0..PostureMax /\ alertNew \in BOOLEAN
Boxes ==
    /\ outbox \in Seq(Tuning) /\ Len(outbox) <= OutboxMax
    /\ flashLeft \in [Flash -> 0..FlashMin]
Sends == out \in Seq(Commands) /\ Len(out) <= OutboxMax + 2 /\ cue \in Cues

(* All groups but the outbox and what is sent.                              *)
Kept == Switches /\ Faults /\ Falls /\ Rests /\ Legs /\ Walks /\ Waits /\ Postures

(* The type invariant, group by group.                                      *)
LEMMA TypeParts == TypeOK <=> Kept /\ Boxes /\ Sends
<1>1. \A a, b, c, d, e, f, g : {a, b, c, d, e, f, g} \subseteq BOOLEAN <=>
         /\ a \in BOOLEAN /\ b \in BOOLEAN /\ c \in BOOLEAN /\ d \in BOOLEAN
         /\ e \in BOOLEAN /\ f \in BOOLEAN /\ g \in BOOLEAN
  OBVIOUS
<1> DEFINE flags == {estop, latched, resend, imuFault, imuRetry, imuHandled, fallen, announced,
                     resting, restSent, standing, walkMove, walking, alertNew}
<1>2. flags = {estop, latched, resend, imuFault, imuRetry, imuHandled, fallen}
                 \cup {announced, resting, restSent, standing, walkMove, walking, alertNew}
  BY Zenon
<1> HIDE DEF flags
<1>3. flags \subseteq BOOLEAN <=>
         /\ {estop, latched, resend, imuFault, imuRetry, imuHandled, fallen} \subseteq BOOLEAN
         /\ {announced, resting, restSent, standing, walkMove, walking, alertNew} \subseteq BOOLEAN
  BY <1>2, Zenon
<1>4. flags \subseteq BOOLEAN <=>
         /\ estop \in BOOLEAN /\ latched \in BOOLEAN /\ resend \in BOOLEAN
         /\ imuFault \in BOOLEAN /\ imuRetry \in BOOLEAN /\ imuHandled \in BOOLEAN
         /\ fallen \in BOOLEAN /\ announced \in BOOLEAN
         /\ resting \in BOOLEAN /\ restSent \in BOOLEAN
         /\ standing \in BOOLEAN /\ walkMove \in BOOLEAN /\ walking \in BOOLEAN
         /\ alertNew \in BOOLEAN
  BY <1>1, <1>3, Zenon
<1>5. TypeOK <=>
         /\ flags \subseteq BOOLEAN
         /\ standWait \in 0..StandRetry /\ walkLeft \in 0..WalkMax /\ beat \in 0..Heartbeat
         /\ convLeft \in 0..ConvMax /\ postureLeft \in 0..PostureMax
         /\ Boxes /\ Sends
  BY Zenon DEF TypeOK, Boxes, Sends, flags
<1> QED BY <1>4, <1>5, Zenon
        DEF Kept, Switches, Faults, Falls, Rests, Legs, Walks, Waits, Postures

(* Everything that limits a timer.                                          *)
Periods == {StandRetry, WalkMax, Heartbeat, ConvMax, PostureMax, FlashMin}

(* A timer of any period, set or counted down, stays within its period.     *)
LEMMA DecIn ==
    \A limit \in Periods : /\ limit \in Nat \ {0}
                           /\ 0 \in 0..limit /\ limit \in 0..limit /\ limit - 1 \in 0..limit
                           /\ \A n \in 0..limit : Dec(n) \in 0..limit
BY BehaviorTreeAssumption DEF Periods, Dec

(* The two truth values.                                                    *)
LEMMA Flags == TRUE \in BOOLEAN /\ FALSE \in BOOLEAN
OBVIOUS

(* A step keeps the types of every group of variables that it leaves alone. *)
LEMMA Untouched ==
    ASSUME Kept
    PROVE  /\ UNCHANGED estopVars => Switches'
           /\ UNCHANGED imuVars => Faults'
           /\ UNCHANGED fallVars => Falls'
           /\ UNCHANGED restVars => Rests'
           /\ UNCHANGED legVars => Legs'
           /\ UNCHANGED walkVars => Walks'
           /\ UNCHANGED <<beat, convLeft>> => Waits'
           /\ UNCHANGED postureVars => Postures'
<1>1. Switches /\ Faults /\ Falls /\ Rests /\ Legs /\ Walks /\ Waits /\ Postures
  BY Zenon DEF Kept
<1>2. UNCHANGED estopVars => Switches'
  BY <1>1, Zenon DEF Switches, estopVars
<1>3. UNCHANGED imuVars => Faults'
  BY <1>1, Zenon DEF Faults, imuVars
<1>4. UNCHANGED fallVars => Falls'
  BY <1>1, Zenon DEF Falls, fallVars
<1>5. UNCHANGED restVars => Rests'
  BY <1>1, Zenon DEF Rests, restVars
<1>6. UNCHANGED legVars => Legs'
  BY <1>1, Zenon DEF Legs, legVars
<1>7. UNCHANGED walkVars => Walks'
  BY <1>1, Zenon DEF Walks, walkVars
<1>8. UNCHANGED <<beat, convLeft>> => Waits'
  BY <1>1, Zenon DEF Waits
<1>9. UNCHANGED postureVars => Postures'
  BY <1>1, Zenon DEF Postures, postureVars
<1> QED BY <1>2, <1>3, <1>4, <1>5, <1>6, <1>7, <1>8, <1>9

(* A message that is accepted keeps the types,                              *)
LEMMA AcceptKeeps ==
    ASSUME Kept, NEW m, Accept(m)
    PROVE  Kept'
<1>1. /\ Switches /\ Faults /\ Falls /\ Rests /\ Legs /\ Walks /\ Waits /\ Postures
  BY Zenon DEF Kept
<1>2. ASSUME Error \/ Clear PROVE Kept'
  <2>1. /\ estop' = TRUE \/ estop' = FALSE
        /\ UNCHANGED <<latched, resend, imuVars, fallVars, restVars, legVars, walkVars, beat,
                       convLeft, postureVars>>
    BY <1>2, Zenon DEF Error, Clear
  <2>2. Switches'
    BY <1>1, <2>1, Flags, Zenon DEF Switches
  <2> QED BY <2>1, <2>2, Untouched, Zenon DEF Kept
<1>3. ASSUME Stand PROVE Kept'
  <2>1. /\ fallen' = FALSE /\ resting' = FALSE /\ walkLeft' = 0 /\ standWait' = 0
        /\ imuRetry' = (imuRetry \/ imuFault)
        /\ UNCHANGED <<estopVars, imuFault, imuHandled, announced, restSent, standing, walking,
                       walkMove, beat, convLeft, postureVars>>
    BY <1>3, Zenon DEF Stand
  <2>2. imuRetry' \in BOOLEAN /\ 0 \in 0..WalkMax /\ 0 \in 0..StandRetry
    <3>1. imuRetry' \in BOOLEAN
      BY <2>1
    <3> QED BY <3>1, DecIn, Zenon DEF Periods
  <2>3. Faults'
    BY <1>1, <2>1, <2>2, Zenon DEF Faults
  <2>4. Falls' /\ Rests'
    BY <1>1, <2>1, Flags, Zenon DEF Falls, Rests
  <2>5. Legs' /\ Walks'
    BY <1>1, <2>1, <2>2, Zenon DEF Legs, Walks
  <2> QED BY <2>1, <2>3, <2>4, <2>5, Untouched, Zenon DEF Kept
<1>4. ASSUME resting' = TRUE \/ resting' = FALSE \/ resting' = resting, restSent' = restSent,
             walkLeft' = walkLeft \/ walkLeft' \in 0..WalkMax,
             walkMove' = walkMove \/ walkMove' \in BOOLEAN,
             UNCHANGED <<estopVars, imuVars, fallVars, legVars, beat, convLeft, postureVars>>
      PROVE  Kept'
  <2>1. Rests'
    BY <1>1, <1>4, Flags, Zenon DEF Rests
  <2>2. Walks'
    BY <1>1, <1>4, Zenon DEF Walks
  <2> QED BY <1>4, <2>1, <2>2, Untouched, Zenon DEF Kept
<1>5. 0 \in 0..WalkMax
  BY DecIn, Zenon DEF Periods
<1>6. Rest \/ Stop => Kept'
  BY <1>4, <1>5, Zenon DEF Rest, Stop, restVars
<1>7. ASSUME NEW moving \in BOOLEAN, NEW ticks \in 0..WalkMax, WalkFor(moving, ticks) PROVE Kept'
  BY <1>4, <1>7, Zenon DEF WalkFor
<1>8. ASSUME Calibrate PROVE Kept'
  <2>1. /\ (resting' = TRUE /\ walkLeft' = 0) \/ UNCHANGED <<resting, walkLeft>>
        /\ restSent' = restSent /\ walkMove' = walkMove
        /\ UNCHANGED <<estopVars, imuVars, fallVars, legVars, beat, convLeft, postureVars>>
    BY <1>8, Zenon DEF Calibrate
  <2> QED BY <1>4, <1>5, <2>1, Zenon
<1>9. ASSUME (\E cmds : QueueRaw(cmds)) \/ Gains PROVE Kept'
  <2>1. UNCHANGED <<estopVars, imuVars, fallVars, restVars, legVars, walkVars, beat,
                    convLeft, postureVars>>
    BY <1>9, Zenon DEF QueueRaw, Gains
  <2> QED BY <2>1, Untouched, Zenon DEF Kept
<1>10. ASSUME NEW up, WakeFlag(up) PROVE Kept'
  <2>1. /\ convLeft' = (IF up THEN ConvMax ELSE 0)
        /\ UNCHANGED <<estopVars, imuVars, fallVars, restVars, legVars, walkVars, beat,
                       postureVars>>
    BY <1>10, Zenon DEF WakeFlag
  <2>2. Waits'
    BY <1>1, <2>1, DecIn, Zenon DEF Waits, Periods
  <2> QED BY <2>1, <2>2, Untouched, Zenon DEF Kept
<1>11. ASSUME NEW poor \in BOOLEAN, PostureState(poor) PROVE Kept'
  <2>1. /\ postureLeft' = (IF poor THEN PostureMax ELSE 0) /\ alertNew' = (alertNew \/ poor)
        /\ UNCHANGED <<estopVars, imuVars, fallVars, restVars, legVars, walkVars, beat,
                       convLeft>>
    BY <1>11, Zenon DEF PostureState
  <2>2. alertNew' \in BOOLEAN
    BY <2>1
  <2>3. Postures'
    BY <1>1, <2>1, <2>2, DecIn, Zenon DEF Postures, Periods
  <2> QED BY <2>1, <2>3, Untouched, Zenon DEF Kept
<1> QED BY <1>2, <1>3, <1>6, <1>7, <1>8, <1>9, <1>10, <1>11, Flags, Zenon DEF Accept

(* so does a controller line or a reconnection,                             *)
LEMMA LineKeepsTypes ==
    ASSUME Kept, Connected \/ \E l \in ControllerLines : SerialLine(l)
    PROVE  Kept'
<1>1. /\ Switches /\ Faults /\ Falls /\ Rests /\ Legs /\ Walks /\ Waits /\ Postures
  BY Zenon DEF Kept
<1>2. UNCHANGED <<restVars, walkVars, beat, convLeft, postureVars>>
  BY Zenon DEF Connected, SerialLine
<1>3. estop' = estop /\ latched' = latched /\ (resend' = resend \/ resend' = estop)
  BY Zenon DEF Connected, SerialLine, NanoReset, Ready, AckStand, AckImu, AckOff, Fell, ImuFailed,
               Watchdog, NotBalancing, estopVars
<1>4. imuFault' \in BOOLEAN /\ imuRetry' = imuRetry /\ imuHandled' = imuHandled
  <2>1. ASSUME imuVars' = imuVars
        PROVE  imuFault' \in BOOLEAN /\ imuRetry' = imuRetry /\ imuHandled' = imuHandled
    BY <1>1, <2>1, Zenon DEF imuVars, Faults
  <2>2. ASSUME NEW info, Ready(info) \/ AckStand(info)
        PROVE  imuFault' \in BOOLEAN /\ imuRetry' = imuRetry /\ imuHandled' = imuHandled
    <3>1. /\ imuFault' = (info = "NOIMU" /\ ~AllowNoImu)
          /\ imuRetry' = imuRetry /\ imuHandled' = imuHandled
      BY <2>2, Zenon DEF Ready, AckStand
    <3>2. imuFault' \in BOOLEAN
      BY <3>1
    <3> QED BY <3>1, <3>2
  <2>3. AckImu \/ ImuFailed => imuFault' \in BOOLEAN /\ imuRetry' = imuRetry
                               /\ imuHandled' = imuHandled
    BY Flags, Zenon DEF AckImu, ImuFailed
  <2> QED BY <2>1, <2>2, <2>3, Zenon
          DEF Connected, SerialLine, AckOff, Fell, Watchdog, NotBalancing
<1>5. (fallen' = fallen \/ fallen' = TRUE) /\ announced' = announced
  BY Zenon DEF Connected, SerialLine, Ready, AckStand, AckImu, AckOff, Fell, ImuFailed,
               Watchdog, NotBalancing, fallVars
<1>6. /\ standing' = standing \/ standing' = TRUE \/ standing' = FALSE
      /\ walking' = walking \/ walking' = FALSE
      /\ standWait' = standWait \/ standWait' = 0 \/ standWait' = StandRetry
  BY Zenon DEF Connected, SerialLine, NanoReset, Ready, AckStand, AckImu, AckOff, Fell, ImuFailed,
               Watchdog, NotBalancing, LegsOff, legVars
<1>7. Switches'
  BY <1>1, <1>3, Zenon DEF Switches
<1>8. Faults'
  BY <1>1, <1>4, Zenon DEF Faults
<1>9. Falls'
  BY <1>1, <1>5, Flags, Zenon DEF Falls
<1>10. Legs'
  <2>1. 0 \in 0..StandRetry /\ StandRetry \in 0..StandRetry
    BY DecIn, Zenon DEF Periods
  <2> QED BY <1>1, <1>6, <2>1, Flags, Zenon DEF Legs
<1> QED BY <1>2, <1>7, <1>8, <1>9, <1>10, Untouched, Zenon DEF Kept

(* and so does a tick.                                                      *)
LEMMA TickKeepsTypes ==
    ASSUME Kept, Tick
    PROVE  Kept'
<1>1. /\ Switches /\ Faults /\ Falls /\ Rests /\ Legs /\ Walks /\ Waits /\ Postures
  BY Zenon DEF Kept
<1>2. /\ convLeft' = Dec(convLeft) /\ postureLeft' = Dec(postureLeft) /\ walkMove' = walkMove
  BY Zenon DEF Tick
<1>3. /\ estop' = estop
      /\ latched' = latched \/ latched' = TRUE \/ latched' = FALSE
      /\ resend' = resend \/ resend' = FALSE
  BY Zenon DEF Tick, EStopBranch, HoldEStop, Latch, Released
<1>4. /\ imuFault' = imuFault
      /\ imuRetry' = imuRetry \/ imuRetry' = FALSE
      /\ imuHandled' = imuHandled \/ imuHandled' = TRUE \/ imuHandled' = FALSE
  BY Zenon DEF Tick, EStopBranch, Released, ImuFaultBranch, FallenBranch, RestBranch,
               ConversationBranch, PostureBranch, WalkBranch, IdleBranch, Free, imuVars
<1>5. /\ fallen' = fallen
      /\ announced' = announced \/ announced' = TRUE \/ announced' = FALSE
  BY Zenon DEF Tick, EStopBranch, Released, ImuFaultBranch, FallenBranch, RestBranch,
               ConversationBranch, PostureBranch, WalkBranch, IdleBranch, Free, fallVars
<1>6. /\ resting' = resting
      /\ restSent' = restSent \/ restSent' = TRUE \/ restSent' = FALSE
  BY Zenon DEF Tick, EStopBranch, Released, ImuFaultBranch, FallenBranch, RestBranch,
               ConversationBranch, PostureBranch, WalkBranch, IdleBranch, Free, restVars
<1>7. /\ standing' = standing \/ standing' = FALSE
      /\ standWait' = 0 \/ standWait' = StandRetry - 1 \/ standWait' = Dec(standWait)
  BY Zenon DEF Tick, EStopBranch, HoldEStop, Latch, Released, ImuFaultBranch, FallenBranch,
               RestBranch, ConversationBranch, PostureBranch, WalkBranch, IdleBranch, LegsOff,
               Idle, StandStill, StandTimer
<1>8. walking' \in BOOLEAN
  <2>1. CASE WalkBranch
    BY <2>1 DEF WalkBranch
  <2>2. CASE ~WalkBranch
    <3>1. walking' = walking \/ walking' = FALSE
      BY <2>2, Zenon DEF Tick, EStopBranch, HoldEStop, Latch, Released, ImuFaultBranch,
               FallenBranch, RestBranch, ConversationBranch, PostureBranch, IdleBranch, LegsOff,
               Idle, StandStill
    <3> QED BY <1>1, <3>1, Flags, Zenon DEF Legs
  <2> QED BY <2>1, <2>2
<1>9. walkLeft' = 0 \/ walkLeft' = Dec(walkLeft)
  BY Zenon DEF Tick, EStopBranch, HoldEStop, Latch, Released
<1>10. /\ beat' = Dec(beat) \/ beat' = Heartbeat - 1
       /\ alertNew' = alertNew \/ alertNew' = FALSE
  BY Zenon DEF Tick, EStopBranch, Released, ImuFaultBranch, FallenBranch, RestBranch,
               ConversationBranch, PostureBranch, WalkBranch, IdleBranch
<1>11. Switches'
  BY <1>1, <1>3, Flags, Zenon DEF Switches
<1>12. Faults' /\ Falls' /\ Rests'
  BY <1>1, <1>4, <1>5, <1>6, Flags, Zenon DEF Faults, Falls, Rests
<1>13. Legs' /\ Walks'
  <2>1. StandRetry \in Periods /\ WalkMax \in Periods
    BY Zenon DEF Periods
  <2>2. standWait' \in 0..StandRetry
    <3>1. standWait \in 0..StandRetry
      BY <1>1, Zenon DEF Legs
    <3>2. /\ 0 \in 0..StandRetry /\ StandRetry - 1 \in 0..StandRetry
          /\ Dec(standWait) \in 0..StandRetry
      BY <2>1, <3>1, DecIn, Zenon
    <3>3. standWait' = 0 \/ standWait' = StandRetry - 1 \/ standWait' = Dec(standWait)
      BY <1>7, Zenon
    <3> QED BY <3>2, <3>3
  <2>3. walkLeft' \in 0..WalkMax
    BY <1>1, <1>9, <2>1, DecIn, Zenon DEF Walks
  <2> QED BY <1>1, <1>2, <1>7, <1>8, <2>2, <2>3, Flags, Zenon DEF Legs, Walks
<1>14. Waits' /\ Postures'
  <2>1. ConvMax \in Periods /\ PostureMax \in Periods /\ Heartbeat \in Periods
    BY Zenon DEF Periods
  <2>2. convLeft' \in 0..ConvMax
    BY <1>1, <1>2, <2>1, DecIn, Zenon DEF Waits
  <2>3. postureLeft' \in 0..PostureMax
    BY <1>1, <1>2, <2>1, DecIn, Zenon DEF Postures
  <2>4. beat' \in 0..Heartbeat
    <3>1. beat \in 0..Heartbeat
      BY <1>1, Zenon DEF Waits
    <3>2. Dec(beat) \in 0..Heartbeat /\ Heartbeat - 1 \in 0..Heartbeat
      BY <2>1, <3>1, DecIn, Zenon
    <3>3. beat' = Dec(beat) \/ beat' = Heartbeat - 1
      BY <1>10, Zenon
    <3> QED BY <3>2, <3>3
  <2> QED BY <1>1, <1>10, <2>2, <2>3, <2>4, Flags, Zenon DEF Waits, Postures
<1> QED BY <1>11, <1>12, <1>13, <1>14, Zenon DEF Kept

-----------------------------------------------------------------------------
(* What a tick sends.                                                       *)

(* The tuning commands that this tick puts ahead of its branch.             *)
Passed == IF estop \/ latched THEN {} ELSE {outbox[i] : i \in 1..Len(outbox)}

(* Everything this tick can send.                                           *)
Sent == {"E", "R", "S", "W0", "I", "O", "G"} \cup Passed \cup (IF WalkActive THEN {"W"} ELSE {})

(* At most n commands of those this tick can send.                          *)
Few(q, n) == q \in Seq(Sent) /\ Len(q) <= n

(* Short sequences of what a tick can send, and how they join.              *)
LEMMA FewFacts ==
    /\ Few(<<>>, 0)
    /\ \A c \in {"E", "R", "S", "W0", "I", "O", "G"} : Few(<<c>>, 1)
    /\ WalkActive => Few(<<"W">>, 1)
    /\ \A a, b : \A m, n \in Nat : Few(a, m) /\ Few(b, n) => Few(a \o b, m + n)
    /\ \A a : \A m, n \in Nat : Few(a, m) /\ m <= n => Few(a, n)
<1>1. \A c \in Sent : <<c>> \in Seq(Sent) /\ Len(<<c>>) = 1
  OBVIOUS
<1>2. {"E", "R", "S", "W0", "I", "O", "G"} \subseteq Sent /\ (WalkActive => "W" \in Sent)
  BY DEF Sent
<1>3. \A a, b \in Seq(Sent) : a \o b \in Seq(Sent) /\ Len(a \o b) = Len(a) + Len(b)
                              /\ Len(a) \in Nat /\ Len(b) \in Nat
  OBVIOUS
<1>4. ASSUME NEW a, NEW b, NEW m \in Nat, NEW n \in Nat, Few(a, m), Few(b, n)
      PROVE  Few(a \o b, m + n)
  BY <1>3, <1>4 DEF Few
<1>5. ASSUME NEW a, NEW m \in Nat, NEW n \in Nat, Few(a, m), m <= n PROVE Few(a, n)
  BY <1>5 DEF Few
<1> QED BY <1>1, <1>2, <1>4, <1>5 DEF Few

(* What is put ahead of a branch fits the outbox.                           *)
LEMMA AheadFew == ASSUME Boxes, ~estop PROVE Few(Ahead, OutboxMax)
<1>1. OutboxMax \in Nat \ {0}
  BY BehaviorTreeAssumption
<1>2. CASE latched
  BY <1>1, <1>2, FewFacts DEF Ahead
<1>3. CASE ~latched
  <2>1. outbox \in Seq(Sent)
    <3>1. \A i \in 1..Len(outbox) : outbox[i] \in Sent
      BY <1>3 DEF Sent, Passed
    <3> QED BY <3>1 DEF Boxes
  <2> QED BY <1>3, <2>1 DEF Ahead, Few, Boxes
<1> QED BY <1>2, <1>3

(* A tick sends the outbox and at most two commands of its own.             *)
LEMMA TickSends ==
    ASSUME Tick, Boxes, WalkNeedsStand
    PROVE  Few(out', OutboxMax + 2)
<1>1. OutboxMax \in Nat /\ 0 \in Nat /\ 1 \in Nat /\ 2 \in Nat
  BY BehaviorTreeAssumption
<1>2. ASSUME NEW q, Few(q, 0) \/ Few(q, 1) PROVE Few(q, OutboxMax + 2)
  <2>1. 0 <= OutboxMax + 2 /\ 1 <= OutboxMax + 2 /\ OutboxMax + 2 \in Nat
    BY <1>1
  <2> QED BY <1>1, <1>2, <2>1, FewFacts, Zenon
<1>3. ASSUME EStopBranch PROVE Few(out', OutboxMax + 2)
  <2>1. out' = <<"E">> \/ out' = <<>>
    BY <1>3, Zenon DEF EStopBranch, HoldEStop, Latch
  <2> QED BY <1>2, <2>1, FewFacts
<1>4. ASSUME ~estop, NEW q, Few(q, 2) PROVE Few(Ahead \o q, OutboxMax + 2)
  BY <1>1, <1>4, AheadFew, FewFacts, Zenon
<1>5. ASSUME NEW q, Few(q, 0) \/ Few(q, 1) PROVE Few(q, 2)
  <2>1. 0 <= 2 /\ 1 <= 2
    OBVIOUS
  <2> QED BY <1>1, <1>5, <2>1, FewFacts, Zenon
<1>6. ASSUME NEW q, Few(q, 0) PROVE Few(q, 1)
  BY <1>1, <1>6, FewFacts
<1>7. ASSUME NEW sends PROVE Few(Relax(sends), 1)
  BY <1>6, FewFacts DEF Relax
<1>8. Few(RequestStand, 1)
  BY <1>6, FewFacts DEF RequestStand
<1>9. Few(EnsureStanding, 1)
  <2>1. CASE standing
    <3>1. Few(IF walking THEN <<"W0">> ELSE <<>>, 1) /\ Few(<<>>, 0)
      BY <1>6, FewFacts
    <3>2. Few(EnsureStanding, 1 + 0)
      <4>1. EnsureStanding = (IF walking THEN <<"W0">> ELSE <<>>) \o <<>>
        BY <2>1 DEF EnsureStanding
      <4> QED BY <1>1, <3>1, <4>1, FewFacts, Zenon
    <3> QED BY <3>2
  <2>2. CASE ~standing
    <3>1. ~walking
      BY <2>2, Zenon DEF WalkNeedsStand
    <3>2. EnsureStanding = <<>> \o RequestStand
      BY <2>2, <3>1 DEF EnsureStanding
    <3>3. Few(EnsureStanding, 0 + 1)
      BY <1>1, <1>8, <3>2, FewFacts, Zenon
    <3> QED BY <3>3
  <2> QED BY <2>1, <2>2
<1>10. ASSUME Released PROVE Few(out', OutboxMax + 2)
  <2>1. ~estop
    BY <1>10, Zenon DEF Released
  <2>2. ASSUME ImuFaultBranch PROVE Few(out', OutboxMax + 2)
    <3>1. PICK sends : out' = Ahead \o Relax(sends) \o Retry
      BY <2>2, Zenon DEF ImuFaultBranch
    <3>2. Few(Retry, 1)
      BY <1>6, FewFacts DEF Retry
    <3>3. Few(Ahead \o Relax(sends), OutboxMax + 1)
      BY <1>1, <1>7, <2>1, AheadFew, FewFacts, Zenon
    <3>4. OutboxMax + 1 \in Nat /\ (OutboxMax + 1) + 1 = OutboxMax + 2
      BY <1>1
    <3>5. Few(out', (OutboxMax + 1) + 1)
      BY <1>1, <3>1, <3>2, <3>3, <3>4, FewFacts, Zenon
    <3> QED BY <3>4, <3>5
  <2>3. ASSUME FallenBranch PROVE Few(out', OutboxMax + 2)
    <3>1. out' = Ahead /\ Few(Ahead, OutboxMax)
      BY <2>1, <2>3, AheadFew, Zenon DEF FallenBranch
    <3>2. OutboxMax + 2 \in Nat /\ OutboxMax <= OutboxMax + 2
      BY <1>1
    <3> QED BY <1>1, <3>1, <3>2, FewFacts, Zenon
  <2>4. ASSUME RestBranch PROVE Few(out', OutboxMax + 2)
    BY <1>4, <1>5, <1>7, <2>1, <2>4, Zenon DEF RestBranch
  <2>5. ASSUME ConversationBranch \/ IdleBranch PROVE Few(out', OutboxMax + 2)
    BY <1>4, <1>5, <1>9, <2>1, <2>5, Zenon DEF ConversationBranch, IdleBranch
  <2>6. ASSUME PostureBranch PROVE Few(out', OutboxMax + 2)
    <3> DEFINE gesture == IF alertNew /\ standing THEN <<"G">> ELSE <<>>
    <3>1. out' = (Ahead \o EnsureStanding) \o gesture
      BY <2>6, Zenon DEF PostureBranch
    <3>2. Few(Ahead \o EnsureStanding, OutboxMax + 1) /\ OutboxMax + 1 \in Nat
      <4>1. OutboxMax + 1 \in Nat
        BY <1>1
      <4> QED BY <1>1, <1>9, <2>1, <4>1, AheadFew, FewFacts, Zenon
    <3>3. Few(gesture, 1)
      BY <1>6, FewFacts
    <3> HIDE DEF gesture
    <3>4. Few(out', (OutboxMax + 1) + 1)
      BY <1>1, <3>1, <3>2, <3>3, FewFacts, Zenon
    <3>5. (OutboxMax + 1) + 1 = OutboxMax + 2
      BY <1>1
    <3> QED BY <3>4, <3>5
  <2>7. ASSUME WalkBranch PROVE Few(out', OutboxMax + 2)
    <3>1. /\ WalkActive
          /\ \/ out' = Ahead \o <<"W">>
             \/ out' = Ahead \o <<>>
             \/ out' = Ahead \o RequestStand
      BY <2>7, Zenon DEF WalkBranch
    <3>2. Few(<<"W">>, 2) /\ Few(<<>>, 2) /\ Few(RequestStand, 2)
      BY <1>5, <1>8, <3>1, FewFacts, Zenon
    <3> QED BY <1>4, <2>1, <3>1, <3>2, Zenon
  <2> QED BY <1>10, <2>2, <2>3, <2>4, <2>5, <2>6, <2>7, Zenon DEF Released
<1> QED BY <1>3, <1>10, Zenon DEF Tick

(* All that a tick can send are commands.                                   *)
LEMMA SendsTypes ==
    ASSUME Boxes, Few(out', OutboxMax + 2)
    PROVE  out' \in Seq(Commands) /\ Len(out') <= OutboxMax + 2
<1>1. Passed \subseteq Tuning
  BY DEF Passed, Boxes
<1>2. Sent \subseteq Commands
  BY <1>1 DEF Sent, Commands, Tuning
<1>3. out' \in Seq(Commands)
  <2>1. out' \in Seq(Sent)
    BY Zenon DEF Few
  <2>2. \A i \in 1..Len(out') : out'[i] \in Commands
    BY <1>2, <2>1
  <2> QED BY <2>1, <2>2
<1> QED BY <1>3, Zenon DEF Few

(* A step between two ticks sends nothing.                                  *)
LEMMA QuietTypes == Quiet => Sends'
<1>1. <<>> \in Seq(Commands) /\ Len(<<>>) <= OutboxMax + 2 /\ "none" \in Cues
  BY BehaviorTreeAssumption DEF Cues
<1> QED BY <1>1, Zenon DEF Quiet, Sends

(* The outbox keeps its limit: a message queues all of its commands or      *)
(* none.                                                                    *)
LEMMA BoxesKept ==
    ASSUME Boxes, Next
    PROVE  Boxes'
<1>1. outbox \in Seq(Tuning) /\ Len(outbox) <= OutboxMax /\ flashLeft \in [Flash -> 0..FlashMin]
  BY Zenon DEF Boxes
<1>2. FlashMin \in Periods
  BY Zenon DEF Periods
<1>3. CASE Tick
  <2>1. outbox' = outbox \/ outbox' = <<>>
    BY <1>3, Zenon DEF Tick, EStopBranch, HoldEStop, Latch, Released
  <2>2. flashLeft' = [c \in Flash |-> Dec(flashLeft[c])]
    BY <1>3, Zenon DEF Tick
  <2>3. flashLeft' \in [Flash -> 0..FlashMin]
    <3>1. \A c \in Flash : Dec(flashLeft[c]) \in 0..FlashMin
      BY <1>1, <1>2, DecIn, Zenon
    <3> QED BY <2>2, <3>1
  <2>4. <<>> \in Seq(Tuning) /\ Len(<<>>) <= OutboxMax
    BY BehaviorTreeAssumption
  <2> QED BY <1>1, <2>1, <2>3, <2>4, Zenon DEF Boxes
<1>4. ASSUME UNCHANGED outboxVars PROVE Boxes'
  BY <1>4, Zenon DEF outboxVars, Boxes
<1>5. ASSUME NEW cmds \in Seq(Tuning), outbox' = IF Fits(cmds) THEN outbox \o cmds ELSE outbox
      PROVE  outbox' \in Seq(Tuning) /\ Len(outbox') <= OutboxMax
  BY <1>1, <1>5 DEF Fits
<1>6. <<"G">> \in Seq(Tuning) /\ <<"T">> \in Seq(Tuning) /\ <<"D">> \in Seq(Tuning)
      /\ <<"K">> \in Seq(Tuning) /\ <<"O", "C">> \in Seq(Tuning)
  BY DEF Tuning
<1>7. ASSUME NEW cmds \in Seq(Tuning), QueueRaw(cmds) PROVE Boxes'
  <2>1. flashLeft' = flashLeft /\ outbox' = IF Fits(cmds) THEN outbox \o cmds ELSE outbox
    BY <1>7, Zenon DEF QueueRaw
  <2> QED BY <1>1, <1>5, <2>1, Zenon DEF Boxes
<1>8. ASSUME NEW c \in Flash, flashLeft' = [flashLeft EXCEPT ![c] = FlashMin]
      PROVE  flashLeft' \in [Flash -> 0..FlashMin]
  BY <1>1, <1>8, BehaviorTreeAssumption
<1>9. CASE Gains
  <2>1. CASE FlashQueued("gains", <<"K">>)
    <3>1. outbox' = Append(outbox, "K") /\ flashLeft' = [flashLeft EXCEPT !["gains"] = FlashMin]
      BY <1>9, <2>1, Zenon DEF Gains
    <3>2. Append(outbox, "K") = outbox \o <<"K">>
      BY <1>1
    <3>3. outbox' \in Seq(Tuning) /\ Len(outbox') <= OutboxMax
      BY <1>5, <1>6, <2>1, <3>1, <3>2, Zenon DEF FlashQueued
    <3> QED BY <1>8, <3>1, <3>3 DEF Flash, Boxes
  <2> QED BY <1>4, <1>9, <2>1, Zenon DEF Gains
<1>10. CASE Calibrate
  <2>1. CASE FlashQueued("calibrate", <<"O", "C">>)
    <3>1. /\ outbox' = outbox \o <<"O", "C">>
          /\ flashLeft' = [flashLeft EXCEPT !["calibrate"] = FlashMin]
      BY <1>10, <2>1, Zenon DEF Calibrate
    <3>2. outbox' \in Seq(Tuning) /\ Len(outbox') <= OutboxMax
      BY <1>5, <1>6, <2>1, <3>1, Zenon DEF FlashQueued
    <3> QED BY <1>8, <3>1, <3>2 DEF Flash, Boxes
  <2> QED BY <1>4, <1>10, <2>1, Zenon DEF Calibrate
<1>11. ASSUME NEW m, Message(m) PROVE Boxes'
  <2>1. CASE Refused(m)
    BY <1>4, <1>11, <2>1, Zenon DEF Message, Ignored
  <2>2. CASE ~Refused(m)
    <3>1. Accept(m)
      BY <1>11, <2>2, Zenon DEF Message
    <3> QED BY <1>4, <1>6, <1>7, <1>9, <1>10, <3>1, Zenon
            DEF Accept, Error, Clear, Stand, Rest, Stop, WalkFor, WakeFlag, PostureState
  <2> QED BY <2>1, <2>2
<1>12. CASE Connected \/ \E l \in ControllerLines : SerialLine(l)
  BY <1>4, <1>12, Zenon DEF Connected, SerialLine
<1> QED BY <1>3, <1>11, <1>12, Zenon DEF Next

(* TypeParts, for the next state.                                           *)
LEMMA TypePartsNext == TypeOK' <=> Kept' /\ Boxes' /\ Sends'
BY TypeParts, PTL

(* Every step keeps the types.                                              *)
LEMMA TypesKept ==
    ASSUME TypeOK, TreeInv, [Next]_vars
    PROVE  TypeOK'
<1>1. Kept /\ Boxes /\ Sends /\ WalkNeedsStand
  BY TypeParts, Zenon DEF TreeInv
<1>2. CASE Tick
  <2>1. Few(out', OutboxMax + 2)
    BY <1>1, <1>2, TickSends
  <2>2. cue' \in Cues
    <3>1. cue' \in {"none", "EMERGENCY_STOP", "IMU_FAULT", "FALLEN", "POSTURE_WARNING"}
      BY <1>2 DEF Tick, EStopBranch, HoldEStop, Latch, Released, ImuFaultBranch, FallenBranch,
                  RestBranch, ConversationBranch, PostureBranch, WalkBranch, IdleBranch
    <3> QED BY <3>1, Zenon DEF Cues
  <2>3. Sends'
    BY <1>1, <2>1, <2>2, SendsTypes, Zenon DEF Sends
  <2>4. Kept' /\ Boxes'
    BY <1>1, <1>2, TickKeepsTypes, BoxesKept, Zenon DEF Next
  <2> QED BY <2>3, <2>4, TypePartsNext, Zenon
<1>3. ASSUME NEW m \in Messages, Message(m) PROVE TypeOK'
  <2>1. Sends'
    BY <1>3, QuietTypes, Zenon DEF Message
  <2>2. Kept'
    <3>1. CASE Refused(m)
      <4>1. UNCHANGED <<estopVars, imuVars, fallVars, restVars, legVars, walkVars, beat, convLeft,
                        postureVars>>
        BY <1>3, <3>1, Zenon DEF Message, Ignored
      <4> QED BY <1>1, <4>1, Untouched, Zenon DEF Kept
    <3>2. CASE ~Refused(m)
      BY <1>1, <1>3, <3>2, AcceptKeeps, Zenon DEF Message
    <3> QED BY <3>1, <3>2
  <2>3. Boxes'
    BY <1>1, <1>3, BoxesKept, Zenon DEF Next
  <2> QED BY <2>1, <2>2, <2>3, TypePartsNext, Zenon
<1>4. CASE Connected \/ \E l \in ControllerLines : SerialLine(l)
  <2>1. Sends'
    BY <1>4, QuietTypes, Zenon DEF Connected, SerialLine
  <2>2. Kept' /\ Boxes'
    BY <1>1, <1>4, LineKeepsTypes, BoxesKept, Zenon DEF Next
  <2> QED BY <2>1, <2>2, TypePartsNext, Zenon
<1>5. CASE UNCHANGED vars
  <2>1. Kept'
    <3>1. UNCHANGED <<estopVars, imuVars, fallVars, restVars, legVars, walkVars, beat, convLeft,
                      postureVars>>
      BY <1>5, Zenon DEF vars
    <3> QED BY <1>1, <3>1, Untouched, Zenon DEF Kept
  <2>2. Boxes' /\ Sends'
    BY <1>1, <1>5, Zenon DEF vars, outboxVars, Boxes, Sends
  <2> QED BY <2>1, <2>2, TypePartsNext, Zenon
<1> QED BY <1>2, <1>3, <1>4, <1>5, Zenon DEF Next

(* They hold at first.                                                      *)
LEMMA TypesAtFirst == Init => TypeOK
<1> SUFFICES ASSUME Init PROVE TypeOK
  OBVIOUS
<1>1. /\ 0 \in 0..StandRetry /\ 0 \in 0..WalkMax /\ 0 \in 0..Heartbeat /\ 0 \in 0..ConvMax
      /\ 0 \in 0..PostureMax /\ 0 \in 0..FlashMin
  BY DecIn, Zenon DEF Periods
<1>2. Switches /\ Faults /\ Falls /\ Rests
  BY Flags, Zenon DEF Init, Switches, Faults, Falls, Rests
<1>3. Legs /\ Walks /\ Waits /\ Postures
  BY <1>1, Flags, Zenon DEF Init, Legs, Walks, Waits, Postures
<1>4. outbox = <<>> /\ flashLeft = [c \in Flash |-> 0] /\ out = <<>> /\ cue = "none"
  BY Zenon DEF Init
<1>5. Boxes
  BY <1>1, <1>4, BehaviorTreeAssumption DEF Boxes
<1>6. Sends
  BY <1>4, BehaviorTreeAssumption DEF Sends, Cues
<1> QED BY <1>2, <1>3, <1>5, <1>6, TypeParts, Zenon DEF Kept

(* The types of the tree, the limit of its outbox and of what one tick can  *)
(* send, for every limit and every set of messages and lines.               *)
THEOREM TreeTypes == Spec => []TypeOK
BY TypesAtFirst, TypesKept, TreeInvariant, PTL DEF Spec

-----------------------------------------------------------------------------
(* What the operator asked for.                                             *)

(* c is in q.                                                               *)
In(c, q) == \E i \in 1..Len(q) : q[i] = c

(* The tuning commands an operator can ask for.                             *)
Measured == {"T", "D", "K", "C"}

(* What is in a sequence, and in two of them joined.                        *)
LEMMA InFacts ==
    /\ \A c : ~In(c, <<>>)
    /\ \A c, d : In(c, <<d>>) <=> c = d
    /\ \A c : In(c, <<"O", "C">>) <=> c \in {"O", "C"}
    /\ \A q \in Seq(Tuning), r \in Seq(Tuning) : \A c : In(c, q \o r) <=> In(c, q) \/ In(c, r)
<1>1. (\A c : ~In(c, <<>>)) /\ (\A c, d : In(c, <<d>>) <=> c = d)
  BY DEF In
<1>2. \A c : In(c, <<"O", "C">>) <=> c \in {"O", "C"}
  BY DEF In
<1>3. ASSUME NEW q \in Seq(Tuning), NEW r \in Seq(Tuning), NEW c
      PROVE  In(c, q \o r) <=> In(c, q) \/ In(c, r)
  <2>1. /\ Len(q \o r) = Len(q) + Len(r) /\ Len(q) \in Nat /\ Len(r) \in Nat
        /\ \A i \in 1..Len(q) + Len(r) : (q \o r)[i] = IF i <= Len(q) THEN q[i] ELSE r[i - Len(q)]
    BY ConcatProperties
  <2>2. ASSUME In(c, q \o r) PROVE In(c, q) \/ In(c, r)
    <3>1. PICK i \in 1..Len(q) + Len(r) : (q \o r)[i] = c
      BY <2>1, <2>2 DEF In
    <3>2. CASE i <= Len(q)
      BY <2>1, <3>1, <3>2 DEF In
    <3>3. CASE ~(i <= Len(q))
      <4>1. i - Len(q) \in 1..Len(r) /\ r[i - Len(q)] = c
        BY <2>1, <3>1, <3>3
      <4> QED BY <4>1 DEF In
    <3> QED BY <3>2, <3>3
  <2>3. ASSUME In(c, q) PROVE In(c, q \o r)
    <3>1. PICK i \in 1..Len(q) : q[i] = c
      BY <2>3 DEF In
    <3>2. i \in 1..Len(q) + Len(r) /\ (q \o r)[i] = c
      BY <2>1, <3>1
    <3> QED BY <2>1, <3>2 DEF In
  <2>4. ASSUME In(c, r) PROVE In(c, q \o r)
    <3>1. PICK i \in 1..Len(r) : r[i] = c
      BY <2>4 DEF In
    <3>2. /\ i + Len(q) \in 1..Len(q) + Len(r) /\ ~(i + Len(q) <= Len(q))
          /\ (i + Len(q)) - Len(q) = i
      BY <2>1, <3>1
    <3>3. (q \o r)[i + Len(q)] = c
      BY <2>1, <3>1, <3>2
    <3> QED BY <2>1, <3>2, <3>3 DEF In
  <2> QED BY <2>2, <2>3, <2>4
<1> QED BY <1>1, <1>2, <1>3

(* A tick sends W only while a walk is active, and a measured command only  *)
(* from the outbox of a tree that no E-stop holds.                          *)
LEMMA EmitsIs ==
    ASSUME Tick, TypeOK, WalkNeedsStand
    PROVE  /\ Emits("W") => WalkActive
           /\ \A c \in Measured : Emits(c) => ~estop /\ ~latched /\ In(c, outbox)
<1>1. Boxes
  BY TypeParts
<1>2. out' \in Seq(Sent)
  BY <1>1, TickSends, Zenon DEF Few
<1>3. \A c : Emits(c) => c \in Sent
  BY <1>2 DEF Emits
<1>4. "W" \in Sent => WalkActive
  BY <1>1 DEF Sent, Passed, Boxes, Tuning
<1>5. \A c \in Measured : c \in Sent => ~estop /\ ~latched /\ In(c, outbox)
  BY DEF Measured, Sent, Passed, In
<1> QED BY <1>3, <1>4, <1>5, Zenon

(* Between two ticks nothing is sent.                                       *)
LEMMA QuietEmits == Quiet => \A c : ~Emits(c)
BY DEF Quiet, Emits

(* What each message puts into the outbox, and on which conditions.         *)
LEMMA MessageBox ==
    ASSUME NEW m, Message(m)
    PROVE  \/ UNCHANGED outboxVars
           \/ /\ m = "gesture" /\ outbox' = outbox \o <<"G">> /\ flashLeft' = flashLeft
           \/ /\ m = "telemetry" /\ ~estop
              /\ outbox' = outbox \o <<"T">> /\ flashLeft' = flashLeft
           \/ m = "distance" /\ outbox' = outbox \o <<"D">> /\ flashLeft' = flashLeft
           \/ /\ m = "gains" /\ ~estop /\ flashLeft["gains"] = 0
              /\ outbox' = Append(outbox, "K")
              /\ flashLeft' = [flashLeft EXCEPT !["gains"] = FlashMin]
           \/ /\ m = "calibrate" /\ ~estop /\ flashLeft["calibrate"] = 0
              /\ outbox' = outbox \o <<"O", "C">>
              /\ flashLeft' = [flashLeft EXCEPT !["calibrate"] = FlashMin]
<1>1. CASE Refused(m)
  BY <1>1, Zenon DEF Message, Ignored
<1>2. CASE ~Refused(m)
  <2>1. Accept(m)
    BY <1>2, Zenon DEF Message
  <2>2. ~estop \/ m \notin {"telemetry", "gains", "calibrate"}
    BY <1>2 DEF Refused, RefusedDuringEStop
  <2>3. m = "telemetry" \/ m = "gains" \/ m = "calibrate" => ~estop
    BY <2>2
  <2>4. ASSUME NEW cmds, QueueRaw(cmds)
        PROVE  UNCHANGED outboxVars \/ (outbox' = outbox \o cmds /\ flashLeft' = flashLeft)
    BY <2>4, Zenon DEF QueueRaw, outboxVars
  <2>5. Gains => \/ UNCHANGED outboxVars
                 \/ /\ flashLeft["gains"] = 0 /\ outbox' = Append(outbox, "K")
                    /\ flashLeft' = [flashLeft EXCEPT !["gains"] = FlashMin]
    BY Zenon DEF Gains, FlashQueued
  <2>6. Calibrate => \/ UNCHANGED outboxVars
                     \/ /\ flashLeft["calibrate"] = 0 /\ outbox' = outbox \o <<"O", "C">>
                        /\ flashLeft' = [flashLeft EXCEPT !["calibrate"] = FlashMin]
    BY Zenon DEF Calibrate, FlashQueued
  <2> QED BY <2>1, <2>3, <2>4, <2>5, <2>6, Zenon
          DEF Accept, Error, Clear, Stand, Rest, Stop, WalkFor, WakeFlag, PostureState
<1> QED BY <1>1, <1>2

(* What each message does to the walk that runs.                            *)
LEMMA MessageWalk ==
    ASSUME NEW m, Message(m)
    PROVE  /\ restSent' = restSent /\ latched' = latched
           /\ m \in {"stand", "rest", "stop"} => walkLeft' = 0
           /\ \/ walkMove' = walkMove /\ walkLeft' = walkLeft
              \/ walkLeft' = 0
              \/ m = "walk" /\ ~estop /\ walkLeft' \in 0..WalkMax
              \/ walkMove' = FALSE
<1>1. CASE Refused(m)
  <2>1. m \notin {"stand", "rest", "stop"}
    BY <1>1 DEF Refused, RefusedDuringEStop
  <2> QED BY <1>1, <2>1, Zenon DEF Message, Ignored, restVars, estopVars, walkVars
<1>2. CASE ~Refused(m)
  <2>1. Accept(m)
    BY <1>2, Zenon DEF Message
  <2>2. m = "walk" => ~estop
    BY <1>2 DEF Refused, RefusedDuringEStop
  <2>3. restSent' = restSent /\ latched' = latched
    BY <2>1, Zenon DEF Accept, Error, Clear, Stand, Rest, Stop, WalkFor, QueueRaw, Gains,
             Calibrate, WakeFlag, PostureState, restVars, estopVars
  <2>4. m \in {"stand", "rest", "stop"} => walkLeft' = 0
    BY <2>1 DEF Accept, Stand, Rest, Stop
  <2>5. \/ walkMove' = walkMove /\ walkLeft' = walkLeft
        \/ walkLeft' = 0
        \/ m = "walk" /\ walkLeft' \in 0..WalkMax
        \/ walkMove' = FALSE
    BY <2>1, Zenon DEF Accept, Error, Clear, Stand, Rest, Stop, WalkFor, QueueRaw, Gains,
             Calibrate, WakeFlag, PostureState, walkVars
  <2> QED BY <2>2, <2>3, <2>4, <2>5, Zenon
<1> QED BY <1>1, <1>2

(* The walk that runs is covered by the authority of the last walk command, *)
(* and a robot that was sent O for a rest is not walking.                   *)
Granted ==
    /\ walkGrant \in 0..WalkMax
    /\ walkMove => walkLeft <= walkGrant
    /\ restSent => ~walking

(* Outside a latched E-stop, whatever waits in the outbox was asked for     *)
(* since the last tick,                                                     *)
Asked == ~latched => \A c \in Measured : In(c, outbox) => c \in tuningAsked

(* and a command that writes to flash waits with its timer set; as long as  *)
(* the timer has not run out, the last such command is younger.             *)
SettingOf(c) == IF c = "K" THEN "gains" ELSE "calibrate"

Spaced ==
    \A c \in FlashLetters :
       /\ flashAge[c] \in 0..FlashMin
       /\ flashAge[c] + flashLeft[SettingOf(c)] >= FlashMin
       /\ ~latched /\ In(c, outbox) =>
             flashAge[c] = FlashMin /\ flashLeft[SettingOf(c)] = FlashMin

(* The inductive invariant of the history.                                  *)
HistoryInv == Granted /\ Asked /\ Spaced /\ flashAge \in [FlashLetters -> 0..FlashMin]

(* The two periods the history is about.                                    *)
LEMMA LimitsAre == WalkMax \in Nat \ {0} /\ FlashMin \in Nat \ {0}
BY BehaviorTreeAssumption

(* The types the history is about.                                          *)
LEMMA TypesAre ==
    TypeOK => /\ walkMove \in BOOLEAN /\ walkLeft \in 0..WalkMax
              /\ outbox \in Seq(Tuning) /\ flashLeft \in [Flash -> 0..FlashMin]
BY TypeParts, Zenon DEF Kept, Walks, Boxes

(* A tick lets the walk run out, and a latched E-stop ends it.              *)
LEMMA TickWalk ==
    ASSUME Tick
    PROVE  /\ walkMove' = walkMove
           /\ walkLeft' = 0 \/ walkLeft' = Dec(walkLeft)
           /\ estop /\ ~latched => walkLeft' = 0
<1>1. walkMove' = walkMove
  BY Zenon DEF Tick
<1>2. walkLeft' = 0 \/ walkLeft' = Dec(walkLeft)
  BY Zenon DEF Tick, EStopBranch, HoldEStop, Latch, Released
<1>3. estop /\ ~latched => walkLeft' = 0
  BY Zenon DEF Tick, EStopBranch, Latch, Released
<1> QED BY <1>1, <1>2, <1>3

(* Whoever sends O for a rest has stopped the walk.                         *)
LEMMA TickRest ==
    ASSUME Tick, restSent => ~walking
    PROVE  restSent' => ~walking'
BY Zenon DEF Tick, EStopBranch, HoldEStop, Latch, LegsOff, Released, ImuFaultBranch, FallenBranch,
     RestBranch, ConversationBranch, PostureBranch, WalkBranch, IdleBranch, Free, Idle, StandStill,
     restVars

(* The walk and its authority run out together,                             *)
LEMMA GrantedTick ==
    ASSUME TypeOK, Granted, Tick, HTick
    PROVE  Granted'
<1>1. walkMove' = walkMove /\ (walkLeft' = 0 \/ walkLeft' = Dec(walkLeft))
      /\ (estop /\ ~latched => walkLeft' = 0)
  BY TickWalk
<1>2. walkGrant' = IF estop /\ ~latched THEN 0 ELSE Dec(walkGrant)
  BY Zenon DEF HTick
<1>3. /\ walkLeft \in 0..WalkMax /\ walkGrant \in 0..WalkMax
      /\ walkMove => walkLeft <= walkGrant
  BY TypesAre, Zenon DEF Granted
<1>4. walkGrant' \in 0..WalkMax
  BY <1>2, <1>3, LimitsAre DEF Dec
<1>5. walkMove => walkLeft' <= walkGrant'
  <2> SUFFICES ASSUME walkMove PROVE walkLeft' <= walkGrant'
    OBVIOUS
  <2>1. walkLeft <= walkGrant
    BY <1>3
  <2>2. CASE estop /\ ~latched
    BY <1>1, <1>2, <2>2
  <2>3. CASE ~(estop /\ ~latched)
    <3>1. walkGrant' = Dec(walkGrant)
      BY <1>2, <2>3, Zenon
    <3> QED BY <1>1, <1>3, <1>4, <2>1, <3>1 DEF Dec
  <2> QED BY <2>2, <2>3
<1>6. restSent' => ~walking'
  BY TickRest, Zenon DEF Granted
<1> QED BY <1>1, <1>4, <1>5, <1>6, Zenon DEF Granted

(* and messages give and take them together.                                *)
LEMMA GrantedMessage ==
    ASSUME TypeOK, Granted, NEW m, Message(m), HMessage(m)
    PROVE  Granted'
<1>1. /\ restSent' = restSent
      /\ m \in {"stand", "rest", "stop"} => walkLeft' = 0
      /\ \/ walkMove' = walkMove /\ walkLeft' = walkLeft
         \/ walkLeft' = 0
         \/ m = "walk" /\ ~estop /\ walkLeft' \in 0..WalkMax
         \/ walkMove' = FALSE
  BY MessageWalk, Zenon
<1>2. walkGrant' = CASE m = "walk" /\ ~estop -> WalkMax
                     [] m \in {"stand", "rest", "stop"} -> 0
                     [] OTHER -> walkGrant
  BY Zenon DEF HMessage
<1>3. /\ walkLeft \in 0..WalkMax /\ walkGrant \in 0..WalkMax
      /\ walkMove => walkLeft <= walkGrant
  BY TypesAre, Zenon DEF Granted
<1>4. \/ m = "walk" /\ ~estop /\ walkGrant' = WalkMax
      \/ m \in {"stand", "rest", "stop"} /\ walkGrant' = 0
      \/ ~(m = "walk" /\ ~estop) /\ walkGrant' = walkGrant
  BY <1>2
<1>5. walkGrant' \in 0..WalkMax
  BY <1>3, <1>4, LimitsAre
<1>6. walkMove' => walkLeft' <= walkGrant'
  <2>1. CASE walkLeft' = 0
    BY <1>5, <2>1
  <2>2. CASE walkMove' = FALSE
    BY <2>2, Zenon
  <2>3. CASE m = "walk" /\ ~estop /\ walkLeft' \in 0..WalkMax
    BY <1>4, <2>3, LimitsAre
  <2>4. CASE walkMove' = walkMove /\ walkLeft' = walkLeft
    <3>1. CASE walkGrant' = WalkMax
      BY <1>3, <2>4, <3>1
    <3>2. CASE m \in {"stand", "rest", "stop"}
      BY <1>1, <2>1, <3>2
    <3>3. CASE walkGrant' = walkGrant
      BY <1>3, <2>4, <3>3, Zenon
    <3> QED BY <1>4, <3>1, <3>2, <3>3
  <2> QED BY <1>1, <2>1, <2>2, <2>3, <2>4, Zenon
<1>7. restSent' => ~walking'
  <2>1. walking' = walking
    BY MessageLegs, Zenon
  <2> QED BY <1>1, <2>1, Zenon DEF Granted
<1> QED BY <1>5, <1>6, <1>7, Zenon DEF Granted

(* What a message queues, it asks for;                                      *)
LEMMA AskedMessage ==
    ASSUME TypeOK, Asked, NEW m, Message(m), HMessage(m)
    PROVE  Asked'
<1>1. outbox \in Seq(Tuning) /\ latched' = latched
  BY TypesAre, MessageWalk, Zenon
<1>2. tuningAsked' = IF m \in DOMAIN TuningOf /\ (estop => m = "distance")
                     THEN tuningAsked \cup {TuningOf[m]} ELSE tuningAsked
  BY Zenon DEF HMessage
<1>3. tuningAsked \subseteq tuningAsked'
  BY <1>2
<1>4. /\ m = "telemetry" /\ ~estop => "T" \in tuningAsked'
      /\ m = "distance" => "D" \in tuningAsked'
      /\ m = "gains" /\ ~estop => "K" \in tuningAsked'
      /\ m = "calibrate" /\ ~estop => "C" \in tuningAsked'
  BY <1>2 DEF TuningOf
<1>5. /\ <<"G">> \in Seq(Tuning) /\ <<"T">> \in Seq(Tuning) /\ <<"D">> \in Seq(Tuning)
      /\ <<"K">> \in Seq(Tuning) /\ <<"O", "C">> \in Seq(Tuning)
      /\ Append(outbox, "K") = outbox \o <<"K">>
  BY <1>1 DEF Tuning
<1>6. ASSUME NEW c \in Measured, In(c, outbox') PROVE In(c, outbox) \/ c \in tuningAsked'
  <2>1. /\ In(c, outbox \o <<"G">>) => In(c, outbox) \/ c = "G"
        /\ In(c, outbox \o <<"T">>) => In(c, outbox) \/ c = "T"
        /\ In(c, outbox \o <<"D">>) => In(c, outbox) \/ c = "D"
        /\ In(c, outbox \o <<"K">>) => In(c, outbox) \/ c = "K"
        /\ In(c, outbox \o <<"O", "C">>) => In(c, outbox) \/ c = "O" \/ c = "C"
    <3>1. \A q \in Seq(Tuning) : In(c, outbox \o q) => In(c, outbox) \/ In(c, q)
      BY <1>1, InFacts, Zenon
    <3>2. \A d : In(c, <<d>>) => c = d
      BY InFacts, Zenon
    <3>3. In(c, <<"O", "C">>) => c = "O" \/ c = "C"
      <4>1. c \in {"O", "C"} => c = "O" \/ c = "C"
        OBVIOUS
      <4> QED BY <4>1, InFacts, Zenon
    <3> QED BY <1>5, <3>1, <3>2, <3>3, Zenon
  <2>2. c # "G" /\ c # "O"
    BY DEF Measured
  <2> QED BY <1>4, <1>5, <1>6, <2>1, <2>2, MessageBox, Zenon DEF outboxVars
<1> QED BY <1>1, <1>3, <1>6, Zenon DEF Asked

(* a tick empties the outbox, unless it holds a latched E-stop,             *)
LEMMA TickBox ==
    ASSUME Tick
    PROVE  \/ outbox' = <<>>
           \/ latched' = latched /\ latched /\ estop
BY Zenon DEF Tick, EStopBranch, HoldEStop, Latch, Released

(* so nothing asked for before it waits after it.                           *)
LEMMA AskedTick == ASSUME Tick PROVE Asked'
<1>1. CASE outbox' = <<>>
  <2>1. \A c : ~In(c, outbox')
    BY <1>1, InFacts, Zenon
  <2> QED BY <2>1, Zenon DEF Asked
<1>2. CASE latched' = latched /\ latched
  BY <1>2, Zenon DEF Asked
<1> QED BY <1>1, <1>2, TickBox, Zenon

(* A command that is sent to flash begins the wait for the next.            *)
LEMMA SpacedTick ==
    ASSUME TypeOK, WalkNeedsStand, Spaced, flashAge \in [FlashLetters -> 0..FlashMin], Tick, HTick
    PROVE  Spaced' /\ flashAge' \in [FlashLetters -> 0..FlashMin]
<1>1. flashLeft \in [Flash -> 0..FlashMin] /\ flashLeft' = [c \in Flash |-> Dec(flashLeft[c])]
  BY TypesAre, Zenon DEF Tick
<1>2. flashAge' = [c \in FlashLetters |->
                     IF Emits(c) THEN 1
                     ELSE IF flashAge[c] < FlashMin THEN flashAge[c] + 1 ELSE FlashMin]
  BY Zenon DEF HTick
<1>3. ASSUME NEW c \in FlashLetters
      PROVE  /\ flashAge'[c] \in 0..FlashMin
             /\ flashAge'[c] + flashLeft'[SettingOf(c)] >= FlashMin
             /\ ~latched' => ~In(c, outbox')
  <2> DEFINE s == SettingOf(c)
  <2>1. s \in Flash /\ c \in Measured
    BY <1>3 DEF SettingOf, Flash, FlashLetters, Measured
  <2>2. /\ flashAge[c] \in 0..FlashMin /\ flashAge[c] + flashLeft[s] >= FlashMin
        /\ ~latched /\ In(c, outbox) => flashAge[c] = FlashMin /\ flashLeft[s] = FlashMin
    BY <1>3, Zenon DEF Spaced
  <2>3. flashLeft'[s] = Dec(flashLeft[s]) /\ flashLeft[s] \in 0..FlashMin
    BY <1>1, <2>1
  <2> HIDE DEF s
  <2>4. ~latched' => ~In(c, outbox')
    <3>1. outbox' = <<>> => ~In(c, outbox')
      BY InFacts, Zenon
    <3> QED BY <3>1, TickBox, Zenon
  <2>5. CASE Emits(c)
    <3>1. flashLeft[s] = FlashMin
      BY <2>1, <2>2, <2>5, EmitsIs, Zenon
    <3>2. flashAge'[c] = 1
      BY <1>2, <1>3, <2>5
    <3> QED BY <2>3, <3>1, <3>2, LimitsAre, <2>4 DEF Dec, s
  <2>6. CASE ~Emits(c)
    <3>1. flashAge'[c] = IF flashAge[c] < FlashMin THEN flashAge[c] + 1 ELSE FlashMin
      BY <1>2, <1>3, <2>6
    <3> QED BY <2>2, <2>3, <2>4, <3>1, LimitsAre DEF Dec, s
  <2> QED BY <2>5, <2>6
<1>4. flashAge' \in [FlashLetters -> 0..FlashMin]
  <2>1. flashAge' = [c \in FlashLetters |-> flashAge'[c]]
    BY <1>2
  <2> QED BY <1>3, <2>1
<1> QED BY <1>3, <1>4, Zenon DEF Spaced

(* A step that leaves timers and flash commands alone.                      *)
LEMMA SpacedSame ==
    ASSUME Spaced, flashAge' = flashAge, flashLeft' = flashLeft, latched' = latched,
           \A c \in FlashLetters : In(c, outbox') => In(c, outbox)
    PROVE  Spaced'
BY Zenon DEF Spaced

(* A message queues a flash command only when the wait is over.             *)
LEMMA SpacedMessage ==
    ASSUME TypeOK, Spaced, NEW m, Message(m), HMessage(m)
    PROVE  Spaced'
<1>1. /\ outbox \in Seq(Tuning) /\ flashLeft \in [Flash -> 0..FlashMin]
      /\ latched' = latched /\ flashAge' = flashAge
  BY TypesAre, MessageWalk, Zenon DEF HMessage
<1>2. /\ <<"G">> \in Seq(Tuning) /\ <<"T">> \in Seq(Tuning) /\ <<"D">> \in Seq(Tuning)
      /\ <<"K">> \in Seq(Tuning) /\ <<"O", "C">> \in Seq(Tuning)
      /\ Append(outbox, "K") = outbox \o <<"K">>
  BY <1>1 DEF Tuning
<1>3. CASE UNCHANGED outboxVars
  <2>1. outbox' = outbox /\ flashLeft' = flashLeft
    BY <1>3, Zenon DEF outboxVars
  <2> QED BY <1>1, <2>1, SpacedSame, Zenon
<1>4. ASSUME NEW d \in {"G", "T", "D"}, outbox' = outbox \o <<d>>, flashLeft' = flashLeft
      PROVE  Spaced'
  <2>1. \A c \in FlashLetters : c # d
    BY DEF FlashLetters
  <2>2. <<d>> \in Seq(Tuning)
    BY DEF Tuning
  <2>3. \A c \in FlashLetters : In(c, outbox \o <<d>>) => In(c, outbox)
    <3>1. \A c : In(c, outbox \o <<d>>) <=> In(c, outbox) \/ In(c, <<d>>)
      BY <1>1, <2>2, InFacts, Zenon
    <3>2. \A c : In(c, <<d>>) <=> c = d
      BY InFacts, Zenon
    <3> QED BY <2>1, <3>1, <3>2, Zenon
  <2> QED BY <1>1, <1>4, <2>3, SpacedSame, Zenon
<1>5. ASSUME NEW d \in FlashLetters, flashLeft[SettingOf(d)] = 0,
             flashLeft' = [flashLeft EXCEPT ![SettingOf(d)] = FlashMin],
             \A c \in FlashLetters : c # d => (In(c, outbox') => In(c, outbox))
      PROVE  Spaced'
  <2>1. ASSUME NEW c \in FlashLetters
        PROVE  /\ flashAge'[c] \in 0..FlashMin
               /\ flashAge'[c] + flashLeft'[SettingOf(c)] >= FlashMin
               /\ ~latched' /\ In(c, outbox') =>
                     flashAge'[c] = FlashMin /\ flashLeft'[SettingOf(c)] = FlashMin
    <3>1. /\ flashAge[c] \in 0..FlashMin /\ flashAge[c] + flashLeft[SettingOf(c)] >= FlashMin
          /\ ~latched /\ In(c, outbox) =>
                flashAge[c] = FlashMin /\ flashLeft[SettingOf(c)] = FlashMin
      BY <2>1, Zenon DEF Spaced
    <3>2. /\ SettingOf(c) \in Flash /\ SettingOf(d) \in Flash
          /\ c # d => SettingOf(c) # SettingOf(d)
      BY <1>5, <2>1 DEF SettingOf, Flash, FlashLetters
    <3>3. CASE c = d
      BY <1>1, <1>5, <3>1, <3>2, <3>3, LimitsAre
    <3>4. CASE c # d
      <4>1. flashLeft'[SettingOf(c)] = flashLeft[SettingOf(c)]
        BY <1>1, <1>5, <3>2, <3>4
      <4> QED BY <1>1, <1>5, <2>1, <3>1, <3>4, <4>1, Zenon
    <3> QED BY <3>3, <3>4
  <2> QED BY <2>1, Zenon DEF Spaced
<1>6. /\ SettingOf("K") = "gains" /\ SettingOf("C") = "calibrate"
      /\ "K" \in FlashLetters /\ "C" \in FlashLetters
  BY DEF SettingOf, FlashLetters
<1>7. ASSUME flashLeft["gains"] = 0, outbox' = Append(outbox, "K"),
             flashLeft' = [flashLeft EXCEPT !["gains"] = FlashMin]
      PROVE  Spaced'
  <2>1. \A c \in FlashLetters : c # "K" => (In(c, outbox') => In(c, outbox))
    <3>1. \A c \in FlashLetters : c # "K" => ~In(c, <<"K">>)
      BY InFacts, Zenon
    <3>2. outbox' = outbox \o <<"K">>
      BY <1>2, <1>7, Zenon
    <3> QED BY <1>1, <1>2, <3>1, <3>2, InFacts, Zenon
  <2> QED BY <1>5, <1>6, <1>7, <2>1, Zenon
<1>8. ASSUME flashLeft["calibrate"] = 0, outbox' = outbox \o <<"O", "C">>,
             flashLeft' = [flashLeft EXCEPT !["calibrate"] = FlashMin]
      PROVE  Spaced'
  <2>1. \A c \in FlashLetters : c # "C" => (In(c, outbox') => In(c, outbox))
    <3>1. \A c \in FlashLetters : c # "C" => ~In(c, <<"O", "C">>)
      <4>1. \A c \in FlashLetters : c # "C" => c \notin {"O", "C"}
        BY DEF FlashLetters
      <4> QED BY <4>1, InFacts, Zenon
    <3>2. <<"O", "C">> \in Seq(Tuning)
      BY DEF Tuning
    <3>3. \A c : In(c, outbox \o <<"O", "C">>) => In(c, outbox) \/ In(c, <<"O", "C">>)
      BY <1>1, <3>2, InFacts, Zenon
    <3> QED BY <1>8, <3>1, <3>3, Zenon
  <2> QED BY <1>5, <1>6, <1>8, <2>1, Zenon
<1> QED BY <1>3, <1>4, <1>7, <1>8, MessageBox

(* Nothing is asked for at first.                                           *)
LEMMA HistoryAtFirst == MCInit => HistoryInv
<1> SUFFICES ASSUME MCInit PROVE HistoryInv
  OBVIOUS
<1>1. /\ walkGrant = 0 /\ walkMove = FALSE /\ restSent = FALSE /\ outbox = <<>>
      /\ flashAge = [c \in FlashLetters |-> FlashMin] /\ flashLeft = [c \in Flash |-> 0]
  BY Zenon DEF MCInit, HInit, Init
<1>2. \A c : ~In(c, outbox)
  BY <1>1, InFacts
<1>3. Granted
  <2>1. walkGrant \in 0..WalkMax
    BY <1>1, LimitsAre
  <2> QED BY <1>1, <2>1, Zenon DEF Granted
<1>4. Asked
  BY <1>2, Zenon DEF Asked
<1>5. Spaced /\ flashAge \in [FlashLetters -> 0..FlashMin]
  <2>1. ASSUME NEW c \in FlashLetters
        PROVE  flashAge[c] = FlashMin /\ flashLeft[SettingOf(c)] = 0
    BY <1>1, <2>1 DEF SettingOf, Flash
  <2> QED BY <1>1, <1>2, <2>1, LimitsAre DEF Spaced
<1> QED BY <1>3, <1>4, <1>5, Zenon DEF HistoryInv

(* Every step keeps the invariant of the history.                           *)
LEMMA HistoryKept ==
    ASSUME TypeOK, TreeInv, HistoryInv, [MCNext]_mcvars
    PROVE  HistoryInv'
<1>1. /\ WalkNeedsStand /\ Granted /\ Asked /\ Spaced
      /\ flashAge \in [FlashLetters -> 0..FlashMin]
  BY Zenon DEF TreeInv, HistoryInv
<1>2. CASE Tick /\ HTick
  BY <1>1, <1>2, GrantedTick, AskedTick, SpacedTick, Zenon DEF HistoryInv
<1>3. ASSUME NEW m \in Messages, Message(m), HMessage(m) PROVE HistoryInv'
  <2>1. flashAge' = flashAge
    BY <1>3, Zenon DEF HMessage
  <2> QED BY <1>1, <1>3, <2>1, GrantedMessage, AskedMessage, SpacedMessage, Zenon DEF HistoryInv
<1>4. CASE (Connected \/ \E l \in ControllerLines : SerialLine(l)) /\ UNCHANGED history
  <2>1. /\ restSent' = restSent /\ walkMove' = walkMove /\ walkLeft' = walkLeft
        /\ outbox' = outbox /\ flashLeft' = flashLeft
    BY <1>4, Zenon DEF Connected, SerialLine, restVars, walkVars, outboxVars
  <2>2. walking' = walking \/ walking' = FALSE
    BY <1>4, Zenon DEF Connected, SerialLine, NanoReset, Ready, AckStand, AckImu, AckOff, Fell,
             ImuFailed, Watchdog, NotBalancing, LegsOff, legVars
  <2>3. latched' = latched
    BY <1>4, Zenon DEF Connected, SerialLine, Ready, NanoReset, AckStand, AckImu, AckOff, Fell,
             ImuFailed, Watchdog, NotBalancing, estopVars
  <2>4. walkGrant' = walkGrant /\ tuningAsked' = tuningAsked /\ flashAge' = flashAge
    BY <1>4, Zenon DEF history
  <2>5. Granted'
    <3>1. restSent' => ~walking'
      <4>1. restSent => ~walking
        BY <1>1, Zenon DEF Granted
      <4> QED BY <2>1, <2>2, <4>1, Zenon
    <3> QED BY <1>1, <2>1, <2>4, <3>1, Zenon DEF Granted
  <2>6. Asked' /\ Spaced'
    BY <1>1, <2>1, <2>3, <2>4, Zenon DEF Asked, Spaced
  <2> QED BY <1>1, <2>4, <2>5, <2>6, Zenon DEF HistoryInv
<1>5. CASE UNCHANGED mcvars
  <2>1. /\ restSent' = restSent /\ walkMove' = walkMove /\ walkLeft' = walkLeft
        /\ outbox' = outbox /\ flashLeft' = flashLeft /\ walking' = walking /\ latched' = latched
        /\ walkGrant' = walkGrant /\ tuningAsked' = tuningAsked /\ flashAge' = flashAge
    BY <1>5, Zenon DEF mcvars, vars, history, estopVars, restVars, legVars, walkVars, outboxVars
  <2> QED BY <1>1, <2>1, Zenon DEF HistoryInv, Granted, Asked, Spaced
<1> QED BY <1>2, <1>3, <1>4, <1>5, Zenon DEF MCNext

(* The history is written beside the steps of the tree.                     *)
LEMMA HistorySteps == ASSUME [MCNext]_mcvars PROVE [Next]_vars
BY Zenon DEF MCNext, mcvars, Next

(* The tree's behaviour is untouched by what is remembered of it: the types *)
(* and the invariant of the tree hold beside it.                            *)
THEOREM HistoryInvariant == MCSpec => [](TypeOK /\ TreeInv /\ HistoryInv)
<1>1. MCInit => Init
  BY Zenon DEF MCInit
<1>2. MCSpec => Spec
  BY <1>1, HistorySteps, PTL DEF MCSpec, Spec
<1> QED BY <1>2, TreeTypes, TreeInvariant, HistoryAtFirst, HistoryKept, PTL DEF MCSpec

(* Only a tick sends a command.                                             *)
LEMMA Emitted ==
    ASSUME TypeOK, TreeInv, MCNext, NEW c \in Measured \cup {"W"}, Emits(c)
    PROVE  /\ Tick /\ HTick
           /\ c = "W" => WalkActive
           /\ c \in Measured => ~estop /\ ~latched /\ In(c, outbox)
<1>1. Tick /\ HTick
  <2>1. ~Quiet
    BY QuietEmits, Zenon
  <2> QED BY <2>1, Zenon DEF MCNext, Message, Connected, SerialLine
<1> QED BY <1>1, EmitsIs, Zenon DEF TreeInv

(* A walk is sent only on the authority of a walk command that is at most   *)
(* WALK_MAX_S old and that nothing has ended since.                         *)
THEOREM WalkAlwaysAuthorised == MCSpec => WalkAuthorised
<1>1. ASSUME TypeOK /\ TreeInv /\ HistoryInv, [MCNext]_mcvars
      PROVE  [Emits("W") => walkGrant > 0]_mcvars
  <2> SUFFICES ASSUME MCNext, Emits("W") PROVE walkGrant > 0
    BY <1>1, Zenon
  <2>1. walkLeft > 0 /\ walkMove
    BY <1>1, Emitted, Zenon DEF WalkActive
  <2>2. walkLeft \in 0..WalkMax /\ walkGrant \in 0..WalkMax /\ walkLeft <= walkGrant
    BY <1>1, <2>1, TypesAre, Zenon DEF HistoryInv, Granted
  <2> QED BY <2>1, <2>2, LimitsAre
<1> QED BY <1>1, HistoryInvariant, PTL DEF MCSpec, WalkAuthorised

(* A tick without authority stops the walk: a walking robot stands and has  *)
(* not been sent O, so every branch clears the walk.                        *)
LEMMA StopTick ==
    ASSUME TypeOK, TreeInv, Granted, walking, walkGrant = 0, ~estop, Tick
    PROVE  ~walking'
<1>1. standing /\ ~restSent
  BY Zenon DEF TreeInv, WalkNeedsStand, Granted
<1>2. ~WalkActive
  <2>1. walkLeft \in 0..WalkMax /\ (walkMove => walkLeft <= 0)
    BY TypesAre, Zenon DEF Granted
  <2> QED BY <2>1, LimitsAre DEF WalkActive
<1> QED BY <1>1, <1>2, Zenon
        DEF Tick, EStopBranch, Released, ImuFaultBranch, FallenBranch, RestBranch,
            ConversationBranch, PostureBranch, WalkBranch, IdleBranch, LegsOff, StandStill

(* When the authority for a walk is over, the next tick stops the robot.    *)
THEOREM WalkAlwaysStops == MCSpec => WalkStops
<1>1. ASSUME TypeOK /\ TreeInv /\ HistoryInv
      PROVE  [walking /\ walkGrant = 0 /\ ~estop /\ Tick => ~walking']_mcvars
  BY <1>1, StopTick, Zenon DEF HistoryInv
<1> QED BY <1>1, HistoryInvariant, PTL DEF WalkStops

(* A tuning command reaches the controller only in the first tick after it  *)
(* was asked for.                                                           *)
THEOREM TuningAlwaysAuthorised == MCSpec => TuningAuthorised
<1>1. ASSUME TypeOK /\ TreeInv /\ HistoryInv, [MCNext]_mcvars
      PROVE  [\A c \in {"T", "D", "K", "C"} : Emits(c) => c \in tuningAsked]_mcvars
  <2> SUFFICES ASSUME MCNext, NEW c \in Measured, Emits(c) PROVE c \in tuningAsked
    BY <1>1, Zenon DEF Measured
  <2>1. ~latched /\ In(c, outbox)
    BY <1>1, Emitted, Zenon
  <2> QED BY <1>1, <2>1, Zenon DEF HistoryInv, Asked
<1> QED BY <1>1, HistoryInvariant, PTL DEF MCSpec, TuningAuthorised

(* The controller's settings are rewritten at most once per                 *)
(* FLASH_WRITE_MIN_S by each of gains and calibrate.                        *)
THEOREM FlashAlwaysSpaced == MCSpec => FlashSpaced
<1>1. ASSUME TypeOK /\ TreeInv /\ HistoryInv, [MCNext]_mcvars
      PROVE  [\A c \in FlashLetters : Emits(c) => flashAge[c] = FlashMin]_mcvars
  <2> SUFFICES ASSUME MCNext, NEW c \in FlashLetters, Emits(c) PROVE flashAge[c] = FlashMin
    BY <1>1, Zenon
  <2>1. c \in Measured
    BY DEF FlashLetters, Measured
  <2>2. ~latched /\ In(c, outbox)
    BY <1>1, <2>1, Emitted, Zenon
  <2> QED BY <1>1, <2>2, Zenon DEF HistoryInv, Spaced
<1> QED BY <1>1, HistoryInvariant, PTL DEF MCSpec, FlashSpaced

=============================================================================
