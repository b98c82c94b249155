------------------------- MODULE BehaviorTreeProofs -------------------------
(***************************************************************************)
(* Proofs about BehaviorTree, for every value of its periods and limits    *)
(* and for every set of messages and controller lines.                     *)
(***************************************************************************)
EXTENDS BehaviorTree, TLAPS

(* The outbox holds tuning commands only: what goes ahead of a branch never *)
(* moves the robot.                                                         *)
OutboxTuning == outbox \in Seq(Tuning)

TreeInv == WalkNeedsStand /\ OutboxTuning

(* Commands that neither stand the robot up nor let it walk.                *)
Harmless == Tuning \cup {"E", "R", "I"}

(* MQTT messages leave the believed legs alone.                             *)
LEMMA MessageLegs == ASSUME NEW m, Message(m) PROVE UNCHANGED <<standing, walking>>
<1>1. CASE Refused(m)
  BY <1>1 DEF Message, Ignored, legVars
<1>2. CASE ~Refused(m)
  <2>1. Accept(m)
    BY <1>2 DEF Message
  <2> QED
    BY <2>1 DEF Accept, Error, Clear, Stand, Rest, Stop, WalkFor, QueueRaw, Gains, Calibrate,
                WakeFlag, PostureState, legVars
<1> QED BY <1>1, <1>2

(* MQTT messages put nothing but tuning commands into the outbox.           *)
LEMMA MessageOutbox == ASSUME NEW m, Message(m), OutboxTuning PROVE OutboxTuning'
<1>1. <<"G">> \in Seq(Tuning) /\ <<"T">> \in Seq(Tuning) /\ <<"D">> \in Seq(Tuning)
  BY DEF Tuning
<1>2. <<"O", "C">> \in Seq(Tuning) /\ "K" \in Tuning
  BY DEF Tuning
<1>3. CASE Refused(m)
  BY <1>3 DEF Message, Ignored, outboxVars, OutboxTuning
<1>4. CASE ~Refused(m)
  <2>1. Accept(m)
    BY <1>4 DEF Message
  <2>2. ASSUME NEW cmds \in Seq(Tuning), QueueRaw(cmds) PROVE OutboxTuning'
    BY <2>2 DEF QueueRaw, OutboxTuning
  <2>3. CASE Gains
    <3>1. outbox' = Append(outbox, "K") \/ outbox' = outbox
      BY <2>3, Zenon DEF Gains, outboxVars
    <3> QED BY <1>2, <3>1 DEF OutboxTuning
  <2>4. CASE Calibrate
    <3>1. outbox' = outbox \o <<"O", "C">> \/ outbox' = outbox
      BY <2>4 DEF Calibrate, outboxVars
    <3>2. outbox \o <<"O", "C">> \in Seq(Tuning)
      BY <1>2 DEF OutboxTuning
    <3> QED BY <3>1, <3>2 DEF OutboxTuning
  <2>5. CASE UNCHANGED outbox
    BY <2>5 DEF OutboxTuning
  <2> QED
    BY <1>1, <2>1, <2>2, <2>3, <2>4, <2>5
    DEF Accept, Error, Clear, Stand, Rest, Stop, WalkFor, WakeFlag, PostureState, outboxVars
<1> QED BY <1>3, <1>4

(* A tick keeps a walking robot standing: every branch that gives up the    *)
(* stand gives up the walk, and W is sent to a standing robot only.         *)
LEMMA TickLegs == ASSUME Tick, WalkNeedsStand PROVE WalkNeedsStand'
<1>1. CASE EStopBranch
  BY <1>1 DEF EStopBranch, HoldEStop, Latch, LegsOff, WalkNeedsStand
<1>2. CASE ImuFaultBranch
  BY <1>2 DEF ImuFaultBranch, Idle, LegsOff, WalkNeedsStand
<1>3. CASE FallenBranch
  BY <1>3 DEF FallenBranch, LegsOff, WalkNeedsStand
<1>4. CASE RestBranch
  BY <1>4 DEF RestBranch, Idle, LegsOff, WalkNeedsStand
<1>5. CASE ConversationBranch \/ PostureBranch \/ IdleBranch
  BY <1>5 DEF ConversationBranch, PostureBranch, IdleBranch, StandStill, WalkNeedsStand
<1>6. CASE WalkBranch
  BY <1>6 DEF WalkBranch, WalkNeedsStand
<1> QED BY <1>1, <1>2, <1>3, <1>4, <1>5, <1>6 DEF Tick, Released

(* A tick leaves the outbox empty, or as it was during a held E-stop.       *)
LEMMA TickOutbox == ASSUME Tick, OutboxTuning PROVE OutboxTuning'
<1>1. outbox' = outbox \/ outbox' = <<>>
  BY DEF Tick, EStopBranch, HoldEStop, Latch, Released
<1>2. <<>> \in Seq(Tuning)
  BY DEF Tuning
<1> QED BY <1>1, <1>2 DEF OutboxTuning

(* Controller lines keep a walking robot standing: whatever takes the stand *)
(* away takes the walk away.                                                *)
LEMMA LineKeeps ==
    ASSUME TreeInv, Connected \/ \E l : SerialLine(l) PROVE TreeInv'
<1>1. CASE Connected
  BY <1>1 DEF Connected, NanoReset, LegsOff, TreeInv, WalkNeedsStand, OutboxTuning, outboxVars
<1>2. ASSUME NEW l, SerialLine(l) PROVE TreeInv'
  <2>1. OutboxTuning'
    BY <1>2 DEF SerialLine, TreeInv, OutboxTuning, outboxVars
  <2>2. WalkNeedsStand'
    <3>1. \/ UNCHANGED <<standing, walking>>
          \/ standing' = TRUE /\ UNCHANGED walking
          \/ walking' = FALSE
      BY <1>2, Zenon
      DEF SerialLine, Ready, AckStand, AckImu, AckOff, Fell, ImuFailed, Watchdog,
          NotBalancing, NanoReset, LegsOff, legVars
    <3> QED BY <3>1 DEF TreeInv, WalkNeedsStand
  <2> QED BY <2>1, <2>2 DEF TreeInv
<1> QED BY <1>1, <1>2

(* TreeInv is an invariant of the tree.                                     *)
THEOREM TreeInvariant == Spec => []TreeInv
<1>1. Init => TreeInv
  <2>1. <<>> \in Seq(Tuning)
    BY DEF Tuning
  <2> QED BY <2>1 DEF Init, TreeInv, WalkNeedsStand, OutboxTuning
<1>2. TreeInv /\ [Next]_vars => TreeInv'
  <2> SUFFICES ASSUME TreeInv, [Next]_vars PROVE TreeInv'
    OBVIOUS
  <2>1. CASE Tick
    BY <2>1, TickLegs, TickOutbox DEF TreeInv
  <2>2. ASSUME NEW m \in Messages, Message(m) PROVE TreeInv'
    BY <2>2, MessageLegs, MessageOutbox DEF TreeInv, WalkNeedsStand
  <2>3. CASE Connected \/ \E l \in ControllerLines : SerialLine(l)
    BY <2>3, LineKeeps
  <2>4. CASE UNCHANGED vars
    BY <2>4 DEF vars, legVars, outboxVars, TreeInv, WalkNeedsStand, OutboxTuning
  <2> QED BY <2>1, <2>2, <2>3, <2>4 DEF Next
<1> QED BY <1>1, <1>2, PTL DEF Spec

(* The tree never believes the robot walks without believing it stands.     *)
THEOREM WalkAlwaysNeedsStand == Spec => []WalkNeedsStand
  BY TreeInvariant, PTL DEF TreeInv

(* A step whose commands are all harmless emits neither S nor W.            *)
LEMMA HarmlessOut == ASSUME out' \in Seq(Harmless) PROVE ~Emits("S") /\ ~Emits("W")
<1>1. \A i \in 1..Len(out') : out'[i] \in Harmless
  OBVIOUS
<1> QED BY <1>1 DEF Emits, Harmless, Tuning

(* What is put ahead of a branch is harmless.                               *)
LEMMA AheadHarmless == ASSUME OutboxTuning PROVE Ahead \in Seq(Harmless)
<1>1. \A i \in 1..Len(outbox) : outbox[i] \in Harmless
  BY DEF OutboxTuning, Harmless
<1>2. outbox \in Seq(Harmless)
  BY <1>1 DEF OutboxTuning
<1>3. <<"R">> \in Seq(Harmless)
  BY DEF Harmless
<1> QED BY <1>2, <1>3 DEF Ahead

(* A tick of a blocked robot runs one of the four top branches, and each of *)
(* them sends harmless commands only.                                       *)
LEMMA BlockedTick == ASSUME OutboxTuning, Tick, Blocked PROVE out' \in Seq(Harmless)
<1>1. <<>> \in Seq(Harmless) /\ <<"E">> \in Seq(Harmless) /\ <<"I">> \in Seq(Harmless)
  BY DEF Harmless
<1>2. ASSUME NEW sends PROVE Relax(sends) \in Seq(Harmless)
  <2>1. <<"O">> \in Seq(Harmless)
    BY DEF Harmless, Tuning
  <2> QED BY <1>1, <2>1 DEF Relax
<1>3. \A s, t \in Seq(Harmless) : s \o t \in Seq(Harmless)
  OBVIOUS
<1>4. CASE EStopBranch
  BY <1>1, <1>4 DEF EStopBranch, HoldEStop, Latch
<1>5. CASE ImuFaultBranch
  <2> DEFINE relax == ~imuHandled \/ standing
  <2>1. Ahead \o Relax(relax) \in Seq(Harmless)
    BY <1>2, <1>3, AheadHarmless
  <2>2. Retry \in Seq(Harmless)
    BY <1>1 DEF Retry
  <2>3. out' = (Ahead \o Relax(relax)) \o Retry
    BY <1>5 DEF ImuFaultBranch
  <2> QED BY <1>3, <2>1, <2>2, <2>3
<1>6. CASE FallenBranch
  BY <1>6, AheadHarmless DEF FallenBranch
<1>7. CASE RestBranch
  BY <1>2, <1>3, <1>7, AheadHarmless DEF RestBranch
<1>8. ~(Released /\ Free)
  BY DEF Released, Free, Blocked
<1> QED
  BY <1>4, <1>5, <1>6, <1>7, <1>8
  DEF Tick, Released, ConversationBranch, PostureBranch, WalkBranch, IdleBranch

(* While an E-stop, an IMU fault, a fall or a rest is in force, no tick     *)
(* asks for a stand or a walk.                                              *)
THEOREM BlockedNeverMoves == Spec => NoMotionWhileBlocked
<1>1. ASSUME TreeInv, [Next]_vars
      PROVE [Blocked => ~Emits("S") /\ ~Emits("W")]_vars
  <2>1. CASE Tick
    BY <1>1, <2>1, BlockedTick, HarmlessOut DEF TreeInv
  <2>2. CASE Quiet
    <3>1. <<>> \in Seq(Harmless)
      BY DEF Harmless
    <3> QED BY <2>2, <3>1, HarmlessOut DEF Quiet
  <2> QED BY <1>1, <2>1, <2>2 DEF Next, Message, SerialLine, Connected
<1> QED BY <1>1, TreeInvariant, PTL DEF Spec, NoMotionWhileBlocked

=============================================================================
