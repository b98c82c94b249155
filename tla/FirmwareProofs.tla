--------------------------- MODULE FirmwareProofs ---------------------------
(***************************************************************************)
(* Proofs about Firmware, for every value of its limits.  IInv is the      *)
(* inductive invariant: the four safety properties, which support each     *)
(* other, the types, and the bound on the failure counter of a live IMU.   *)
(* Under it the ticks that a robot on the floor can still push against it  *)
(* are counted down.                                                       *)
(***************************************************************************)
EXTENDS Firmware, TLAPS

(* A live IMU has not reached the failure limit: the missing half of the    *)
(* counter's type.                                                          *)
Counting == imuOk => imuFailCount < ImuFailLimit

Safe == EStopHolds /\ PoweredInMode /\ NoBlindWalk /\ WalkIsFed

Core == RangesOK /\ Counting /\ Safe

IInv == FlagsOK /\ Core

(* Every line the handlers build is a line of the protocol.                 *)
LEMMA LinesBuilt ==
    /\ \A c \in Letters : Ack(c) \in Lines
    /\ \A c \in Letters, r \in Reasons : Nack(c, r) \in Lines
    /\ \A e \in {"FALLEN", "WATCHDOG", "IMU_FAIL"} : Evt(e) \in Lines
    /\ \A ok \in BOOLEAN : Ready(ok) \in Lines
    /\ [Ack("S") EXCEPT !.info = "NOIMU"] \in Lines
    /\ [Ack("S") EXCEPT !.info = ""] \in Lines
<1>1. \A c \in Letters : Ack(c) \in Lines
  BY DEF Ack, Lines
<1>2. \A c \in Letters, r \in Reasons : Nack(c, r) \in Lines
  BY DEF Nack, Lines
<1>3. \A e \in {"FALLEN", "WATCHDOG", "IMU_FAIL"} : Evt(e) \in Lines
  BY DEF Evt, Lines
<1>4. \A ok \in BOOLEAN : Ready(ok) \in Lines
  BY DEF Ready, Lines
<1>5. /\ [Ack("S") EXCEPT !.info = "NOIMU"] \in Lines
      /\ [Ack("S") EXCEPT !.info = ""] \in Lines
  BY DEF Ack, Lines, Letters
<1> QED BY <1>1, <1>2, <1>3, <1>4, <1>5

(* What a handler answers, nothing or one line, is a sequence of lines.     *)
LEMMA ShortOutput == <<>> \in Seq(Lines) /\ \A l \in Lines : <<l>> \in Seq(Lines)
  OBVIOUS

(* The Boolean variables stay Boolean.                                      *)
LEMMA FlagsKept == FlagsOK /\ [Next]_vars => FlagsOK'
<1> SUFFICES ASSUME FlagsOK, [Next]_vars PROVE FlagsOK'
  OBVIOUS
<1> USE DEF FlagsOK, imuVars, gaitVars, fallVars, Refuse, StopGait
<1>1. CASE CmdStand
  <2>1. imuOk' \in BOOLEAN /\ imuLost' \in BOOLEAN /\ filterReady' \in BOOLEAN
    BY <1>1, Zenon DEF CmdStand, ImuRetry
  <2>2. /\ estopLatched' \in BOOLEAN /\ gait' \in BOOLEAN
        /\ fallTiming' \in BOOLEAN /\ servos' \in BOOLEAN
    BY <1>1, Zenon DEF CmdStand, StandUp
  <2> QED BY <2>1, <2>2
<1>2. ASSUME NEW moving \in BOOLEAN, CmdWalk(moving) PROVE FlagsOK'
  BY <1>2, Zenon DEF CmdWalk
<1>3. CASE CmdGesture \/ CmdRelax \/ CmdEStop \/ CmdRelease
  BY <1>3, Zenon DEF CmdGesture, CmdRelax, CmdEStop, CmdRelease
<1>4. CASE CmdJoint
  BY <1>4, Zenon DEF CmdJoint
<1>5. CASE CmdImu
  BY <1>5, Zenon DEF CmdImu, ImuRetry
<1>6. CASE CmdCalibrate
  BY <1>6, Zenon DEF CmdCalibrate
<1>7. CASE CmdDistance \/ CmdNoEffect
  BY <1>7, Zenon DEF CmdDistance, CmdNoEffect
<1>8. CASE Reset
  BY <1>8, Zenon DEF Reset, Booted
<1>9. CASE Tick
  <2> SUFFICES ASSUME NEW answers \in BOOLEAN, NEW zone \in Zones, ControlTick(answers, zone)
               PROVE  FlagsOK'
    BY <1>9 DEF Tick
  <2>1. imuOk' \in BOOLEAN /\ imuLost' \in BOOLEAN /\ filterReady' \in BOOLEAN
    BY Zenon DEF ControlTick, ImuUpdate, Measure
  <2>2. fallTiming' \in BOOLEAN
    BY Zenon DEF ControlTick, FallTimer
  <2>3. estopLatched' \in BOOLEAN /\ gait' \in BOOLEAN /\ servos' \in BOOLEAN
    BY Zenon DEF ControlTick, EnterFallen, DriveLegs
  <2> QED BY <2>1, <2>2, <2>3
<1>10. CASE UNCHANGED vars
  BY <1>10, Zenon DEF vars
<1> QED BY <1>1, <1>2, <1>3, <1>4, <1>5, <1>6, <1>7, <1>8, <1>9, <1>10 DEF Next, Command

(* The initial states satisfy the invariant.                                *)
LEMMA InitIInv == Init => IInv
<1> SUFFICES ASSUME Init PROVE IInv
  OBVIOUS
<1>1. FlagsOK
  BY Zenon DEF Init, FlagsOK
<1>2. sent \in Seq(Lines)
  <2>1. Ready(imuOk) \in Lines
    BY LinesBuilt DEF Init
  <2> QED BY <2>1 DEF Init
<1>3. RangesOK
  BY <1>2, FirmwareAssumption DEF Init, RangesOK, Modes, Zones
<1>4. Counting /\ Safe
  BY FirmwareAssumption
  DEF Init, Counting, Safe, EStopHolds, PoweredInMode, NoBlindWalk, WalkIsFed
<1> QED BY <1>1, <1>3, <1>4 DEF IInv, Core

(* A reset starts from the same place.                                      *)
LEMMA ResetCore == Reset => Core'
<1> SUFFICES ASSUME Reset PROVE Core'
  OBVIOUS
<1>1. sent' \in Seq(Lines)
  <2>1. Ready(imuOk') \in Lines
    BY LinesBuilt DEF Reset, Booted
  <2> QED BY <2>1 DEF Reset, Booted
<1>2. RangesOK'
  BY <1>1, FirmwareAssumption DEF Reset, Booted, RangesOK, Modes, Zones
<1>3. Counting' /\ Safe'
  BY FirmwareAssumption
  DEF Reset, Booted, Counting, Safe, EStopHolds, PoweredInMode, NoBlindWalk, WalkIsFed
<1> QED BY <1>2, <1>3 DEF Core

(* What a handler may do to the IMU variables without breaking the          *)
(* invariant, and that re-initialising the IMU does no more.                *)
ImuKept ==
    /\ imuFailCount' \in 0..ImuFailLimit
    /\ pitch' \in Zones /\ body' \in Zones /\ lag' \in 0..FilterTicks
    /\ imuOk' => imuFailCount' < ImuFailLimit
    /\ imuLost' => imuLost /\ ~imuOk'

(* The filter is never further behind than FilterTicks reads,               *)
LEMMA LagTypes == ASSUME IInv, NEW zone PROVE Lag(zone) \in 0..FilterTicks
  BY FirmwareAssumption DEF Lag, IInv, Core, RangesOK

(* and a read that works leaves it no further.                              *)
LEMMA MeasureTypes ==
    ASSUME IInv, NEW zone \in Zones, Measure(zone)
    PROVE  body' = zone /\ pitch' \in Zones /\ lag' \in 0..FilterTicks
<1>1. pitch \in Zones /\ Between(pitch, zone) \subseteq Zones
  BY DEF IInv, Core, RangesOK, Between, Zones
<1> QED BY <1>1, LagTypes, FirmwareAssumption DEF Measure

(* A handler that may re-initialise the IMU keeps the IMU part of IInv.     *)
LEMMA ImuRetryKeeps == IInv /\ (ImuRetry \/ UNCHANGED imuVars) => ImuKept
<1> SUFFICES ASSUME IInv, ImuRetry \/ UNCHANGED imuVars PROVE ImuKept
  OBVIOUS
<1>1. CASE UNCHANGED imuVars
  BY <1>1 DEF ImuKept, imuVars, IInv, Core, RangesOK, Counting, Safe, NoBlindWalk
<1>2. CASE /\ imuOk' = FALSE /\ imuFailCount' = 0 /\ body' \in Zones /\ lag' = 0
           /\ UNCHANGED <<imuLost, pitch>>
  BY <1>2, FirmwareAssumption DEF ImuKept, IInv, Core, RangesOK
<1>3. CASE /\ imuOk' = TRUE /\ imuLost' = FALSE /\ imuFailCount' \in {0, 1}
           /\ body' \in Zones /\ pitch' \in Zones /\ lag' = 0
  BY <1>3, FirmwareAssumption DEF ImuKept
<1> QED BY <1>1, <1>2, <1>3 DEF ImuRetry, IInv, Core, RangesOK

(* A handler that only answers, whatever it does to the IMU variables.      *)
MotionKept == UNCHANGED <<mode, estopLatched, gait, sinceWalk, bob, fallFor, servos>>

(* Such a handler keeps the invariant.                                      *)
LEMMA AnswerCore ==
    ASSUME IInv, ImuKept, MotionKept, sent' \in Seq(Lines)
    PROVE  Core'
  BY DEF ImuKept, MotionKept, IInv, Core, RangesOK, Counting, Safe, EStopHolds, PoweredInMode,
         NoBlindWalk, WalkIsFed

(* A refused command keeps the invariant.                                   *)
LEMMA RefuseCore ==
    ASSUME IInv, ImuKept, NEW c \in Letters, NEW r \in Reasons, Refuse(c, r)
    PROVE  Core'
<1>1. sent' \in Seq(Lines)
  <2>1. Nack(c, r) \in Lines
    BY LinesBuilt
  <2> QED BY <2>1 DEF Refuse, Reply
<1>2. MotionKept
  BY DEF Refuse, MotionKept, gaitVars, fallVars
<1> QED BY <1>1, <1>2, AnswerCore

(* S keeps the invariant: it is the only handler that may bring the IMU     *)
(* back and power the legs in the same step.                                *)
LEMMA StandCore == IInv /\ CmdStand => Core'
<1> SUFFICES ASSUME IInv, CmdStand PROVE Core'
  OBVIOUS
<1>1. ImuKept
  BY ImuRetryKeeps DEF CmdStand
<1>2. ASSUME NEW r \in {"ESTOP", "NOIMU", "TILTED"}, Refuse("S", r) PROVE Core'
  <2> "S" \in Letters /\ r \in Reasons
    BY <1>2 DEF Letters, Reasons
  <2> QED BY <1>1, <1>2, RefuseCore
<1>3. CASE ~estopLatched /\ StandUp
  <2>1. CASE Refuse("S", "TILTED")
    BY <1>2, <2>1
  <2>2. CASE /\ IF mode = "B" THEN UNCHANGED <<mode, gaitVars, fallVars, servos>>
                ELSE /\ mode' = "B" /\ servos' = TRUE
                     /\ StopGait
                     /\ fallTiming' = FALSE /\ UNCHANGED fallFor
             /\ Reply([Ack("S") EXCEPT !.info = IF imuOk' THEN "" ELSE "NOIMU"])
             /\ UNCHANGED estopLatched
    <3>1. sent' \in Seq(Lines)
      <4>1. [Ack("S") EXCEPT !.info = IF imuOk' THEN "" ELSE "NOIMU"] \in Lines
        BY LinesBuilt
      <4> QED BY <2>2, <4>1, ShortOutput DEF Reply
    <3>2. CASE mode = "B"
      <4>1. MotionKept
        BY <2>2, <3>2 DEF MotionKept, gaitVars, fallVars
      <4> QED BY <1>1, <3>1, <4>1, AnswerCore
    <3>3. CASE mode # "B"
      <4>1. /\ mode' = "B" /\ servos' = TRUE /\ gait' = FALSE /\ bob' = 0
            /\ sinceWalk' = sinceWalk /\ fallFor' = fallFor /\ estopLatched' = estopLatched
        BY <2>2, <3>3 DEF StopGait
      <4>2. RangesOK'
        BY <1>1, <3>1, <4>1, FirmwareAssumption DEF ImuKept, IInv, Core, RangesOK, Modes
      <4> QED BY <1>1, <1>3, <4>1, <4>2
        DEF ImuKept, Core, Counting, Safe, EStopHolds, PoweredInMode, NoBlindWalk, WalkIsFed
    <3> QED BY <3>2, <3>3
  <2> QED BY <1>3, <2>1, <2>2 DEF StandUp
<1>4. CASE Refuse("S", "ESTOP") \/ Refuse("S", "NOIMU")
  BY <1>2, <1>4
<1> QED BY <1>3, <1>4 DEF CmdStand

(* W, G and J keep the invariant: the handlers that can start motion.       *)
LEMMA WalkCore == ASSUME NEW moving \in BOOLEAN, IInv, CmdWalk(moving) PROVE Core'
<1>1. UNCHANGED imuVars /\ ImuKept
  BY ImuRetryKeeps DEF CmdWalk
<1>2. CASE estopLatched \/ mode # "B" \/ imuLost
  <2>1. \E r \in Reasons : Refuse("W", r)
    BY <1>2 DEF CmdWalk, Reasons
  <2>2. "W" \in Letters
    BY DEF Letters
  <2> QED BY <1>1, <2>1, <2>2, RefuseCore
<1>3. CASE ~estopLatched /\ mode = "B" /\ ~imuLost
  <2>1. /\ gait' = moving /\ sinceWalk' = 0 /\ sent' = <<Ack("W")>>
        /\ UNCHANGED <<mode, estopLatched, bob, fallFor, servos>>
    BY <1>3 DEF CmdWalk, Reply, fallVars
  <2>2. sent' \in Seq(Lines)
    <3> "W" \in Letters
      BY DEF Letters
    <3>1. Ack("W") \in Lines
      BY LinesBuilt
    <3> QED BY <2>1, <3>1
  <2>3. RangesOK'
    BY <1>1, <2>1, <2>2, FirmwareAssumption DEF ImuKept, IInv, Core, RangesOK
  <2> QED BY <1>1, <1>3, <2>1, <2>3, FirmwareAssumption
    DEF ImuKept, imuVars, IInv, Core, Counting, Safe, EStopHolds, PoweredInMode, NoBlindWalk,
        WalkIsFed
<1> QED BY <1>2, <1>3

(* G: the bob is added to a stance that is powered already.                 *)
LEMMA GestureCore == IInv /\ CmdGesture => Core'
<1> SUFFICES ASSUME IInv, CmdGesture PROVE Core'
  OBVIOUS
<1> "G" \in Letters /\ "MODE" \in Reasons
  BY DEF Letters, Reasons
<1>1. UNCHANGED imuVars /\ ImuKept
  BY ImuRetryKeeps DEF CmdGesture
<1>2. CASE mode # "B"
  BY <1>1, <1>2, RefuseCore DEF CmdGesture
<1>3. CASE mode = "B"
  <2>1. /\ bob' = BobTicks /\ sent' = <<Ack("G")>>
        /\ UNCHANGED <<mode, estopLatched, gait, sinceWalk, fallFor, servos>>
    BY <1>3 DEF CmdGesture, Reply, fallVars
  <2>2. sent' \in Seq(Lines)
    <3>1. Ack("G") \in Lines
      BY LinesBuilt
    <3> QED BY <2>1, <3>1
  <2>3. RangesOK'
    BY <1>1, <2>1, <2>2, FirmwareAssumption DEF ImuKept, IInv, Core, RangesOK
  <2> QED BY <1>1, <2>1, <2>3
    DEF ImuKept, IInv, Core, Counting, Safe, EStopHolds, PoweredInMode, NoBlindWalk, WalkIsFed
<1> QED BY <1>2, <1>3

(* J: manual mode takes over the outputs, unless the latch is closed.       *)
LEMMA JointCore == IInv /\ CmdJoint => Core'
<1> SUFFICES ASSUME IInv, CmdJoint PROVE Core'
  OBVIOUS
<1> "J" \in Letters /\ "ESTOP" \in Reasons
  BY DEF Letters, Reasons
<1>1. UNCHANGED imuVars /\ ImuKept
  BY ImuRetryKeeps DEF CmdJoint
<1>2. CASE estopLatched
  BY <1>1, <1>2, RefuseCore DEF CmdJoint
<1>3. CASE ~estopLatched
  <2>1. /\ mode' = "M" /\ servos' = TRUE /\ sent' = <<Ack("J")>>
        /\ UNCHANGED <<estopLatched, fallFor>>
        /\ IF mode # "M" THEN StopGait ELSE UNCHANGED gaitVars
    BY <1>3 DEF CmdJoint, Reply, fallVars
  <2>2. /\ sinceWalk' = sinceWalk
        /\ mode # "M" => gait' = FALSE /\ bob' = 0
        /\ mode = "M" => gait' = gait /\ bob' = bob
    BY <2>1 DEF StopGait, gaitVars
  <2>3. sent' \in Seq(Lines)
    <3>1. Ack("J") \in Lines
      BY LinesBuilt
    <3> QED BY <2>1, <3>1
  <2>4. RangesOK'
    BY <1>1, <2>1, <2>2, <2>3, FirmwareAssumption DEF ImuKept, IInv, Core, RangesOK, Modes
  <2>5. ~gait'
    BY <2>2 DEF IInv, Core, Safe, WalkIsFed
  <2> QED BY <1>1, <1>3, <2>1, <2>4, <2>5
    DEF ImuKept, IInv, Core, Counting, Safe, EStopHolds, PoweredInMode, NoBlindWalk, WalkIsFed
<1> QED BY <1>2, <1>3

(* O, E and R.                                                              *)
LEMMA PowerOffCore == IInv /\ (CmdRelax \/ CmdEStop \/ CmdRelease) => Core'
<1> SUFFICES ASSUME IInv, CmdRelax \/ CmdEStop \/ CmdRelease PROVE Core'
  OBVIOUS
<1>1. sent' \in Seq(Lines)
  <2>1. Ack("O") \in Lines /\ Ack("E") \in Lines /\ Ack("R") \in Lines
    BY LinesBuilt DEF Letters
  <2> QED BY <2>1, ShortOutput DEF CmdRelax, CmdEStop, CmdRelease, Reply
<1>2. ImuKept
  BY ImuRetryKeeps DEF CmdRelax, CmdEStop, CmdRelease
<1>3. CASE CmdRelax \/ CmdEStop
  <2>1. /\ mode' = "O" /\ servos' = FALSE /\ gait' = FALSE /\ bob' = 0
        /\ UNCHANGED <<sinceWalk, fallFor>>
    BY <1>3 DEF CmdRelax, CmdEStop, StopGait, fallVars
  <2>2. RangesOK'
    BY <1>1, <1>2, <2>1, FirmwareAssumption DEF ImuKept, IInv, Core, RangesOK, Modes
  <2> QED BY <1>2, <2>1, <2>2
    DEF ImuKept, Core, Counting, Safe, EStopHolds, PoweredInMode, NoBlindWalk, WalkIsFed
<1>4. CASE CmdRelease
  <2>1. estopLatched' = FALSE /\ UNCHANGED <<mode, gait, sinceWalk, bob, fallFor, servos>>
    BY <1>4 DEF CmdRelease, gaitVars, fallVars
  <2>2. RangesOK'
    BY <1>1, <1>2, <2>1 DEF ImuKept, IInv, Core, RangesOK
  <2> QED BY <1>2, <2>1, <2>2
    DEF ImuKept, IInv, Core, Counting, Safe, EStopHolds, PoweredInMode, NoBlindWalk, WalkIsFed
<1> QED BY <1>3, <1>4

(* I, C, D and the lines without effect.                                    *)
LEMMA ServiceCore == IInv /\ (CmdImu \/ CmdCalibrate \/ CmdDistance \/ CmdNoEffect) => Core'
<1> SUFFICES ASSUME IInv, CmdImu \/ CmdCalibrate \/ CmdDistance \/ CmdNoEffect PROVE Core'
  OBVIOUS
<1>1. sent' \in Seq(Lines)
  <2>1. \/ \E c \in Letters : sent' = <<Ack(c)>>
        \/ \E c \in Letters, r \in Reasons : sent' = <<Nack(c, r)>>
    <3> /\ {"I", "C", "D", "K", "T", "P"} \subseteq Letters
        /\ {"MODE", "NOIMU", "NOTOF", "BAD"} \subseteq Reasons
      BY DEF Letters, Reasons
    <3>1. CASE CmdImu
      BY <3>1 DEF CmdImu, Refuse, Reply
    <3>2. CASE CmdCalibrate
      BY <3>2 DEF CmdCalibrate, Refuse, Reply
    <3>3. CASE CmdDistance
      BY <3>3 DEF CmdDistance
    <3>4. CASE CmdNoEffect
      BY <3>4 DEF CmdNoEffect
    <3> QED BY <3>1, <3>2, <3>3, <3>4
  <2>2. PICK l \in Lines : sent' = <<l>>
    BY <2>1, LinesBuilt
  <2> QED BY <2>2, ShortOutput
<1>2. MotionKept
  BY DEF MotionKept, CmdImu, CmdCalibrate, CmdDistance, CmdNoEffect, Refuse, gaitVars, fallVars
<1>3. ImuKept
  <2>1. CASE UNCHANGED imuVars \/ ImuRetry
    BY <2>1, ImuRetryKeeps
  <2>2. CASE /\ body' \in Zones /\ lag' \in 0..FilterTicks
             /\ UNCHANGED <<imuOk, imuLost, imuFailCount, pitch>>
    BY <2>2 DEF ImuKept, IInv, Core, RangesOK, Counting, Safe, NoBlindWalk
  <2>3. /\ Moves => body' \in Zones /\ lag' \in 0..FilterTicks
        /\ body \in Zones /\ lag \in 0..FilterTicks /\ 0 \in 0..FilterTicks
    BY LagTypes, FirmwareAssumption DEF Moves, IInv, Core, RangesOK
  <2>4. CASE CmdImu \/ CmdNoEffect
    BY <2>1, <2>4 DEF CmdImu, CmdNoEffect
  <2>5. CASE CmdCalibrate
    BY <2>1, <2>2, <2>3, <2>5, Zenon DEF CmdCalibrate
  <2>6. CASE CmdDistance
    BY <2>2, <2>3, <2>6 DEF CmdDistance
  <2> QED BY <2>4, <2>5, <2>6
<1> QED BY <1>1, <1>2, <1>3, AnswerCore

(* The IMU step of the control tick.                                        *)
LEMMA ImuUpdateEffect ==
    ASSUME IInv, NEW answers \in BOOLEAN, NEW zone \in Zones, ImuUpdate(answers, zone)
    PROVE  /\ imuFailCount' \in 0..ImuFailLimit
           /\ pitch' \in Zones /\ body' \in Zones /\ lag' \in 0..FilterTicks
           /\ imuOk' => imuFailCount' < ImuFailLimit
           /\ imuLost' => ~imuOk'
           /\ imuLost' => imuLost \/ ImuFailsNow(answers)
<1> USE DEF IInv, Core, RangesOK, Counting, Safe, NoBlindWalk
<1>1. CASE ~imuOk
  <2>1. body' = zone /\ UNCHANGED <<imuOk, imuLost, filterReady, imuFailCount, pitch, lag>>
    BY <1>1 DEF ImuUpdate
  <2> QED BY <1>1, <2>1
<1>2. CASE imuOk /\ answers
  <2>1. Measure(zone) /\ imuFailCount' = 0 /\ UNCHANGED <<imuOk, imuLost>>
    BY <1>2, Zenon DEF ImuUpdate
  <2>2. imuFailCount' \in 0..ImuFailLimit /\ imuFailCount' < ImuFailLimit
    BY <2>1, FirmwareAssumption
  <2>3. ~imuLost'
    BY <1>2, <2>1
  <2> QED BY <2>1, <2>2, <2>3, MeasureTypes
<1>3. CASE imuOk /\ ~answers
  <2>1. /\ body' = zone /\ lag' = Lag(zone) /\ pitch' = pitch
        /\ imuFailCount' = imuFailCount + 1
        /\ imuOk' = ~ImuFailsNow(answers)
        /\ imuLost' = (imuLost \/ ImuFailsNow(answers))
    BY <1>3, Zenon DEF ImuUpdate
  <2>2. lag' \in 0..FilterTicks
    BY <2>1, LagTypes
  <2>3. ImuFailsNow(answers) <=> imuFailCount + 1 >= ImuFailLimit
    BY <1>3 DEF ImuFailsNow
  <2>4. ~imuLost
    BY <1>3
  <2>5. imuFailCount' \in 0..ImuFailLimit
    BY <1>3, <2>1, FirmwareAssumption
  <2>6. imuOk' => imuFailCount' < ImuFailLimit
    <3>1. imuOk' => ~(imuFailCount + 1 >= ImuFailLimit)
      BY <2>1, <2>3, Zenon
    <3> QED BY <2>1, <2>5, <3>1, FirmwareAssumption
  <2>7. (imuLost' => ~imuOk') /\ (imuLost' => imuLost \/ ImuFailsNow(answers))
    BY <2>1, <2>4, Zenon
  <2>8. pitch' \in Zones /\ body' \in Zones
    BY <2>1
  <2> QED BY <2>2, <2>5, <2>6, <2>7, <2>8
<1> QED BY <1>1, <1>2, <1>3

(* The control tick keeps the invariant.                                    *)
LEMMA TickCore == IInv /\ Tick => Core'
<1> SUFFICES ASSUME IInv, NEW answers \in BOOLEAN, NEW zone \in Zones, ControlTick(answers, zone)
             PROVE  Core'
  BY DEF Tick
<1> DEFINE imuStop == ImuFailsNow(answers)
<1>1. /\ imuFailCount' \in 0..ImuFailLimit
      /\ pitch' \in Zones /\ body' \in Zones /\ lag' \in 0..FilterTicks
      /\ imuOk' => imuFailCount' < ImuFailLimit
      /\ imuLost' => ~imuOk'
      /\ imuLost' => imuLost \/ imuStop
  BY ImuUpdateEffect DEF ControlTick
<1>2. sent' \in Seq(Lines)
  <2> DEFINE a == IF imuStop THEN <<Evt("IMU_FAIL")>> ELSE <<>>
             b == IF FallDeclared THEN <<Evt("FALLEN")>>
                  ELSE IF WatchdogFires(imuStop) THEN <<Evt("WATCHDOG")>> ELSE <<>>
  <2>1. a \in Seq(Lines) /\ b \in Seq(Lines)
    <3>1. Evt("IMU_FAIL") \in Lines /\ Evt("FALLEN") \in Lines /\ Evt("WATCHDOG") \in Lines
      BY LinesBuilt
    <3> QED BY <3>1, ShortOutput
  <2>2. sent' = a \o b
    BY DEF ControlTick
  <2> HIDE DEF a, b
  <2> QED BY <2>1, <2>2
<1>3. fallFor' \in 0..FallTicks
  <2>1. FallTimer
    BY DEF ControlTick
  <2>2. fallFor \in 0..FallTicks
    BY DEF IInv, Core, RangesOK
  <2>3. CASE FallDeclared
    BY <2>1, <2>2, <2>3 DEF FallTimer, FallDeclared, fallVars
  <2>4. CASE ~FallDeclared
    <3>1. fallFor' = 0 \/ fallFor' = fallFor \/ (fallFor' = fallFor + 1 /\ fallFor + 1 < FallTicks)
      BY <2>1, <2>2, <2>4, FirmwareAssumption DEF FallTimer, FallDeclared, fallVars
    <3> QED BY <2>2, <3>1, FirmwareAssumption
  <2> QED BY <2>3, <2>4
<1>4. sinceWalk' = Elapsed /\ Elapsed \in 0..(WalkTicks + 1) /\ estopLatched' = estopLatched
  BY FirmwareAssumption DEF ControlTick, Elapsed, IInv, Core, RangesOK
<1>5. CASE FallDeclared
  <2>1. mode' = "F" /\ servos' = FALSE /\ gait' = FALSE /\ bob' = 0
    BY <1>5 DEF ControlTick, EnterFallen
  <2>2. ~estopLatched
    BY <1>5 DEF FallDeclared, IInv, Core, Safe, EStopHolds
  <2>3. RangesOK'
    BY <1>1, <1>2, <1>3, <1>4, <2>1, FirmwareAssumption DEF RangesOK, Modes
  <2> QED BY <1>1, <1>4, <2>1, <2>2, <2>3
    DEF Core, Counting, Safe, EStopHolds, PoweredInMode, NoBlindWalk, WalkIsFed
<1>6. CASE ~FallDeclared
  <2>1. DriveLegs(imuStop)
    BY <1>6 DEF ControlTick
  <2>2. mode' = mode /\ bob' \in 0..BobTicks
    BY <2>1, FirmwareAssumption DEF DriveLegs, IInv, Core, RangesOK
  <2>3. RangesOK'
    BY <1>1, <1>2, <1>3, <1>4, <2>2 DEF IInv, Core, RangesOK
  <2>4. gait' => gait /\ ~imuStop /\ ~WatchdogFires(imuStop)
    BY <2>1, Zenon DEF DriveLegs
  <2>5. gait' => mode = "B" /\ ~imuLost /\ Elapsed <= WalkTicks
    BY <1>4, <2>4, FirmwareAssumption
    DEF WatchdogFires, IInv, Core, Safe, WalkIsFed, NoBlindWalk
  <2>6. servos' <=> mode' \in {"B", "M"}
    <3>1. servos' <=> servos \/ mode = "B"
      BY <2>1, Zenon DEF DriveLegs
    <3> QED BY <2>2, <3>1 DEF IInv, Core, Safe, PoweredInMode
  <2>7. estopLatched' => mode' = "O" /\ ~servos' /\ ~gait'
    BY <1>4, <2>2, <2>5, <2>6 DEF IInv, Core, Safe, EStopHolds
  <2> QED BY <1>1, <1>4, <2>2, <2>3, <2>4, <2>5, <2>6, <2>7
    DEF Core, Counting, Safe, EStopHolds, PoweredInMode, NoBlindWalk, WalkIsFed
<1> QED BY <1>5, <1>6

(* A step that changes nothing keeps the invariant.                         *)
LEMMA StutterCore == IInv /\ UNCHANGED vars => Core'
  BY DEF vars, imuVars, gaitVars, fallVars, IInv, Core, RangesOK, Counting, Safe, EStopHolds,
         PoweredInMode, NoBlindWalk, WalkIsFed

(* IInv is an invariant of the controller.                                  *)
THEOREM FirmwareInvariant == Spec => []IInv
<1>1. IInv /\ [Next]_vars => IInv'
  <2> SUFFICES ASSUME IInv, [Next]_vars PROVE Core'
    BY FlagsKept DEF IInv
  <2>1. CASE Reset
    BY <2>1, ResetCore
  <2>2. CASE CmdStand
    BY <2>2, StandCore
  <2>3. CASE CmdWalk(TRUE) \/ CmdWalk(FALSE)
    BY <2>3, WalkCore
  <2>4. CASE CmdGesture \/ CmdJoint
    BY <2>4, GestureCore, JointCore
  <2>5. CASE CmdRelax \/ CmdEStop \/ CmdRelease
    BY <2>5, PowerOffCore
  <2>6. CASE CmdImu \/ CmdCalibrate \/ CmdDistance \/ CmdNoEffect
    BY <2>6, ServiceCore
  <2>7. CASE Tick
    BY <2>7, TickCore
  <2>8. CASE UNCHANGED vars
    BY <2>8, StutterCore
  <2> QED BY <2>1, <2>2, <2>3, <2>4, <2>5, <2>6, <2>7, <2>8 DEF Next, Command
<1> QED BY <1>1, InitIInv, PTL DEF Spec

(* Type correctness of the controller.                                      *)
THEOREM FirmwareTypes == Spec => []TypeOK
  BY FirmwareInvariant, PTL DEF IInv, Core, TypeOK

(* The emergency stop holds until R, for every length of every limit.       *)
THEOREM EStopAlwaysHolds == Spec => []EStopHolds
  BY FirmwareInvariant, PTL DEF IInv, Core, Safe

(* The servos are driven exactly in the balancing and manual modes.         *)
THEOREM AlwaysPoweredInMode == Spec => []PoweredInMode
  BY FirmwareInvariant, PTL DEF IInv, Core, Safe

(* The controller never walks blind.                                        *)
THEOREM NeverWalksBlind == Spec => []NoBlindWalk
  BY FirmwareInvariant, PTL DEF IInv, Core, Safe

(* A gait never outlives the walk watchdog.                                 *)
THEOREM WalkIsAlwaysFed == Spec => []WalkIsFed
  BY FirmwareInvariant, PTL DEF IInv, Core, Safe

(* The IMU is never re-initialised during a stretch of balancing.           *)
THEOREM NeverReinitWhileBalancing == Spec => NoReinitWhileBalancing
<1>1. [Next]_vars => [KeepsImuInit]_vars
  <2> SUFFICES ASSUME Next, mode = "B", mode' = "B"
               PROVE  (imuOk' => imuOk) /\ (filterReady => filterReady')
    BY DEF KeepsImuInit
  <2>1. CASE UNCHANGED <<imuOk, filterReady>>
    BY <2>1
  <2>2. CASE Tick
    BY <2>2 DEF Tick, ControlTick, ImuUpdate, Measure
  <2>3. CASE Reset
    BY <2>3 DEF Reset, Booted
  <2>4. CASE Command
    <3>1. UNCHANGED <<imuOk, filterReady>>
      BY <2>4
      DEF Command, CmdStand, CmdWalk, CmdGesture, CmdRelax, CmdEStop, CmdRelease, CmdJoint,
          CmdImu, CmdCalibrate, CmdDistance, CmdNoEffect, imuVars
    <3> QED BY <2>1, <3>1
  <2> QED BY <2>2, <2>3, <2>4 DEF Next
<1> QED BY <1>1, PTL DEF Spec, NoReinitWhileBalancing

(* Every step of the controller is a step of LegPower or changes nothing    *)
(* LegPower can see.                                                        *)
LEMMA PowerStep == IInv /\ [Next]_vars => [Power!Next]_(Power!powerVars)
<1> SUFFICES ASSUME IInv, [Next]_vars
             PROVE  Power!Next \/ UNCHANGED <<servos, estopLatched, gait>>
  BY DEF Power!powerVars
<1> USE DEF IInv, Core, Safe, EStopHolds, PoweredInMode, NoBlindWalk, WalkIsFed,
            gaitVars, imuVars, fallVars
<1>1. CASE Reset
  BY <1>1 DEF Reset, Booted, Power!Next, Power!Reset
<1>2. CASE CmdStand
  BY <1>2 DEF CmdStand, StandUp, Refuse, StopGait, Power!Next, Power!Energise
<1>3. ASSUME NEW moving \in BOOLEAN, CmdWalk(moving)
      PROVE  Power!Next \/ UNCHANGED <<servos, estopLatched, gait>>
  BY <1>3 DEF CmdWalk, Refuse, Power!Next, Power!Walk
<1>4. CASE CmdRelax \/ CmdEStop \/ CmdRelease
  BY <1>4 DEF CmdRelax, CmdEStop, CmdRelease, StopGait, Power!Next, Power!Cut, Power!EStop,
              Power!Release
<1>5. CASE CmdJoint
  BY <1>5 DEF CmdJoint, Refuse, StopGait, Power!Next, Power!Energise
<1>6. CASE CmdGesture \/ CmdImu \/ CmdCalibrate \/ CmdDistance \/ CmdNoEffect
  BY <1>6 DEF CmdGesture, CmdImu, CmdCalibrate, CmdDistance, CmdNoEffect, Refuse
<1>7. CASE Tick
  <2> SUFFICES ASSUME NEW answers \in BOOLEAN, NEW zone \in Zones, ControlTick(answers, zone)
               PROVE  Power!Next \/ UNCHANGED <<servos, estopLatched, gait>>
    BY <1>7 DEF Tick
  <2>1. CASE FallDeclared
    BY <2>1 DEF ControlTick, EnterFallen, Power!Next, Power!Cut
  <2>2. CASE ~FallDeclared
    <3>1. DriveLegs(ImuFailsNow(answers)) /\ estopLatched' = estopLatched
      BY <2>2 DEF ControlTick
    <3>2. servos' = servos
      <4>1. servos' <=> servos \/ mode = "B"
        BY <3>1, Zenon DEF DriveLegs
      <4>2. servos' <=> servos
        BY <4>1
      <4> QED BY <4>2, FlagsKept, Zenon DEF FlagsOK
    <3>3. gait' = FALSE \/ gait' = gait
      BY <3>1, FlagsKept, Zenon DEF DriveLegs, FlagsOK
    <3> QED BY <3>1, <3>2, <3>3 DEF Power!Next, Power!Halt
  <2> QED BY <2>1, <2>2
<1>8. CASE UNCHANGED vars
  BY <1>8 DEF vars
<1> QED BY <1>1, <1>2, <1>3, <1>4, <1>5, <1>6, <1>7, <1>8 DEF Next, Command

(* Firmware implements LegPower.                                            *)
THEOREM FirmwareImplementsLegPower == Spec => PowerSpec
<1>1. Init => Power!Init
  BY DEF Init, Power!Init
<1> QED BY <1>1, PowerStep, FirmwareInvariant, PTL DEF Spec, PowerSpec, Power!Spec

-----------------------------------------------------------------------------
(* A robot that lies on the floor.                                          *)
Lying == mode = "B" /\ imuOk /\ body = "down"

(* How many control ticks it can still push against it: until the filter    *)
(* has followed the torso, each read that works after as many failed ones   *)
(* as a live IMU may have, and then the time until the fall is declared.    *)
Ahead == IF lag = 0 THEN 1 ELSE lag
Countdown ==
    IF pitch # "down" THEN Ahead * ImuFailLimit - imuFailCount + FallTicks + 1
    ELSE IF fallTiming THEN FallTicks - fallFor ELSE FallTicks + 1
MostTicks == FilterTicks * ImuFailLimit + FallTicks + 1

CountsDown == Lying /\ Lying' => Countdown' <= Countdown /\ (Tick => Countdown' < Countdown)

(* A command in between leaves all of that alone.                           *)
LEMMA CommandWaits ==
    ASSUME Command, Lying, Lying'
    PROVE  UNCHANGED <<pitch, lag, imuFailCount, fallTiming, fallFor>>
<1>1. mode = "B" /\ mode' = "B" /\ imuOk
  BY DEF Lying
<1>2. CASE CmdStand
  BY <1>1, <1>2 DEF CmdStand, StandUp, Refuse, imuVars, fallVars
<1>3. CASE CmdWalk(TRUE) \/ CmdWalk(FALSE)
  BY <1>1, <1>3 DEF CmdWalk, Refuse, imuVars, fallVars
<1>4. CASE CmdGesture \/ CmdRelease \/ CmdNoEffect
  BY <1>1, <1>4 DEF CmdGesture, CmdRelease, CmdNoEffect, Refuse, imuVars, fallVars
<1>5. CASE CmdRelax \/ CmdEStop
  BY <1>1, <1>5 DEF CmdRelax, CmdEStop
<1>6. CASE CmdJoint
  BY <1>1, <1>6 DEF CmdJoint, Refuse, imuVars, fallVars
<1>7. CASE CmdImu \/ CmdCalibrate \/ CmdDistance
  BY <1>1, <1>7 DEF CmdImu, CmdCalibrate, CmdDistance, Refuse, imuVars, fallVars
<1> QED BY <1>2, <1>3, <1>4, <1>5, <1>6, <1>7 DEF Command

(* One read more, or one torso nearer, is one ImuFailLimit less.            *)
LEMMA Products ==
    /\ \A n, m, k \in Nat : n <= m => n * k <= m * k
    /\ \A n \in Nat \ {0}, k \in Nat : (n - 1) * k = n * k - k /\ n * k >= k
    /\ \A n, k \in Nat : n * k \in Nat
<1>1. ASSUME NEW n \in Nat, NEW m \in Nat, NEW k \in Nat, n <= m PROVE n * k <= m * k
  BY <1>1, SMTT(30)
<1>2. ASSUME NEW n \in Nat \ {0}, NEW k \in Nat PROVE (n - 1) * k = n * k - k /\ n * k >= k
  BY <1>2, SMTT(30)
<1>3. ASSUME NEW n \in Nat, NEW k \in Nat PROVE n * k \in Nat
  BY <1>3, SMTT(30)
<1> QED BY <1>1, <1>2, <1>3

(* What is left lies within its bound.                                      *)
LEMMA CountdownTypes == IInv => Countdown \in 0..MostTicks
<1> SUFFICES ASSUME IInv PROVE Countdown \in 0..MostTicks
  OBVIOUS
<1>1. /\ imuFailCount \in 0..ImuFailLimit /\ fallFor \in 0..FallTicks /\ lag \in 0..FilterTicks
      /\ ImuFailLimit \in Nat /\ FallTicks \in Nat \ {0} /\ FilterTicks \in Nat \ {0}
  BY FirmwareAssumption DEF IInv, Core, RangesOK
<1>2. Ahead \in Nat \ {0} /\ Ahead <= FilterTicks
  BY <1>1 DEF Ahead
<1> DEFINE a == Ahead * ImuFailLimit
           f == FilterTicks * ImuFailLimit
<1>3. a \in Nat /\ f \in Nat /\ a >= ImuFailLimit /\ a <= f
  BY <1>1, <1>2, Products
<1>4. /\ MostTicks = f + FallTicks + 1
      /\ \/ Countdown = a - imuFailCount + FallTicks + 1
         \/ Countdown = FallTicks - fallFor
         \/ Countdown = FallTicks + 1
  BY DEF MostTicks, Countdown
<1> HIDE DEF a, f
<1> QED BY <1>1, <1>3, <1>4

(* A tick that does not declare the fall counts the failed read, or the     *)
(* step of the filter; one that knows of the fall counts its time.          *)
LEMMA TickCounts ==
    ASSUME IInv, Tick, Lying, Lying' PROVE Countdown' < Countdown
<1> PICK answers \in BOOLEAN, zone \in Zones : ControlTick(answers, zone)
  BY DEF Tick
<1>1. /\ mode = "B" /\ mode' = "B" /\ imuOk /\ imuOk' /\ body' = "down"
      /\ ImuUpdate(answers, zone) /\ FallTimer
  BY DEF Lying, ControlTick
<1>2. ~FallDeclared
  <2> SUFFICES ASSUME FallDeclared PROVE FALSE
    OBVIOUS
  <2>1. mode' = "F"
    BY DEF ControlTick, EnterFallen
  <2> QED BY <1>1, <2>1
<1>3. /\ imuFailCount \in Nat /\ imuFailCount < ImuFailLimit /\ fallFor \in Nat
      /\ lag \in Nat /\ ImuFailLimit \in Nat /\ FallTicks \in Nat \ {0}
  BY <1>1, FirmwareAssumption DEF IInv, Core, RangesOK, Counting
<1>4. body = "down" /\ Lag("down") = lag
  BY DEF Lying, Lag
<1>5. \/ pitch' = "down"
      \/ pitch # "down" /\ imuFailCount' = imuFailCount + 1 /\ lag' = lag
      \/ pitch # "down" /\ imuFailCount' = 0 /\ lag > 1 /\ lag' = lag - 1
  <2>1. CASE answers
    <3>1. Measure(zone) /\ imuFailCount' = 0
      BY <1>1, <2>1, Zenon DEF ImuUpdate
    <3>2. zone = "down"
      BY <1>1, <3>1 DEF Measure
    <3> QED BY <1>4, <3>1, <3>2 DEF Measure, Between
  <2>2. CASE ~answers
    <3>1. /\ body' = zone /\ lag' = Lag(zone) /\ imuFailCount' = imuFailCount + 1
          /\ pitch' = pitch
      BY <1>1, <2>2, Zenon DEF ImuUpdate
    <3> QED BY <1>1, <1>4, <3>1
  <2> QED BY <2>1, <2>2
<1>6. Ahead \in Nat \ {0} /\ Ahead * ImuFailLimit \in Nat /\ Ahead * ImuFailLimit >= ImuFailLimit
  <2>1. Ahead \in Nat \ {0}
    BY <1>3 DEF Ahead
  <2> QED BY <1>3, <2>1, Products
<1>7. CASE pitch' # "down"
  <2>1. /\ pitch # "down"
        /\ Countdown = Ahead * ImuFailLimit - imuFailCount + FallTicks + 1
        /\ Countdown' = Ahead' * ImuFailLimit - imuFailCount' + FallTicks + 1
    BY <1>5, <1>7 DEF Countdown
  <2>2. CASE imuFailCount' = imuFailCount + 1 /\ lag' = lag
    <3>1. Ahead' = Ahead
      BY <2>2 DEF Ahead
    <3> QED BY <1>3, <1>6, <2>1, <2>2, <3>1
  <2>3. CASE imuFailCount' = 0 /\ lag > 1 /\ lag' = lag - 1
    <3>1. Ahead' = Ahead - 1
      BY <1>3, <2>3 DEF Ahead
    <3>2. Ahead' * ImuFailLimit = Ahead * ImuFailLimit - ImuFailLimit
      BY <1>3, <1>6, <3>1, Products
    <3> QED BY <1>3, <1>6, <2>1, <2>3, <3>2
  <2> QED BY <1>5, <1>7, <2>2, <2>3
<1>8. CASE pitch' = "down"
  <2>1. IF fallTiming THEN fallTiming' /\ fallFor' = fallFor + 1 ELSE fallTiming' /\ fallFor' = 0
    BY <1>1, <1>2, <1>8 DEF FallTimer, Tipped
  <2>2. Countdown' = FallTicks - fallFor'
    BY <1>8, <2>1 DEF Countdown
  <2>3. CASE pitch # "down"
    <3>1. Countdown = Ahead * ImuFailLimit - imuFailCount + FallTicks + 1
      BY <2>3 DEF Countdown
    <3> QED BY <1>3, <1>6, <2>1, <2>2, <3>1
  <2>4. CASE pitch = "down"
    BY <1>3, <2>1, <2>2, <2>4 DEF Countdown
  <2> QED BY <2>3, <2>4
<1> QED BY <1>7, <1>8

(* A robot that lies on the floor balances no longer than                   *)
(* FilterTicks * ImuFailLimit + FallTicks + 1 control ticks, whatever reads *)
(* fail, however long the filter takes to follow and whatever commands keep *)
(* arriving: each tick takes one of them away, and nothing gives one back.  *)
THEOREM FallIsCounted ==
    Spec => /\ [](Countdown \in 0..MostTicks)
            /\ [][CountsDown]_vars
<1>1. ASSUME IInv, [Next]_vars PROVE [CountsDown]_vars
  <2> SUFFICES ASSUME Next, Lying, Lying'
               PROVE  Countdown' <= Countdown /\ (Tick => Countdown' < Countdown)
    BY <1>1 DEF CountsDown
  <2>1. Countdown \in Int
    <3>1. MostTicks \in Int
      BY Products, FirmwareAssumption DEF MostTicks
    <3> QED BY <1>1, <3>1, CountdownTypes
  <2>2. CASE Tick
    <3>1. Countdown' < Countdown
      BY <1>1, <2>2, TickCounts
    <3>2. IInv'
      BY <1>1, FlagsKept, TickCore, <2>2 DEF IInv
    <3>3. Countdown' \in Int
      <4>1. MostTicks \in Int
        BY Products, FirmwareAssumption DEF MostTicks
      <4>2. IInv' => (Countdown \in 0..MostTicks)'
        BY CountdownTypes, PTL
      <4> QED BY <3>2, <4>1, <4>2 DEF MostTicks
    <3> QED BY <2>1, <3>1, <3>3
  <2>3. CASE ~Tick /\ Command
    <3>1. Countdown' = Countdown
      BY <2>3, CommandWaits DEF Countdown, Ahead
    <3> QED BY <2>1, <2>3, <3>1
  <2>4. CASE Reset
    BY <2>4 DEF Reset, Booted, Lying
  <2> QED BY <2>2, <2>3, <2>4 DEF Next
<1>2. IInv /\ [Next]_vars => [CountsDown]_vars
  BY <1>1
<1> QED BY <1>2, CountdownTypes, FirmwareInvariant, PTL DEF Spec

=============================================================================
