------------------------------ MODULE Firmware ------------------------------
(***************************************************************************)
(* The leg controller: firmware/emo_esp32/emo_esp32.ino (the Nano sketch   *)
(* has the same handlers).  One action per serial command, one for the     *)
(* 100 Hz control tick, one for a reset.                                   *)
(*                                                                         *)
(* Abstractions.  The torso pitch is one of three zones: "up" (S accepts   *)
(* it), "lean" (S refuses it, not yet a fall) and "down" (past FALL_DEG).  *)
(* An angle counts from the level in force (settings.pitchOffset), which C *)
(* sets: "up" and "down" are what the last calibration made them.  The     *)
(* complementary filter follows the torso zone by zone, within FilterTicks *)
(* reads.                                                                  *)
(* Gait targets are zero or not.  The PID, the joint angles, the gains,    *)
(* telemetry lines and the ToF reading are data no property here tells     *)
(* apart: K, T, P and D only answer.  Time is counted in control ticks.    *)
(***************************************************************************)
EXTENDS Integers, Sequences

CONSTANTS
    ImuFailLimit,  \* consecutive failed IMU reads that make it lost (10)
    FilterTicks,   \* reads after which the filter has followed a still torso
    FallTicks,     \* FALL_MS in control ticks
    WalkTicks,     \* WALK_TIMEOUT_MS in control ticks
    BobTicks       \* BOB_MS in control ticks

ASSUME FirmwareAssumption ==
    /\ ImuFailLimit \in Nat /\ ImuFailLimit >= 2
    /\ FilterTicks \in Nat \ {0}
    /\ FallTicks \in Nat \ {0}
    /\ WalkTicks \in Nat \ {0}
    /\ BobTicks \in Nat \ {0}

VARIABLES
    mode,          \* MODE_OFF, MODE_MANUAL, MODE_BALANCE or MODE_FALLEN
    estopLatched,
    imuOk,         \* the IMU answers
    imuLost,       \* it answered once and then failed: walking is refused
    filterReady,   \* pitch has been measured since the last (re)initialisation
    imuFailCount,
    pitch,         \* zone of pitchDeg, what the firmware believes
    body,          \* zone the torso is really in, measured from the level in force
    lag,           \* reads the filter may still need to reach body, 0 = no more
    gait,          \* speedTarget or turnTarget is not zero
    sinceWalk,     \* ticks since lastWalkMs, saturating at WalkTicks + 1
    bob,           \* ticks of the knee bob still to run, 0 = bobActive is false
    fallTiming,
    fallFor,       \* ticks since fallStartMs
    servos,        \* some servo channel is driven
    sent           \* the lines the last step printed on the link

imuVars == <<imuOk, imuLost, filterReady, imuFailCount, pitch, body, lag>>
gaitVars == <<gait, sinceWalk, bob>>
fallVars == <<fallTiming, fallFor>>
vars == <<mode, estopLatched, imuVars, gaitVars, fallVars, servos, sent>>

Modes == {"O", "M", "B", "F"}
Zones == {"up", "lean", "down"}

(***************************************************************************)
(* What the controller prints.  "?" is the command letter of an unknown or *)
(* malformed line.                                                         *)
(***************************************************************************)
Letters == {"S", "W", "G", "O", "C", "K", "T", "J", "E", "R", "P", "I", "D", "?"}
Reasons == {"BAD", "ESTOP", "MODE", "TILTED", "NOIMU", "NOTOF"}
Lines == [kind : {"ACK"}, cmd : Letters, info : {"", "NOIMU"}]
            \cup [kind : {"NACK"}, cmd : Letters, info : Reasons]
            \cup [kind : {"EVT"}, cmd : {""}, info : {"FALLEN", "WATCHDOG", "IMU_FAIL"}]
            \cup [kind : {"READY"}, cmd : {""}, info : {"IMU", "NOIMU"}]

Ack(c) == [kind |-> "ACK", cmd |-> c, info |-> ""]
Nack(c, reason) == [kind |-> "NACK", cmd |-> c, info |-> reason]
Evt(e) == [kind |-> "EVT", cmd |-> "", info |-> e]
Ready(ok) == [kind |-> "READY", cmd |-> "", info |-> IF ok THEN "IMU" ELSE "NOIMU"]

-----------------------------------------------------------------------------
(* setup(): the pitch variable starts at 0 degrees, i.e. "up", whatever the *)
(* torso does: nothing is measured before the first control tick.  The      *)
(* level is the saved one.                                                  *)
Booted ==
    /\ mode' = "O" /\ estopLatched' = FALSE
    /\ imuOk' \in BOOLEAN /\ imuLost' = FALSE /\ imuFailCount' = 0
    /\ filterReady' = FALSE /\ pitch' = "up" /\ body' \in Zones /\ lag' = 0
    /\ gait' = FALSE /\ sinceWalk' = 0 /\ bob' = 0
    /\ fallTiming' = FALSE /\ fallFor' = 0
    /\ servos' = FALSE
    /\ sent' = <<Ready(imuOk')>>

Init ==
    /\ mode = "O" /\ estopLatched = FALSE
    /\ imuOk \in BOOLEAN /\ imuLost = FALSE /\ imuFailCount = 0
    /\ filterReady = FALSE /\ pitch = "up" /\ body \in Zones /\ lag = 0
    /\ gait = FALSE /\ sinceWalk = 0 /\ bob = 0
    /\ fallTiming = FALSE /\ fallFor = 0
    /\ servos = FALSE
    /\ sent = <<Ready(imuOk)>>

(* A power cycle, a brown-out or the port being opened again.               *)
Reset == Booted

StopGait == gait' = FALSE /\ bob' = 0 /\ UNCHANGED sinceWalk

(* The torso is in this zone now; if it moved, the filter is behind.        *)
Lag(zone) == IF zone = body THEN lag ELSE FilterTicks
Moves == \E zone \in Zones : body' = zone /\ lag' = Lag(zone)

(* The zones on the way from what the filter says to where the torso is.    *)
Between(from, to) == {from, to} \cup IF {from, to} = {"up", "down"} THEN {"lean"} ELSE {}

(* A read that works (imuUpdate), with the torso in this zone: the first    *)
(* one after an initialisation or a calibration re-seeds the filter from    *)
(* the accelerometer, a later one only draws the pitch towards it.          *)
Measure(zone) ==
    /\ body' = zone /\ filterReady' = TRUE
    /\ \/ pitch' = zone /\ lag' = 0
       \/ /\ filterReady /\ Lag(zone) > 1
          /\ pitch' \in Between(pitch, zone) \ {zone} /\ lag' = Lag(zone) - 1

(* imuInit() and the fresh read that follows it.  The bias measurement      *)
(* takes 0.35 s, so the torso may be in any zone afterwards; the fresh read *)
(* can itself fail, which leaves the pitch unmeasured.  Whatever the filter *)
(* was behind is over: the next read that works re-seeds it.                *)
ImuRetry ==
    /\ body' \in Zones /\ lag' = 0
    /\ \/ /\ imuOk' = FALSE /\ imuFailCount' = 0
          /\ UNCHANGED <<imuLost, filterReady, pitch>>
       \/ /\ imuOk' = TRUE /\ imuLost' = FALSE /\ imuFailCount' = 0
          /\ filterReady' = TRUE /\ pitch' = body'
       \/ /\ imuOk' = TRUE /\ imuLost' = FALSE /\ imuFailCount' = 1
          /\ filterReady' = FALSE /\ UNCHANGED pitch

-----------------------------------------------------------------------------
(* The command handlers.                                                    *)

Reply(line) == sent' = <<line>>

Refuse(c, reason) ==
    /\ Reply(Nack(c, reason))
    /\ UNCHANGED <<mode, estopLatched, gaitVars, fallVars, servos>>

(* S, once the E-stop and IMU checks have let it through: the tilt check    *)
(* uses the pitch as the IMU step of the handler left it.                   *)
StandUp ==
    \/ /\ imuOk' /\ pitch' # "up"
       /\ Refuse("S", "TILTED")
    \/ /\ ~(imuOk' /\ pitch' # "up")
       /\ IF mode = "B" THEN UNCHANGED <<mode, gaitVars, fallVars, servos>>
          ELSE /\ mode' = "B" /\ servos' = TRUE
               /\ StopGait
               /\ fallTiming' = FALSE /\ UNCHANGED fallFor
       /\ Reply([Ack("S") EXCEPT !.info = IF imuOk' THEN "" ELSE "NOIMU"])
       /\ UNCHANGED estopLatched

\* Faulty variant: S without the check of the latch.
CmdStandUnlatched ==
    IF ~imuOk /\ mode # "B"
    THEN /\ ImuRetry
         /\ IF ~imuOk' /\ imuLost' THEN Refuse("S", "NOIMU") ELSE StandUp
    ELSE UNCHANGED imuVars /\ StandUp

CmdStand ==
    \/ estopLatched /\ Refuse("S", "ESTOP") /\ UNCHANGED imuVars
    \/ /\ ~estopLatched
       /\ IF ~imuOk /\ mode # "B"
          THEN /\ ImuRetry
               /\ IF ~imuOk' /\ imuLost' THEN Refuse("S", "NOIMU") ELSE StandUp
          ELSE UNCHANGED imuVars /\ StandUp

\* Faulty variant: W without the check for a lost IMU.
CmdWalkBlind(moving) ==
    /\ UNCHANGED imuVars
    /\ CASE estopLatched -> Refuse("W", "ESTOP")
         [] ~estopLatched /\ mode # "B" -> Refuse("W", "MODE")
         [] OTHER -> /\ gait' = moving /\ sinceWalk' = 0
                     /\ Reply(Ack("W"))
                     /\ UNCHANGED <<mode, estopLatched, bob, fallVars, servos>>

CmdWalk(moving) ==
    /\ UNCHANGED imuVars
    /\ CASE estopLatched -> Refuse("W", "ESTOP")
         [] ~estopLatched /\ mode # "B" -> Refuse("W", "MODE")
         [] ~estopLatched /\ mode = "B" /\ imuLost -> Refuse("W", "NOIMU")
         [] OTHER -> /\ gait' = moving /\ sinceWalk' = 0
                     /\ Reply(Ack("W"))
                     /\ UNCHANGED <<mode, estopLatched, bob, fallVars, servos>>

CmdGesture ==
    /\ UNCHANGED imuVars
    /\ IF mode # "B" THEN Refuse("G", "MODE")
       ELSE /\ bob' = BobTicks
            /\ Reply(Ack("G"))
            /\ UNCHANGED <<mode, estopLatched, gait, sinceWalk, fallVars, servos>>

CmdRelax ==
    /\ servos' = FALSE /\ StopGait /\ mode' = "O"
    /\ Reply(Ack("O"))
    /\ UNCHANGED <<estopLatched, imuVars, fallVars>>

CmdEStop ==
    /\ servos' = FALSE /\ StopGait /\ estopLatched' = TRUE /\ mode' = "O"
    /\ Reply(Ack("E"))
    /\ UNCHANGED <<imuVars, fallVars>>

CmdRelease ==
    /\ estopLatched' = FALSE
    /\ Reply(Ack("R"))
    /\ UNCHANGED <<mode, imuVars, gaitVars, fallVars, servos>>

\* Faulty variant: J without the check of the latch.
CmdJointUnlatched ==
    /\ UNCHANGED imuVars
    /\ IF mode # "M" THEN StopGait ELSE UNCHANGED gaitVars
    /\ mode' = "M" /\ servos' = TRUE
    /\ Reply(Ack("J"))
    /\ UNCHANGED <<estopLatched, fallVars>>

(* J: raw servo angle.  Takes over from the balance loop.                   *)
CmdJoint ==
    /\ UNCHANGED imuVars
    /\ IF estopLatched THEN Refuse("J", "ESTOP")
       ELSE /\ IF mode # "M" THEN StopGait ELSE UNCHANGED gaitVars
            /\ mode' = "M" /\ servos' = TRUE
            /\ Reply(Ack("J"))
            /\ UNCHANGED <<estopLatched, fallVars>>

CmdImu ==
    IF ~imuOk /\ mode = "B" THEN Refuse("I", "MODE") /\ UNCHANGED imuVars
    ELSE /\ IF imuOk THEN UNCHANGED imuVars ELSE ImuRetry
         /\ Reply(IF imuOk' THEN Ack("I") ELSE Nack("I", "NOIMU"))
         /\ UNCHANGED <<mode, estopLatched, gaitVars, fallVars, servos>>

(* C: a successful measurement takes 0.3 s, makes the pose it saw the level *)
(* in force and the filter re-seed.  The torso is then in any zone of the   *)
(* new level: "up" if it was still, another one if it moved meanwhile.  The *)
(* pitch keeps its old value, counted from the old level, until it is read. *)
(* A failed measurement leaves level and filter as they were.               *)
CmdCalibrate ==
    CASE mode = "B" -> Refuse("C", "MODE") /\ UNCHANGED imuVars
      [] mode # "B" /\ ~imuOk -> Refuse("C", "NOIMU") /\ UNCHANGED imuVars
      [] OTHER ->
            \/ /\ Moves
               /\ Refuse("C", "NOIMU")
               /\ UNCHANGED <<imuOk, imuLost, filterReady, imuFailCount, pitch>>
            \/ /\ body' \in Zones /\ lag' = 0 /\ filterReady' = FALSE
               /\ Reply(Ack("C"))
               /\ UNCHANGED <<mode, estopLatched, imuOk, imuLost, imuFailCount, pitch>>
               /\ UNCHANGED <<gaitVars, fallVars, servos>>

(* D answers a distance or NOTOF; while not balancing it may block, during  *)
(* which the torso can move.                                                *)
CmdDistance ==
    /\ IF mode = "B" THEN UNCHANGED <<body, lag>> ELSE Moves
    /\ sent' \in {<<Ack("D")>>, <<Nack("D", "NOTOF")>>}
    /\ UNCHANGED <<mode, estopLatched, imuOk, imuLost, filterReady, imuFailCount, pitch>>
    /\ UNCHANGED <<gaitVars, fallVars, servos>>

(* K, T, P, and every line the parser refuses.                              *)
CmdNoEffect ==
    /\ sent' \in {<<Ack(c)>> : c \in {"K", "T", "P"}}
                    \cup {<<Nack(c, "BAD")>> : c \in Letters}
    /\ UNCHANGED <<mode, estopLatched, imuVars, gaitVars, fallVars, servos>>

Command ==
    \/ CmdStand \/ CmdWalk(TRUE) \/ CmdWalk(FALSE) \/ CmdGesture \/ CmdRelax
    \/ CmdEStop \/ CmdRelease \/ CmdJoint \/ CmdImu \/ CmdCalibrate
    \/ CmdDistance \/ CmdNoEffect

-----------------------------------------------------------------------------
(* The control tick.  "answers" is whether the IMU read of this tick works, *)
(* "zone" where the torso is now.                                           *)

Elapsed == IF sinceWalk > WalkTicks THEN sinceWalk ELSE sinceWalk + 1

\* Faulty variant: one failed read too many.
ImuFailsLate(answers) == imuOk /\ ~answers /\ imuFailCount + 1 > ImuFailLimit

ImuFailsNow(answers) == imuOk /\ ~answers /\ imuFailCount + 1 >= ImuFailLimit

ImuUpdate(answers, zone) ==
    CASE ~imuOk ->
            /\ body' = zone
            /\ UNCHANGED <<imuOk, imuLost, filterReady, imuFailCount, pitch, lag>>
      [] imuOk /\ answers ->
            /\ Measure(zone) /\ imuFailCount' = 0
            /\ UNCHANGED <<imuOk, imuLost>>
      [] OTHER ->
            /\ body' = zone /\ lag' = Lag(zone)
            /\ imuFailCount' = imuFailCount + 1
            /\ imuOk' = ~ImuFailsNow(answers)
            /\ imuLost' = (imuLost \/ ImuFailsNow(answers))
            /\ UNCHANGED <<filterReady, pitch>>

(* Fall detection: fallVars, and whether this tick declares the fall.       *)
\* Faulty variant: a tick whose IMU read failed counts as upright.
TippedIfRead == imuOk' /\ pitch' = "down" /\ imuFailCount' = 0

Tipped == imuOk' /\ pitch' = "down"
FallDeclared == mode = "B" /\ Tipped /\ fallTiming /\ fallFor + 1 >= FallTicks

FallTimer ==
    CASE mode # "B" -> UNCHANGED fallVars
      [] mode = "B" /\ ~Tipped -> fallTiming' = FALSE /\ UNCHANGED fallFor
      [] mode = "B" /\ Tipped /\ ~fallTiming -> fallTiming' = TRUE /\ fallFor' = 0
      [] OTHER -> /\ fallTiming' = ~FallDeclared
                  /\ fallFor' = IF FallDeclared THEN fallFor ELSE fallFor + 1

\* Faulty variant: the fallen robot keeps its servos driven.
EnterFallenPowered == servos' = servos /\ gait' = FALSE /\ bob' = 0 /\ mode' = "F"

EnterFallen == servos' = FALSE /\ gait' = FALSE /\ bob' = 0 /\ mode' = "F"

(* The walk watchdog and the gait, for a tick that does not fall.  imuStop  *)
(* is the stopGait() of an IMU lost in this tick.                           *)
\* Faulty variant: the watchdog fires a tick late.
WatchdogLate(imuStop) == mode = "B" /\ gait /\ ~imuStop /\ sinceWalk > WalkTicks

WatchdogFires(imuStop) == mode = "B" /\ gait /\ ~imuStop /\ Elapsed > WalkTicks

DriveLegs(imuStop) ==
    /\ gait' = (gait /\ ~imuStop /\ ~WatchdogFires(imuStop))
    /\ bob' = IF imuStop \/ bob = 0 THEN 0 ELSE IF mode = "B" THEN bob - 1 ELSE bob
    /\ servos' = (servos \/ mode = "B")
    /\ UNCHANGED mode

ControlTick(answers, zone) ==
    LET imuStop == ImuFailsNow(answers) IN
    /\ ImuUpdate(answers, zone)
    /\ FallTimer
    /\ sinceWalk' = Elapsed
    /\ IF FallDeclared THEN EnterFallen ELSE DriveLegs(imuStop)
    /\ sent' = (IF imuStop THEN <<Evt("IMU_FAIL")>> ELSE <<>>)
                 \o (IF FallDeclared THEN <<Evt("FALLEN")>>
                     ELSE IF WatchdogFires(imuStop) THEN <<Evt("WATCHDOG")>> ELSE <<>>)
    /\ UNCHANGED estopLatched

Tick == \E answers \in BOOLEAN, zone \in Zones : ControlTick(answers, zone)

Next == Reset \/ Command \/ Tick

(* loop() runs the control tick whenever 10 ms have passed, whatever        *)
(* arrives on the link.                                                     *)
Spec == Init /\ [][Next]_vars
FairSpec == Spec /\ WF_vars(Tick)

-----------------------------------------------------------------------------
(* Types.  The failure counter (a uint8_t in the code) stops at the limit:  *)
(* no read happens after it until the counter is reset.                     *)
FlagsOK ==
    /\ estopLatched \in BOOLEAN
    /\ imuOk \in BOOLEAN /\ imuLost \in BOOLEAN /\ filterReady \in BOOLEAN
    /\ gait \in BOOLEAN /\ fallTiming \in BOOLEAN /\ servos \in BOOLEAN

RangesOK ==
    /\ mode \in Modes
    /\ imuFailCount \in 0..ImuFailLimit
    /\ pitch \in Zones /\ body \in Zones /\ lag \in 0..FilterTicks
    /\ sinceWalk \in 0..(WalkTicks + 1) /\ bob \in 0..BobTicks
    /\ fallFor \in 0..FallTicks
    /\ sent \in Seq(Lines)

TypeOK == FlagsOK /\ RangesOK

(* While the emergency stop is latched the servos are off and nothing is    *)
(* walking, whatever commands arrive, whatever the control tick does and    *)
(* however the torso tips: only R ends it.                                  *)
EStopHolds == estopLatched => mode = "O" /\ ~servos /\ ~gait

(* The servos are driven exactly in the two modes that own them: leaving    *)
(* MODE_BALANCE or MODE_MANUAL by O, E or a fall cuts them, and no tick     *)
(* drives a leg afterwards.                                                 *)
PoweredInMode == servos <=> mode \in {"B", "M"}

(* The controller never keeps walking blind: once an IMU that answered has  *)
(* failed there is no gait, neither an old one nor a new one, until it is   *)
(* re-initialised; and an IMU marked lost is never trusted.                 *)
NoBlindWalk == imuLost => ~gait /\ ~imuOk

(* A gait exists only while balancing and only while W keeps coming: after  *)
(* every tick the last W is at most WALK_TIMEOUT_MS old.                    *)
WalkIsFed == gait => mode = "B" /\ sinceWalk <= WalkTicks

(* "The gyro bias is re-measured, so the robot must be still: never while   *)
(* balancing" (imuRetry): during one stretch of balancing the IMU is never  *)
(* brought back and the pitch filter never re-seeds.                        *)
KeepsImuInit ==
    mode = "B" /\ mode' = "B" => (imuOk' => imuOk) /\ (filterReady => filterReady')
NoReinitWhileBalancing == [][KeepsImuInit]_vars

(* A robot that lies on the floor does not push against it for ever: if the *)
(* torso stays down, the controller leaves MODE_BALANCE or loses its IMU,   *)
(* even when reads fail now and then and commands keep arriving.            *)
FallIsCaught == []<>~(mode = "B" /\ imuOk /\ body = "down")

(* RUNNING.md, the S row of the protocol table: "Refused with               *)
(* NACK,S,TILTED when lying down".  Stated for a controller whose IMU works:*)
(* S never starts balancing a robot that lies down at that moment.          *)
RefusedWhenLyingDown ==
    [][mode # "B" /\ mode' = "B" /\ imuOk' /\ imuFailCount' = 0
           => body' # "down"]_vars

(* What the latch, the power and the gait promise together (LegPower).      *)
Power == INSTANCE LegPower WITH power <- servos, latched <- estopLatched, walking <- gait
PowerSpec == Power!Spec

=============================================================================
