------------------------ MODULE FirmwarePartsProofs -------------------------
(***************************************************************************)
(* Proofs about the parts of the leg controller that are modules of their  *)
(* own: the receiver of lines (FirmwareRx), for every size of its buffer;  *)
(* the distance sensor (TofSensor), for every limit; the servo outputs     *)
(* (ServoOutputs), for every wiring.                                       *)
(***************************************************************************)
EXTENDS Integers, Sequences, TLAPS

CONSTANTS Chars, BufSize, Stale, FailLimit, Channels, Legs, Ticks, Off, Unset

VARIABLES
    rxBuf, rxDiscarding, ran, refused, heard, cutOff,
    sensor, tofMm, tofFailCount, polls, measured, reply,
    mode, lastLegTick, chan, missed, booted

Rx == INSTANCE FirmwareRx
Tof == INSTANCE TofSensor
Out == INSTANCE ServoOutputs

-----------------------------------------------------------------------------
Fits == BufSize \in Nat \ {0}

LEMMA ReceiverInit == ASSUME Fits, Rx!Init PROVE Rx!Buffered
<1>1. Rx!IsFlag
  BY Zenon DEF Rx!Init, Rx!IsFlag
<1>2. Rx!Contents
  BY DEF Fits, Rx!Init, Rx!Contents
<1> QED BY <1>1, <1>2 DEF Rx!Buffered

LEMMA ReceiverStep == ASSUME Fits, Rx!Buffered, [Rx!Next]_(Rx!vars) PROVE Rx!Buffered'
<1>1. Rx!IsFlag'
  BY Zenon DEF Rx!Buffered, Rx!IsFlag, Rx!Next, Rx!EndOfLine, Rx!CarriageReturn, Rx!Receive,
     Rx!Reset, Rx!vars
<1>2. ASSUME Rx!EndOfLine PROVE Rx!Contents'
  BY <1>2 DEF Fits, Rx!Contents, Rx!EndOfLine
<1>3. ASSUME NEW c \in Chars, Rx!Receive(c) PROVE Rx!Contents'
  BY <1>3 DEF Fits, Rx!Buffered, Rx!Contents, Rx!Receive
<1>4. ASSUME Rx!Reset PROVE Rx!Contents'
  BY <1>4 DEF Fits, Rx!Reset, Rx!Contents
<1>5. ASSUME Rx!CarriageReturn \/ UNCHANGED Rx!vars PROVE Rx!Contents'
  BY <1>5 DEF Rx!Buffered, Rx!Contents, Rx!CarriageReturn, Rx!vars
<1>6. Rx!Contents'
  BY <1>2, <1>3, <1>4, <1>5 DEF Rx!Next
<1> QED BY <1>1, <1>6 DEF Rx!Buffered

(* The receive buffer, for every size of it and every sequence of bytes and *)
(* resets: handleSerialInput never writes past its end.                     *)
THEOREM ReceiverInvariant == ASSUME Fits PROVE Rx!Spec => []Rx!Buffered
BY ReceiverInit, ReceiverStep, PTL DEF Rx!Spec

(* handleSerialInput gives processCommand whole lines, or the tail of a     *)
(* line during which the controller booted, and drops nothing that fits.    *)
THEOREM OnlyWholeLinesRun == ASSUME Fits PROVE Rx!Spec => Rx!WholeLinesRun
<1>1. ASSUME Rx!Buffered, [Rx!Next]_(Rx!vars)
      PROVE [/\ ran' # <<>> => Rx!Line = cutOff \o ran'
             /\ Rx!EndOfLine /\ Len(heard) < BufSize => Rx!Line = cutOff \o ran']_(Rx!vars)
  <2>1. CASE Rx!EndOfLine
    <3>1. /\ ran' = IF rxDiscarding THEN <<>> ELSE heard
          /\ rxDiscarding <=> Len(heard) > BufSize - 1
      BY <1>1, <2>1 DEF Rx!Buffered, Rx!Contents, Rx!EndOfLine
    <3>2. Len(heard) < BufSize => ~rxDiscarding
      BY <1>1, <3>1 DEF Fits, Rx!Buffered, Rx!Contents
    <3>3. ran' # <<>> \/ ~rxDiscarding => ran' = heard
      BY <3>1, Zenon
    <3> QED BY <3>2, <3>3, Zenon DEF Rx!Line
  <2>2. ASSUME ~Rx!EndOfLine, ~UNCHANGED Rx!vars PROVE ran' = <<>>
    BY <1>1, <2>2 DEF Rx!Next, Rx!CarriageReturn, Rx!Receive, Rx!Reset
  <2> QED BY <2>1, <2>2
<1> QED BY <1>1, ReceiverInvariant, PTL DEF Rx!Spec, Rx!WholeLinesRun

(* NACK,?,OVERFLOW answers every overlong line, once.                       *)
THEOREM OverflowRefusedOnce == ASSUME Fits PROVE Rx!Spec => Rx!RefusedOnce
<1>1. ASSUME Rx!Buffered, [Rx!Next]_(Rx!vars)
      PROVE [refused' <=> Len(heard) < BufSize /\ Len(heard') >= BufSize]_(Rx!vars)
  <2>1. ASSUME NEW c \in Chars, Rx!Receive(c)
        PROVE  refused' <=> Len(heard) < BufSize /\ Len(heard') >= BufSize
    <3>1. Len(heard) \in Nat /\ Len(heard') = Len(heard) + 1
      BY <1>1, <2>1 DEF Rx!Buffered, Rx!Contents, Rx!Receive
    <3>2. refused' <=> ~rxDiscarding /\ Len(rxBuf) >= BufSize - 1
      <4>1. Len(rxBuf) \in Nat
        BY <1>1 DEF Rx!Buffered, Rx!Contents
      <4> QED BY <2>1, <4>1 DEF Fits, Rx!Receive
    <3>3. ~rxDiscarding /\ Len(rxBuf) >= BufSize - 1 <=> Len(heard) = BufSize - 1
      BY <1>1, <3>1 DEF Fits, Rx!Buffered, Rx!Contents
    <3> QED BY <3>1, <3>2, <3>3 DEF Fits
  <2>2. CASE Rx!EndOfLine \/ Rx!Reset
    <3>1. heard' = <<>> /\ ~refused'
      BY <2>2 DEF Rx!EndOfLine, Rx!Reset
    <3> QED BY <3>1 DEF Fits
  <2>3. CASE Rx!CarriageReturn
    <3>1. heard' = heard /\ ~refused' /\ Len(heard) \in Nat
      BY <1>1, <2>3 DEF Rx!CarriageReturn, Rx!Buffered, Rx!Contents
    <3> QED BY <3>1 DEF Fits
  <2> QED BY <1>1, <2>1, <2>2, <2>3 DEF Rx!Next
<1> QED BY <1>1, ReceiverInvariant, PTL DEF Rx!Spec, Rx!RefusedOnce

-----------------------------------------------------------------------------
Limits == Stale \in Nat /\ FailLimit \in Nat \ {0}

LEMMA SensorInit == ASSUME Limits, Tof!Init PROVE Tof!Kept
BY DEF Limits, Tof!Init, Tof!Kept

LEMMA SensorStep == ASSUME Limits, Tof!Kept, [Tof!Next]_(Tof!vars) PROVE Tof!Kept'
<1>1. CASE Tof!Poll
  <2>1. CASE Tof!PollFails
    BY <1>1, <2>1 DEF Limits, Tof!Kept, Tof!Poll, Tof!PollFails, Tof!Passes, Tof!Lost
  <2>2. CASE Tof!NothingNew
    BY <1>1, <2>2 DEF Limits, Tof!Kept, Tof!Poll, Tof!NothingNew, Tof!Passes, Tof!Lost
  <2>3. CASE Tof!NewRange
    BY <1>1, <2>3 DEF Limits, Tof!Kept, Tof!Poll, Tof!NewRange, Tof!Store
  <2> QED BY <1>1, <2>1, <2>2, <2>3 DEF Tof!Poll
<1>2. CASE Tof!CmdDistance
  BY <1>2 DEF Limits, Tof!Kept, Tof!CmdDistance, Tof!Retried, Tof!Initialised, Tof!Store
<1>3. CASE Tof!Reset
  BY <1>3 DEF Limits, Tof!Reset, Tof!Initialised, Tof!Kept
<1>4. CASE UNCHANGED Tof!vars
  BY <1>4 DEF Tof!Kept, Tof!vars
<1> QED BY <1>1, <1>2, <1>3, <1>4 DEF Tof!Next

(* What tofPoll keeps of the sensor, for every limit and every fault.       *)
THEOREM SensorInvariant == ASSUME Limits PROVE Tof!Spec => []Tof!Kept
BY SensorInit, SensorStep, PTL DEF Tof!Spec

(* cmdDistance never reports a distance older than the limits allow.        *)
THEOREM DistanceIsRecent == ASSUME Limits PROVE Tof!Spec => Tof!ReportsRecent
<1>1. ASSUME Tof!Kept, [Tof!Next]_(Tof!vars)
      PROVE [reply' = "known" => measured' < Stale + FailLimit]_(Tof!vars)
  <2>1. CASE Tof!CmdDistance
    BY <1>1, <2>1 DEF Limits, Tof!Kept, Tof!CmdDistance, Tof!Retried, Tof!Initialised, Tof!Store
  <2>2. ASSUME ~Tof!CmdDistance, ~UNCHANGED Tof!vars PROVE reply' # "known"
    BY <1>1, <2>2 DEF Tof!Next, Tof!Poll, Tof!Reset
  <2> QED BY <2>1, <2>2
<1> QED BY <1>1, SensorInvariant, PTL DEF Tof!Spec, Tof!ReportsRecent

-----------------------------------------------------------------------------
Wiring == Legs \subseteq Channels /\ Unset \notin Ticks

LEMMA OutputsInit == ASSUME Out!Init PROVE Out!OutputsInv
BY DEF Out!Init, Out!Forgotten, Out!OutputsInv, Out!Remembers, Out!LegsDriven, Out!OffIsOff

LEMMA SwitchOffKeeps == ASSUME Wiring, Out!OutputsInv, Out!SwitchOff PROVE Out!OutputsInv'
<1>1. PICK lost \in SUBSET Channels : Out!Written(Channels, [c \in Channels |-> Off], lost)
  BY DEF Out!SwitchOff, Out!AllOutputsOff
<1>2. Out!Remembers'
  BY <1>1 DEF Out!SwitchOff, Out!AllOutputsOff, Out!Written, Out!Forgotten, Out!OutputsInv,
     Out!Remembers
<1>3. Out!OffIsOff'
  BY <1>1 DEF Out!Written, Out!OffIsOff
<1> QED BY <1>2, <1>3 DEF Out!SwitchOff, Out!OutputsInv, Out!LegsDriven

(* writeLeg on entering the balancing mode, and in each of its ticks.       *)
LEMMA StandKeeps ==
    ASSUME Wiring, Out!OutputsInv, NEW pulse \in [Legs -> Ticks], Out!Stand(pulse)
    PROVE  Out!OutputsInv'
<1>1. PICK lost \in SUBSET Legs : Out!Written(Legs, pulse, lost)
  BY DEF Out!Stand
<1>2. Out!Remembers'
  BY <1>1 DEF Wiring, Out!Stand, Out!Written, Out!OutputsInv, Out!Remembers
<1>3. Out!LegsDriven'
  BY <1>1 DEF Wiring, Out!Stand, Out!Written, Out!LegsDriven
<1> QED BY <1>2, <1>3 DEF Out!Stand, Out!OutputsInv, Out!OffIsOff

LEMMA DriveKeeps ==
    ASSUME Wiring, Out!OutputsInv, NEW pulse \in [Legs -> Ticks], Out!Drive(pulse)
    PROVE  Out!OutputsInv'
<1> DEFINE changed == {l \in Legs : pulse[l] # lastLegTick[l]}
<1>1. PICK lost \in SUBSET changed : Out!Written(changed, pulse, lost)
  BY DEF Out!Drive
<1>2. Out!Remembers'
  BY <1>1 DEF Wiring, Out!Drive, Out!Written, Out!OutputsInv, Out!Remembers
<1>3. ASSUME NEW l \in Legs PROVE (l \in missed \/ chan[l] = lastLegTick[l])'
  <2>1. CASE l \in changed
    BY <1>1, <2>1 DEF Wiring, Out!Drive, Out!Written
  <2>2. CASE l \notin changed
    BY <1>1, <2>2 DEF Wiring, Out!Drive, Out!Written, Out!OutputsInv, Out!LegsDriven
  <2> QED BY <2>1, <2>2
<1> QED BY <1>2, <1>3 DEF Out!Drive, Out!OutputsInv, Out!LegsDriven, Out!OffIsOff

LEMMA JointKeeps ==
    ASSUME Wiring, Out!OutputsInv,
           NEW c \in Channels, NEW tick \in Ticks, Out!Joint(c, tick)
    PROVE  Out!OutputsInv'
<1>1. PICK lost \in SUBSET {c} : Out!Written({c}, [d \in {c} |-> tick], lost)
  BY DEF Out!Joint
<1>2. Out!Remembers'
  BY <1>1 DEF Out!Joint, Out!Written, Out!Forgotten, Out!OutputsInv, Out!Remembers
<1> QED BY <1>2 DEF Out!Joint, Out!OutputsInv, Out!LegsDriven, Out!OffIsOff

(* The servo outputs of the controller, for every wiring, every sequence of *)
(* commands and ticks and every loss of writes to the driver.               *)
THEOREM OutputsInvariant == ASSUME Wiring PROVE Out!Spec => []Out!OutputsInv
<1>1. ASSUME Out!OutputsInv, [Out!Next]_(Out!vars) PROVE Out!OutputsInv'
  <2>1. CASE Out!Reset
    BY <1>1, <2>1 DEF Out!Reset, Out!Forgotten, Out!OutputsInv, Out!Remembers, Out!LegsDriven,
       Out!OffIsOff
  <2>2. CASE UNCHANGED Out!vars
    BY <1>1, <2>2 DEF Out!vars, Out!Forgotten, Out!OutputsInv, Out!Remembers, Out!LegsDriven,
       Out!OffIsOff
  <2> QED BY <1>1, <2>1, <2>2, SwitchOffKeeps, StandKeeps, DriveKeeps, JointKeeps DEF Out!Next
<1> QED BY <1>1, OutputsInit, PTL DEF Out!Spec

(* allOutputsOff, called by E, O and a fall, with its fallback.             *)
THEOREM OffMeansLimp == ASSUME Wiring PROVE Out!Spec => []Out!OffIsOff
BY OutputsInvariant, PTL DEF Out!OutputsInv

(* writeLeg and its lastLegTick.                                            *)
THEOREM LegsAlwaysDriven == ASSUME Wiring PROVE Out!Spec => []Out!LegsDriven
BY OutputsInvariant, PTL DEF Out!OutputsInv

=============================================================================
