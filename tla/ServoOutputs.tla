---------------------------- MODULE ServoOutputs ----------------------------
(***************************************************************************)
(* The servo outputs of the leg controller (allOutputsOff, writeLeg,       *)
(* cmdStand, cmdJoint and driveLegs in emo_esp32.ino) and the servo driver *)
(* they are written to over a bus that may lose a write.  The sketch keeps *)
(* the pulse each leg was last told, to spare the bus the writes that      *)
(* change nothing.  Switching all off is one write, with sixteen others to *)
(* fall back on.  Which pulse a leg gets is a free choice; when a command  *)
(* is refused is left to Firmware.                                         *)
(***************************************************************************)
CONSTANTS
    Channels,  \* outputs of the driver (16)
    Legs,      \* the channels of the four leg joints
    Ticks,     \* pulses
    Off,       \* no pulse: the servo is limp
    Unset      \* 0xFFFF: not a pulse

VARIABLES
    mode,         \* "O" (also fallen or latched), "M" or "B"
    lastLegTick,
    chan,         \* what the driver puts out
    missed,       \* the channels whose last write was lost
    booted        \* nothing has been switched off since the last boot

vars == <<mode, lastLegTick, chan, missed, booted>>

Forgotten == [l \in Legs |-> Unset]

(* The driver keeps its outputs when the controller boots.                  *)
Init ==
    /\ mode = "O" /\ lastLegTick = Forgotten
    /\ chan \in [Channels -> Ticks \cup {Off}] /\ missed = {} /\ booted = "yes"

(* Writes to the channels of ws, of which those of lost do not arrive.      *)
Written(ws, pulse, lost) ==
    /\ chan' = [c \in Channels |-> IF c \in ws \ lost THEN pulse[c] ELSE chan[c]]
    /\ missed' = (missed \ ws) \cup (ws \cap lost)

(* allOutputsOff: one write to all channels, which loses none; if it is not *)
(* acknowledged, one to each, unchecked.                                    *)
AllOutputsOff ==
    /\ \E lost \in SUBSET Channels : Written(Channels, [c \in Channels |-> Off], lost)
    /\ lastLegTick' = Forgotten

(* O, E and a fall.                                                         *)
SwitchOff == AllOutputsOff /\ mode' = "O" /\ booted' = "no"

(* S, from any other mode: every leg is written.                            *)
Stand(pulse) ==
    /\ mode # "B" /\ mode' = "B"
    /\ \E lost \in SUBSET Legs : Written(Legs, pulse, lost)
    /\ lastLegTick' = pulse /\ UNCHANGED booted

(* driveLegs: writeLeg writes a leg whose pulse has changed.                *)
Drive(pulse) ==
    /\ mode = "B"
    /\ LET changed == {l \in Legs : pulse[l] # lastLegTick[l]} IN
          \E lost \in SUBSET changed : Written(changed, pulse, lost)
    /\ lastLegTick' = pulse /\ UNCHANGED <<mode, booted>>

(* J: the first one takes over from the balance loop.                       *)
Joint(c, tick) ==
    /\ mode' = "M"
    /\ lastLegTick' = IF mode # "M" THEN Forgotten ELSE lastLegTick
    /\ \E lost \in SUBSET {c} : Written({c}, [d \in {c} |-> tick], lost)
    /\ UNCHANGED booted

(* setup writes to no output.                                               *)
Reset ==
    /\ mode' = "O" /\ lastLegTick' = Forgotten /\ booted' = "yes"
    /\ UNCHANGED <<chan, missed>>

Next ==
    \/ SwitchOff \/ Reset
    \/ \E pulse \in [Legs -> Ticks] : Stand(pulse) \/ Drive(pulse)
    \/ \E c \in Channels, tick \in Ticks : Joint(c, tick)

Spec == Init /\ [][Next]_vars

-----------------------------------------------------------------------------
(* The pulses the sketch remembers, and outside the balancing mode it       *)
(* remembers none.                                                          *)
Remembers ==
    /\ lastLegTick \in [Legs -> Ticks \cup {Unset}]
    /\ chan \in [Channels -> Ticks \cup {Off}]
    /\ mode \in {"O", "M", "B"}
    /\ mode # "B" => lastLegTick = Forgotten
    /\ mode = "B" => \A l \in Legs : lastLegTick[l] \in Ticks

(* A remembered pulse never hides a write that is needed: every leg of a    *)
(* balancing robot gets the pulse the controller means, whatever was        *)
(* switched off or moved by hand before - unless the very write that set it *)
(* was lost, which nobody repeats until the pulse changes.                  *)
LegsDriven == mode = "B" => \A l \in Legs : l \in missed \/ chan[l] = lastLegTick[l]

(* An E-stop, O or a fall leaves every servo limp but those that both the   *)
(* write to all and the one to their channel failed to reach; only a        *)
(* controller that has just booted may have others on.                      *)
OffIsOff == mode = "O" => booted = "yes" \/ \A c \in Channels : c \in missed \/ chan[c] = Off

OutputsInv == Remembers /\ LegsDriven /\ OffIsOff

=============================================================================
