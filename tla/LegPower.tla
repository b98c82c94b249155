------------------------------ MODULE LegPower ------------------------------
(***************************************************************************)
(* What the leg controller promises about its servos, whatever commands,   *)
(* falls, sensor faults and resets it meets: they are energised only by a  *)
(* step that finds the latch open, the latch is closed only together with  *)
(* the power, opening it never moves anything, and a walk starts only on   *)
(* legs that were powered already.  Firmware implements it.                *)
(***************************************************************************)
VARIABLES power, latched, walking

powerVars == <<power, latched, walking>>

Init == power = FALSE /\ latched = FALSE /\ walking = FALSE

(* S or J: the legs take their position, standing still.                    *)
Energise == ~latched /\ power' = TRUE /\ walking' = FALSE /\ UNCHANGED latched

(* O, a fall.                                                               *)
Cut == power' = FALSE /\ walking' = FALSE /\ UNCHANGED latched

(* E.                                                                       *)
EStop == power' = FALSE /\ walking' = FALSE /\ latched' = TRUE

(* R: the servos stay as they are, and they are off if the latch was closed.*)
Release == (latched => ~power) /\ latched' = FALSE /\ power' = power /\ walking' = walking

(* W.                                                                       *)
Walk == power /\ ~latched /\ walking' \in BOOLEAN /\ UNCHANGED <<power, latched>>

(* The watchdog, an IMU fault.                                              *)
Halt == walking' = FALSE /\ UNCHANGED <<power, latched>>

Reset == power' = FALSE /\ latched' = FALSE /\ walking' = FALSE

Next == Energise \/ Cut \/ EStop \/ Release \/ Walk \/ Halt \/ Reset

Spec == Init /\ [][Next]_powerVars

=============================================================================
