------------------------------ MODULE Baseline ------------------------------
(***************************************************************************)
(* How vision_posture_module.py judges a pose: HeadHeightBaseline keeps    *)
(* the last Window head heights twice, in the order they came and sorted,  *)
(* and reads the user's upright height off as a percentile; judge_posture  *)
(* compares a pose with it.  Ratios are in hundredths.                     *)
(***************************************************************************)
EXTENDS Integers, Sequences, FiniteSets, SequencesExt

CONSTANTS
    Window,     \* window (600)
    MinSamples  \* min_samples (30)

ASSUME BaselineAssumption == Window \in Nat \ {0} /\ MinSamples \in Nat \ {0}

NoBaseline == -1  \* None
NoSamples == [samples |-> <<>>, sorted |-> <<>>]

(* bisect_left: where x is in a sorted sequence, or would go.               *)
BisectLeft(s, x) == Cardinality({i \in 1..Len(s) : s[i] < x}) + 1
(* bisect.insort puts an equal element behind its equals.                   *)
Insort(s, x) == InsertAt(s, Cardinality({i \in 1..Len(s) : s[i] <= x}) + 1, x)

\* Faulty variant: the smallest height makes room, not the oldest.
AddDroppingLeast(b, height) ==
    LET full == Len(b.samples) = Window IN
    [samples |-> Append(IF full THEN Tail(b.samples) ELSE b.samples, height),
     sorted  |-> Insort(IF full THEN Tail(b.sorted) ELSE b.sorted, height)]

Add(b, height) ==
    LET full == Len(b.samples) = Window
        kept == IF full THEN RemoveAt(b.sorted, BisectLeft(b.sorted, Head(b.samples))) ELSE b.sorted
    IN  [samples |-> Append(IF full THEN Tail(b.samples) ELSE b.samples, height),
         sorted  |-> Insort(kept, height)]

Value(b) ==
    IF Len(b.sorted) < MinSamples THEN NoBaseline
    ELSE b.sorted[(9 * (Len(b.sorted) - 1)) \div 10 + 1]

TiltMax == 12
LateralMax == 35
HeightMin == 30
DropRatio == 75

(* judge_posture, of a user in view                                         *)
Judged(view, baseline) ==
    \/ view.tilt > TiltMax \/ view.lateral > LateralMax \/ view.height < HeightMin
    \/ baseline # NoBaseline /\ 100 * view.height < DropRatio * baseline

=============================================================================
