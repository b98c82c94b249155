------------------------------ MODULE Posture ------------------------------
(***************************************************************************)
(* PostureMonitor of vision_posture_module.py: per-frame judgements become *)
(* POSTURE_POOR and POSTURE_OK.  A pose is "poor", "good" or "none" (nobody*)
(* in view).  Poses come at irregular times: a slow frame, or a camera that*)
(* was away, during which nothing is updated at all.                       *)
(*                                                                         *)
(* A timestamp of the code is kept as its age, saturating at Cap, which no *)
(* comparison of the code can tell from older; NoTime stands for None.     *)
(***************************************************************************)
EXTENDS Integers

CONSTANTS
    Confirm,      \* POSTURE_CONFIRM_S
    Clear,        \* POSTURE_CLEAR_S
    Remind,       \* POSTURE_REMIND_S
    AbsentReset,  \* POSTURE_ABSENT_RESET_S
    Grace         \* POSTURE_ABSENT_GRACE_S

ASSUME PostureAssumption ==
    /\ {Confirm, Clear, Remind, AbsentReset, Grace} \subseteq Nat \ {0}
    /\ Grace <= AbsentReset

Poses == {"poor", "good", "none"}
NoTime == -1
Cap == CHOOSE m \in {Confirm, Clear, Remind, AbsentReset, Grace} :
          \A n \in {Confirm, Clear, Remind, AbsentReset, Grace} : n <= m

VARIABLES
    alerted,
    poorAge,    \* age of poor_since
    goodAge,    \* age of good_since
    absentAge,  \* age of absent_since
    alertAge,   \* age of last_alert
    event       \* what the last update returned, "none" = None

vars == <<alerted, poorAge, goodAge, absentAge, alertAge, event>>

Init ==
    /\ alerted = FALSE /\ event = "none"
    /\ poorAge = NoTime /\ goodAge = NoTime /\ absentAge = NoTime /\ alertAge = Cap

Older(age, gap) == IF age = NoTime THEN NoTime ELSE IF age + gap > Cap THEN Cap ELSE age + gap

(* "if x_since is None: x_since = now", seen gap after the last update.     *)
Running(age, gap) == IF age = NoTime THEN 0 ELSE Older(age, gap)

-----------------------------------------------------------------------------
\* Faulty variant: every frame without the user restarts the timers.
AwayAtOnce(gap) == TRUE

Away(gap) == Running(absentAge, gap) >= Grace

Nobody(gap) ==
    LET gone == alerted /\ Running(absentAge, gap) >= AbsentReset IN
    /\ absentAge' = Running(absentAge, gap)
    /\ poorAge' = IF Away(gap) \/ gone THEN NoTime ELSE Older(poorAge, gap)
    /\ goodAge' = IF Away(gap) THEN NoTime ELSE Older(goodAge, gap)
    /\ alertAge' = Older(alertAge, gap)
    /\ alerted' = (alerted /\ ~gone)
    /\ event' = IF gone THEN "POSTURE_OK" ELSE "none"

\* Faulty variant: the timer of good posture runs on through a slouch.
PoorKeepsGood(gap) ==
    LET alert == ~alerted /\ Running(poorAge, gap) >= Confirm
        remind == alerted /\ Older(alertAge, gap) >= Remind
    IN  /\ absentAge' = NoTime /\ goodAge' = Older(goodAge, gap)
        /\ poorAge' = Running(poorAge, gap)
        /\ alerted' = (alerted \/ alert)
        /\ alertAge' = IF alert \/ remind THEN 0 ELSE Older(alertAge, gap)
        /\ event' = IF alert \/ remind THEN "POSTURE_POOR" ELSE "none"

Poor(gap) ==
    LET alert == ~alerted /\ Running(poorAge, gap) >= Confirm
        remind == alerted /\ Older(alertAge, gap) >= Remind
    IN  /\ absentAge' = NoTime /\ goodAge' = NoTime
        /\ poorAge' = Running(poorAge, gap)
        /\ alerted' = (alerted \/ alert)
        /\ alertAge' = IF alert \/ remind THEN 0 ELSE Older(alertAge, gap)
        /\ event' = IF alert \/ remind THEN "POSTURE_POOR" ELSE "none"

\* Faulty variant: one good pose does not end the slouch.
GoodKeepsPoor(gap) ==
    LET clear == alerted /\ Running(goodAge, gap) >= Clear IN
    /\ absentAge' = NoTime /\ poorAge' = Older(poorAge, gap)
    /\ goodAge' = Running(goodAge, gap)
    /\ alertAge' = Older(alertAge, gap)
    /\ alerted' = (alerted /\ ~clear)
    /\ event' = IF clear THEN "POSTURE_OK" ELSE "none"

Good(gap) ==
    LET clear == alerted /\ Running(goodAge, gap) >= Clear IN
    /\ absentAge' = NoTime /\ poorAge' = NoTime
    /\ goodAge' = Running(goodAge, gap)
    /\ alertAge' = Older(alertAge, gap)
    /\ alerted' = (alerted /\ ~clear)
    /\ event' = IF clear THEN "POSTURE_OK" ELSE "none"

(* update(poor, now)                                                        *)
Update(pose, gap) ==
    \/ pose = "none" /\ Nobody(gap)
    \/ pose = "poor" /\ Poor(gap)
    \/ pose = "good" /\ Good(gap)

(* A gap beyond Cap is like one of Cap: every timer saturates.               *)
Next == \E pose \in Poses, gap \in 1..Cap : Update(pose, gap)

Spec == Init /\ [][Next]_vars

-----------------------------------------------------------------------------
(* Types, and the timers that exclude each other: a running slouch timer    *)
(* and a running good timer are never both kept by a pose with the user in  *)
(* view.                                                                    *)
TypeOK ==
    /\ alerted \in BOOLEAN /\ event \in {"none", "POSTURE_POOR", "POSTURE_OK"}
    /\ {poorAge, goodAge, absentAge} \subseteq NoTime..Cap /\ alertAge \in 0..Cap
    /\ poorAge = NoTime \/ goodAge = NoTime

=============================================================================
