------------------------------ MODULE MCVision ------------------------------
(***************************************************************************)
(* Vision with what an observer of the poses saw: since when the user has  *)
(* slouched, since when they have sat well (dropouts shorter than the grace*)
(* period break neither), and how long ago the last good pose, the last    *)
(* poor pose and the last absence were.  While the camera is away the      *)
(* observer sees nothing, and time passes.  Ages saturate at Cap.          *)
(***************************************************************************)
EXTENDS Vision

View(tilt, height) == [tilt |-> tilt, lateral |-> 0, height |-> height]
MCViews == {View(0, 60), View(0, 40), View(13, 60)}

VARIABLES
    slouch,     \* time since the first poor pose after the last break, NoTime = none
    well,       \* time since the first good pose after the last break, NoTime = none
    sinceGood,  \* time since the last good pose
    sincePoor,  \* time since the last poor pose
    out,        \* how long the present run of "none" poses lasts, NoTime = none
    sinceAway,  \* time since a pose ended an absence of Grace or more
    row         \* reads that failed in a row

history == <<slouch, well, sinceGood, sincePoor, out, sinceAway, row>>
mcvars == <<vvars, history>>

MCInit ==
    /\ VisionInit
    /\ slouch = NoTime /\ well = NoTime /\ out = NoTime
    /\ sinceGood = Cap /\ sincePoor = Cap /\ sinceAway = Cap
    /\ row = 0

Watch(pose, gap) ==
    LET gone == pose = "none" /\ Running(out, gap) >= Grace IN
    /\ out' = IF pose = "none" THEN Running(out, gap) ELSE NoTime
    /\ slouch' = CASE pose = "poor" -> Running(slouch, gap)
                   [] pose = "none" /\ ~gone -> Older(slouch, gap)
                   [] OTHER -> NoTime
    /\ well' = CASE pose = "good" -> Running(well, gap)
                 [] pose = "none" /\ ~gone -> Older(well, gap)
                 [] OTHER -> NoTime
    /\ sinceGood' = IF pose = "good" THEN 0 ELSE Older(sinceGood, gap)
    /\ sincePoor' = IF pose = "poor" THEN 0 ELSE Older(sincePoor, gap)
    /\ sinceAway' = IF gone THEN 0 ELSE Older(sinceAway, gap)

Unseen == UNCHANGED <<slouch, well, sinceGood, sincePoor, out, sinceAway>>

MCLoop ==
    /\ worker = "running"
    /\ \/ (Pause \/ OpenFails) /\ Unseen /\ UNCHANGED row
       \/ ReadFails /\ Unseen /\ row' = Least(row + 1, FailLimit)
       \/ Grab /\ Unseen /\ row' = 0
       \/ \E view \in Views \cup {NoUser} :
             Frame(view) /\ Watch(Pose(view), Least(sincePose + 1, Cap)) /\ row' = 0

MCNext ==
    \/ MCLoop
    \/ (Crash \/ Forward \/ TaskEnds) /\ UNCHANGED history

MCSpec == MCInit /\ [][MCNext]_mcvars /\ WF_vvars(CameraLoop) /\ WF_vvars(Forward)

(* POSTURE_POOR is not raised too early: the user has slouched since        *)
(* POSTURE_CONFIRM_S, in which no good pose and no absence of               *)
(* POSTURE_ABSENT_GRACE_S was seen.                                         *)
AlertEarned ==
    [][event' = "POSTURE_POOR" /\ ~alerted =>
          slouch' >= Confirm /\ sinceGood' >= Confirm /\ sinceAway' >= Confirm]_mcvars

(* POSTURE_POOR is not missed: a slouch of POSTURE_CONFIRM_S that only      *)
(* short dropouts interrupt has raised it by its last poor pose.            *)
SlouchNoticed == slouch >= Confirm /\ sincePoor = 0 => alerted

(* POSTURE_OK is not raised too early: the user has sat well since          *)
(* POSTURE_CLEAR_S, in which no poor pose was seen, and does so now; or they*)
(* have not been seen at all for POSTURE_ABSENT_RESET_S.                    *)
ClearEarned == [][event' = "POSTURE_OK" =>
                    \/ well' >= Clear /\ sinceGood' = 0 /\ sincePoor' >= Clear
                    \/ out' >= AbsentReset /\ sincePoor' >= AbsentReset]_mcvars

(* The camera is given up only after CAMERA_FAIL_LIMIT reads in a row       *)
(* failed, and is tried again after the shortest pause, however long and    *)
(* often it was away before.                                                *)
OutageIsReal == [][up = "UP" /\ up' = "DOWN" => row' = FailLimit /\ wait' = 1]_mcvars

(* The least height of s that all but the highest tenth do not exceed.      *)
Percentile(s) ==
    LET below(h) == Cardinality({i \in 1..Len(s) : s[i] < h})
        notAbove(h) == Cardinality({i \in 1..Len(s) : s[i] <= h})
        rank == (9 * (Len(s) - 1)) \div 10
    IN  CHOOSE h \in ToSet(s) : below(h) <= rank /\ rank < notAbove(h)

(* sorted holds the values of s, each as often, from the least up.          *)
IsSortingOf(sorted, s) ==
    LET often(t, h) == Cardinality({i \in 1..Len(t) : t[i] = h})
    IN  /\ \A i, j \in 1..Len(sorted) : i < j => sorted[i] <= sorted[j]
        /\ \A h \in ToSet(s) \cup ToSet(sorted) : often(sorted, h) = often(s, h)

(* The sorted copy never drifts from the window of the last heights,        *)
(* whatever equal heights it holds: the baseline is their percentile.       *)
BaselineIsPercentile ==
    /\ IsSortingOf(base.sorted, base.samples)
    /\ Len(base.samples) >= MinSamples => Value(base) = Percentile(base.samples)

=============================================================================
