---------------------------- MODULE VisionProofs ----------------------------
(***************************************************************************)
(* Proofs about Vision and its observer MCVision, for every duration,      *)
(* period, limit and view: the alerts of the posture monitor, the outages  *)
(* of the camera, what the broker is told of them, and the height baseline *)
(* of the window of samples.                                               *)
(***************************************************************************)
EXTENDS MCVision, SequenceTheorems, FiniteSetTheorems, FunctionTheorems, TLAPS

-----------------------------------------------------------------------------
(* Ages.                                                                    *)

(* What the monitor compares its ages with.                                 *)
Durations == {Confirm, Clear, Remind, AbsentReset, Grace}

(* Cap is the longest of the durations.                                     *)
LEMMA CapIs ==
    /\ Cap \in Nat \ {0}
    /\ Confirm <= Cap /\ Clear <= Cap /\ AbsentReset <= Cap /\ Grace <= Cap
    /\ Confirm \in Nat \ {0} /\ Clear \in Nat \ {0}
    /\ AbsentReset \in Nat \ {0} /\ Grace \in Nat \ {0} /\ Grace <= AbsentReset
<1>1. /\ Confirm \in Nat \ {0} /\ Clear \in Nat \ {0} /\ Remind \in Nat \ {0}
      /\ AbsentReset \in Nat \ {0} /\ Grace \in Nat \ {0} /\ Grace <= AbsentReset
  BY PostureAssumption
<1>2. \A a, b \in Nat : \E m \in {a, b} : a <= m /\ b <= m
  OBVIOUS
<1>3. PICK m1 \in {Confirm, Clear} : Confirm <= m1 /\ Clear <= m1
  BY <1>1, <1>2
<1>4. PICK m2 \in {m1, Remind} : m1 <= m2 /\ Remind <= m2
  BY <1>1, <1>2, <1>3
<1>5. PICK m3 \in {m2, AbsentReset} : m2 <= m3 /\ AbsentReset <= m3
  BY <1>1, <1>2, <1>3, <1>4
<1>6. m3 \in Durations /\ \A n \in Durations : n <= m3
  BY <1>1, <1>3, <1>4, <1>5 DEF Durations
<1>7. Cap \in Durations /\ \A n \in Durations : n <= Cap
  BY <1>6, Zenon DEF Cap, Durations
<1> QED BY <1>1, <1>7 DEF Durations

(* What an age becomes when some time passes.                               *)
LEMMA OlderIs ==
    ASSUME NEW age \in NoTime..Cap, NEW gap \in 1..Cap
    PROVE  /\ Older(age, gap) \in NoTime..Cap
           /\ Older(age, gap) = NoTime <=> age = NoTime
           /\ age # NoTime => Older(age, gap) >= 1
           /\ Running(age, gap) \in 0..Cap
           /\ age # NoTime => Running(age, gap) = Older(age, gap)
           /\ age = NoTime => Running(age, gap) = 0
BY CapIs DEF Older, Running, NoTime

(* Two ages that grow by the same time keep their order.                    *)
LEMMA OlderKeepsOrder ==
    ASSUME NEW a \in NoTime..Cap, NEW b \in 0..Cap, NEW gap \in 1..Cap, a <= b
    PROVE  /\ Older(a, gap) <= Older(b, gap)
           /\ Running(a, gap) <= Older(b, gap)
BY CapIs DEF Older, Running, NoTime

-----------------------------------------------------------------------------
(* What an update does, by its pose.                                        *)

(* A poor pose starts or continues a slouch, and alerts when it is due.     *)
LEMMA PoorParts ==
    ASSUME NEW gap, alerted \in BOOLEAN, Poor(gap)
    PROVE  /\ alerted' \in BOOLEAN /\ (alerted => alerted')
           /\ absentAge' = NoTime /\ goodAge' = NoTime
           /\ poorAge' = Running(poorAge, gap)
           /\ Running(poorAge, gap) >= Confirm => alerted'
           /\ alertAge' = 0 \/ alertAge' = Older(alertAge, gap)
           /\ \/ event' = "none"
              \/ /\ event' = "POSTURE_POOR" /\ alerted'
                 /\ ~alerted => Running(poorAge, gap) >= Confirm
BY DEF Poor

(* A good pose ends a slouch, and clears the alert when it is due.          *)
LEMMA GoodParts ==
    ASSUME NEW gap, alerted \in BOOLEAN, Good(gap)
    PROVE  /\ alerted' \in BOOLEAN
           /\ absentAge' = NoTime /\ poorAge' = NoTime
           /\ goodAge' = Running(goodAge, gap)
           /\ alertAge' = Older(alertAge, gap)
           /\ event' = "none" \/ (event' = "POSTURE_OK" /\ Running(goodAge, gap) >= Clear)
BY DEF Good

(* A pose without the user ends both timers once the grace period is over.  *)
LEMMA NobodyParts ==
    ASSUME NEW gap, alerted \in BOOLEAN, Nobody(gap), absentAge \in NoTime..Cap, gap \in 1..Cap
    PROVE  /\ alerted' \in BOOLEAN
           /\ absentAge' = Running(absentAge, gap)
           /\ Running(absentAge, gap) >= Grace => poorAge' = NoTime /\ goodAge' = NoTime
           /\ ~(Running(absentAge, gap) >= Grace) =>
                 poorAge' = Older(poorAge, gap) /\ goodAge' = Older(goodAge, gap)
           /\ alertAge' = Older(alertAge, gap)
           /\ event' = "none" \/ (event' = "POSTURE_OK" /\ Running(absentAge, gap) >= AbsentReset)
<1>1. Running(absentAge, gap) \in 0..Cap
  BY OlderIs
<1>2. Running(absentAge, gap) >= AbsentReset => Running(absentAge, gap) >= Grace
  BY <1>1, CapIs
<1> QED BY <1>2 DEF Nobody, Away

(* The monitor's types, one by one.                                         *)
LEMMA TypeParts ==
    TypeOK <=> /\ alerted \in BOOLEAN
               /\ event \in {"none", "POSTURE_POOR", "POSTURE_OK"}
               /\ poorAge \in NoTime..Cap /\ goodAge \in NoTime..Cap /\ absentAge \in NoTime..Cap
               /\ alertAge \in 0..Cap
               /\ poorAge = NoTime \/ goodAge = NoTime
BY Zenon DEF TypeOK

(* The age of something that happened stays one.                            *)
LEMMA AlertAgeTypes ==
    ASSUME NEW age \in 0..Cap, NEW gap \in 1..Cap
    PROVE  Older(age, gap) \in 1..Cap /\ age \in NoTime..Cap /\ 0 \in NoTime..Cap
           /\ NoTime \in NoTime..Cap
BY CapIs DEF Older, NoTime

(* An update keeps the types.                                               *)
LEMMA UpdateTypes ==
    ASSUME TypeOK, NEW gap \in 1..Cap, NEW pose, Update(pose, gap)
    PROVE  TypeOK'
<1>1. /\ alerted \in BOOLEAN
      /\ poorAge \in NoTime..Cap /\ goodAge \in NoTime..Cap /\ absentAge \in NoTime..Cap
      /\ alertAge \in 0..Cap /\ (poorAge = NoTime \/ goodAge = NoTime)
  BY TypeParts, Zenon
<1>2. /\ Running(poorAge, gap) \in 0..Cap /\ Running(goodAge, gap) \in 0..Cap
      /\ Running(absentAge, gap) \in 0..Cap
      /\ Older(poorAge, gap) \in NoTime..Cap /\ Older(goodAge, gap) \in NoTime..Cap
      /\ Older(poorAge, gap) = NoTime <=> poorAge = NoTime
      /\ Older(goodAge, gap) = NoTime <=> goodAge = NoTime
  BY <1>1, OlderIs, Zenon
<1>3. /\ Older(alertAge, gap) \in 0..Cap /\ NoTime \in NoTime..Cap /\ 0 \in 0..Cap
      /\ \A age \in 0..Cap : age \in NoTime..Cap
  <2>1. Older(alertAge, gap) \in 1..Cap
    BY <1>1, AlertAgeTypes
  <2> QED BY <2>1, CapIs DEF NoTime
<1>4. CASE Poor(gap)
  <2>1. /\ alerted' \in BOOLEAN /\ absentAge' = NoTime /\ goodAge' = NoTime
        /\ poorAge' = Running(poorAge, gap)
        /\ alertAge' = 0 \/ alertAge' = Older(alertAge, gap)
        /\ event' = "none" \/ event' = "POSTURE_POOR"
    BY <1>1, <1>4, PoorParts
  <2>2. event' \in {"none", "POSTURE_POOR", "POSTURE_OK"}
    BY <2>1
  <2> QED BY <1>2, <1>3, <2>1, <2>2, Zenon DEF TypeOK
<1>5. CASE Good(gap)
  <2>1. /\ alerted' \in BOOLEAN /\ absentAge' = NoTime /\ poorAge' = NoTime
        /\ goodAge' = Running(goodAge, gap) /\ alertAge' = Older(alertAge, gap)
        /\ event' = "none" \/ event' = "POSTURE_OK"
    BY <1>1, <1>5, GoodParts
  <2>2. event' \in {"none", "POSTURE_POOR", "POSTURE_OK"}
    BY <2>1
  <2> QED BY <1>2, <1>3, <2>1, <2>2, Zenon DEF TypeOK
<1>6. CASE Nobody(gap)
  <2> DEFINE away == Running(absentAge, gap) >= Grace
  <2>1. /\ alerted' \in BOOLEAN /\ absentAge' = Running(absentAge, gap)
        /\ away => poorAge' = NoTime /\ goodAge' = NoTime
        /\ ~away => poorAge' = Older(poorAge, gap) /\ goodAge' = Older(goodAge, gap)
        /\ alertAge' = Older(alertAge, gap)
        /\ event' = "none" \/ event' = "POSTURE_OK"
    BY <1>1, <1>6, NobodyParts
  <2> HIDE DEF away
  <2>2. event' \in {"none", "POSTURE_POOR", "POSTURE_OK"}
    BY <2>1
  <2>3. /\ poorAge' \in NoTime..Cap /\ goodAge' \in NoTime..Cap
        /\ poorAge' = NoTime \/ goodAge' = NoTime
    BY <1>1, <1>2, <1>3, <2>1, Zenon
  <2> QED BY <1>2, <1>3, <2>1, <2>2, <2>3, Zenon DEF TypeOK
<1> QED BY <1>4, <1>5, <1>6, Zenon DEF Update

-----------------------------------------------------------------------------
(* The monitor and its observer.                                            *)

(* The observer's slouch, good posture and absence are the monitor's timers.*)
Watched ==
    /\ slouch = poorAge /\ well = goodAge /\ out = absentAge
    /\ sinceGood \in 0..Cap /\ sincePoor \in 0..Cap /\ sinceAway \in 0..Cap

(* What breaks a timer lies behind its start.                               *)
Trail ==
    /\ poorAge # NoTime => sinceGood >= poorAge /\ sinceAway >= poorAge
    /\ goodAge # NoTime => sincePoor >= goodAge
    /\ absentAge # NoTime => sincePoor >= absentAge

(* What the last event was raised for.                                      *)
Raised ==
    /\ event = "POSTURE_POOR" => alerted
    /\ event = "POSTURE_OK" =>
          \/ well >= Clear /\ sinceGood = 0 /\ sincePoor >= Clear
          \/ out >= AbsentReset /\ sincePoor >= AbsentReset

(* The inductive invariant of the alerts.                                   *)
TimersInv == TypeOK /\ Watched /\ Trail /\ Raised /\ SlouchNoticed

(* An alert follows a slouch that lasted long enough.                       *)
Earned ==
    event' = "POSTURE_POOR" /\ ~alerted =>
       slouch' >= Confirm /\ sinceGood' >= Confirm /\ sinceAway' >= Confirm

(* A poor pose keeps the timers in step, and an alert is earned.            *)
LEMMA PoorKeeps ==
    ASSUME TimersInv, NEW gap \in 1..Cap, Poor(gap), Watch("poor", gap)
    PROVE  TimersInv' /\ Earned
<1>1. /\ alerted' \in BOOLEAN /\ (alerted => alerted')
      /\ absentAge' = NoTime /\ goodAge' = NoTime
      /\ poorAge' = Running(poorAge, gap)
      /\ Running(poorAge, gap) >= Confirm => alerted'
      /\ alertAge' = 0 \/ alertAge' = Older(alertAge, gap)
      /\ \/ event' = "none"
         \/ /\ event' = "POSTURE_POOR" /\ alerted'
            /\ ~alerted => Running(poorAge, gap) >= Confirm
  <2>1. alerted \in BOOLEAN
    BY TypeParts, Zenon DEF TimersInv
  <2> QED BY <2>1, PoorParts
<1>2. /\ out' = NoTime /\ slouch' = Running(slouch, gap) /\ well' = NoTime
      /\ sinceGood' = Older(sinceGood, gap) /\ sincePoor' = 0
      /\ sinceAway' = Older(sinceAway, gap)
  BY DEF Watch
<1>3. /\ poorAge \in NoTime..Cap /\ alertAge \in 0..Cap /\ slouch = poorAge
      /\ sinceGood \in 0..Cap /\ sinceAway \in 0..Cap
      /\ poorAge # NoTime => sinceGood >= poorAge /\ sinceAway >= poorAge
  BY TypeParts, Zenon DEF TimersInv, Watched, Trail
<1>4. Running(poorAge, gap) \in 0..Cap
  BY <1>3, OlderIs
<1>5. /\ Older(sinceGood, gap) \in 1..Cap /\ Older(sinceAway, gap) \in 1..Cap
      /\ Older(alertAge, gap) \in 1..Cap
  BY <1>3, AlertAgeTypes
<1>6. /\ Running(poorAge, gap) <= Older(sinceGood, gap)
      /\ Running(poorAge, gap) <= Older(sinceAway, gap)
  <2>1. poorAge <= sinceGood /\ poorAge <= sinceAway
    BY <1>3, CapIs DEF NoTime
  <2> QED BY <1>3, <2>1, OlderKeepsOrder
<1>7. TypeOK'
  <2>1. Update("poor", gap)
    BY Zenon DEF Update
  <2> QED BY <2>1, UpdateTypes, Zenon DEF TimersInv
<1>8. Watched'
  BY <1>1, <1>2, <1>3, <1>5, CapIs DEF Watched
<1>9. Trail'
  BY <1>1, <1>2, <1>4, <1>5, <1>6 DEF Trail
<1>10. Raised'
  <2>1. event' = "POSTURE_POOR" => alerted'
    BY <1>1, Zenon
  <2>2. event' # "POSTURE_OK"
    BY <1>1
  <2> QED BY <2>1, <2>2, Zenon DEF Raised
<1>11. SlouchNoticed'
  <2>1. slouch' = Running(poorAge, gap)
    BY <1>2, <1>3, Zenon
  <2> QED BY <1>1, <2>1, Zenon DEF SlouchNoticed
<1>12. Earned
  <2> SUFFICES ASSUME event' = "POSTURE_POOR", ~alerted
               PROVE  slouch' >= Confirm /\ sinceGood' >= Confirm /\ sinceAway' >= Confirm
    BY Zenon DEF Earned
  <2>1. Running(poorAge, gap) >= Confirm
    BY <1>1
  <2>2. slouch' >= Confirm
    BY <1>2, <1>3, <2>1, Zenon
  <2> QED BY <1>2, <1>4, <1>5, <1>6, <2>1, <2>2, CapIs
<1> QED BY <1>7, <1>8, <1>9, <1>10, <1>11, <1>12, Zenon DEF TimersInv

(* So does a good pose,                                                     *)
LEMMA GoodKeeps ==
    ASSUME TimersInv, NEW gap \in 1..Cap, Good(gap), Watch("good", gap)
    PROVE  TimersInv' /\ Earned
<1>1. /\ alerted' \in BOOLEAN
      /\ absentAge' = NoTime /\ poorAge' = NoTime
      /\ goodAge' = Running(goodAge, gap)
      /\ alertAge' = Older(alertAge, gap)
      /\ event' = "none" \/ (event' = "POSTURE_OK" /\ Running(goodAge, gap) >= Clear)
  <2>1. alerted \in BOOLEAN
    BY TypeParts, Zenon DEF TimersInv
  <2> QED BY <2>1, GoodParts
<1>2. /\ out' = NoTime /\ slouch' = NoTime /\ well' = Running(well, gap)
      /\ sinceGood' = 0 /\ sincePoor' = Older(sincePoor, gap)
      /\ sinceAway' = Older(sinceAway, gap)
  BY DEF Watch
<1>3. /\ goodAge \in NoTime..Cap /\ alertAge \in 0..Cap /\ well = goodAge
      /\ sincePoor \in 0..Cap /\ sinceAway \in 0..Cap
      /\ goodAge # NoTime => sincePoor >= goodAge
  BY TypeParts, Zenon DEF TimersInv, Watched, Trail
<1>4. Running(goodAge, gap) \in 0..Cap
  BY <1>3, OlderIs
<1>5. /\ Older(sincePoor, gap) \in 1..Cap /\ Older(sinceAway, gap) \in 1..Cap
      /\ Older(alertAge, gap) \in 1..Cap
  BY <1>3, AlertAgeTypes
<1>6. Running(goodAge, gap) <= Older(sincePoor, gap)
  <2>1. goodAge <= sincePoor
    BY <1>3, CapIs DEF NoTime
  <2> QED BY <1>3, <2>1, OlderKeepsOrder
<1>7. TypeOK'
  <2>1. Update("good", gap)
    BY Zenon DEF Update
  <2> QED BY <2>1, UpdateTypes, Zenon DEF TimersInv
<1>8. Watched'
  <2>1. well' = goodAge'
    BY <1>1, <1>2, <1>3, Zenon
  <2> QED BY <1>1, <1>2, <1>5, <2>1, CapIs DEF Watched
<1>9. Trail'
  BY <1>1, <1>2, <1>4, <1>5, <1>6 DEF Trail
<1>10. Raised'
  <2>1. event' = "POSTURE_OK" => sincePoor' >= Clear
    BY <1>1, <1>2, <1>4, <1>5, <1>6, CapIs
  <2>2. event' # "POSTURE_POOR"
    BY <1>1
  <2>3. event' = "POSTURE_OK" => well' >= Clear
    BY <1>1, <1>2, <1>3, Zenon
  <2> QED BY <1>2, <2>1, <2>2, <2>3, Zenon DEF Raised
<1>11. SlouchNoticed'
  <2>1. sincePoor' # 0
    BY <1>2, <1>5
  <2> QED BY <2>1, Zenon DEF SlouchNoticed
<1>12. Earned
  BY <1>1 DEF Earned
<1> QED BY <1>7, <1>8, <1>9, <1>10, <1>11, <1>12, Zenon DEF TimersInv

(* and so does an absence.                                                  *)
LEMMA NobodyKeeps ==
    ASSUME TimersInv, NEW gap \in 1..Cap, Nobody(gap), Watch("none", gap)
    PROVE  TimersInv' /\ Earned
<1> DEFINE away == Running(absentAge, gap) >= Grace
<1>1. /\ poorAge \in NoTime..Cap /\ goodAge \in NoTime..Cap /\ absentAge \in NoTime..Cap
      /\ alertAge \in 0..Cap /\ slouch = poorAge /\ well = goodAge /\ out = absentAge
      /\ sinceGood \in 0..Cap /\ sincePoor \in 0..Cap /\ sinceAway \in 0..Cap
      /\ poorAge = NoTime \/ goodAge = NoTime
      /\ poorAge # NoTime => sinceGood >= poorAge /\ sinceAway >= poorAge
      /\ goodAge # NoTime => sincePoor >= goodAge
      /\ absentAge # NoTime => sincePoor >= absentAge
  BY TypeParts, Zenon DEF TimersInv, Watched, Trail
<1>2. /\ alerted' \in BOOLEAN
      /\ absentAge' = Running(absentAge, gap)
      /\ away => poorAge' = NoTime /\ goodAge' = NoTime
      /\ ~away => poorAge' = Older(poorAge, gap) /\ goodAge' = Older(goodAge, gap)
      /\ alertAge' = Older(alertAge, gap)
      /\ event' = "none" \/ (event' = "POSTURE_OK" /\ Running(absentAge, gap) >= AbsentReset)
  <2>1. alerted \in BOOLEAN
    BY TypeParts, Zenon DEF TimersInv
  <2> QED BY <1>1, <2>1, NobodyParts
<1>3. /\ out' = Running(absentAge, gap)
      /\ away => slouch' = NoTime /\ well' = NoTime /\ sinceAway' = 0
      /\ ~away => /\ slouch' = Older(slouch, gap) /\ well' = Older(well, gap)
                  /\ sinceAway' = Older(sinceAway, gap)
      /\ sinceGood' = Older(sinceGood, gap) /\ sincePoor' = Older(sincePoor, gap)
  BY <1>1 DEF Watch
<1> HIDE DEF away
<1>4. /\ Running(absentAge, gap) \in 0..Cap
      /\ Older(poorAge, gap) \in NoTime..Cap /\ Older(goodAge, gap) \in NoTime..Cap
      /\ Older(poorAge, gap) = NoTime <=> poorAge = NoTime
      /\ Older(goodAge, gap) = NoTime <=> goodAge = NoTime
  BY <1>1, OlderIs, Zenon
<1>5. /\ Older(sinceGood, gap) \in 1..Cap /\ Older(sincePoor, gap) \in 1..Cap
      /\ Older(sinceAway, gap) \in 1..Cap /\ Older(alertAge, gap) \in 1..Cap
  BY <1>1, AlertAgeTypes
<1>6. /\ Older(poorAge, gap) <= Older(sinceGood, gap)
      /\ Older(poorAge, gap) <= Older(sinceAway, gap)
      /\ Older(goodAge, gap) <= Older(sincePoor, gap)
      /\ Running(absentAge, gap) <= Older(sincePoor, gap)
  <2>1. poorAge <= sinceGood /\ poorAge <= sinceAway /\ goodAge <= sincePoor
        /\ absentAge <= sincePoor
    BY <1>1, CapIs DEF NoTime
  <2> QED BY <1>1, <2>1, OlderKeepsOrder
<1>7. NoTime \in NoTime..Cap /\ 0 \in 0..Cap
  BY CapIs DEF NoTime
<1>8. TypeOK'
  <2>1. Update("none", gap)
    BY Zenon DEF Update
  <2> QED BY <2>1, UpdateTypes, Zenon DEF TimersInv
<1>9. Watched'
  <2>1. slouch' = poorAge' /\ well' = goodAge' /\ out' = absentAge'
    BY <1>1, <1>2, <1>3, Zenon
  <2>2. sinceGood' \in 0..Cap /\ sincePoor' \in 0..Cap /\ sinceAway' \in 0..Cap
    BY <1>3, <1>5, <1>7
  <2> QED BY <2>1, <2>2, Zenon DEF Watched
<1>10. Trail'
  <2>1. CASE away
    BY <1>2, <1>3, <1>4, <1>5, <1>6, <2>1 DEF Trail
  <2>2. CASE ~away
    BY <1>2, <1>3, <1>4, <1>5, <1>6, <2>2 DEF Trail
  <2> QED BY <2>1, <2>2
<1>11. Raised'
  <2>1. event' = "POSTURE_OK" => out' >= AbsentReset /\ sincePoor' >= AbsentReset
    BY <1>2, <1>3, <1>4, <1>5, <1>6, CapIs
  <2>2. event' # "POSTURE_POOR"
    BY <1>2
  <2> QED BY <2>1, <2>2, Zenon DEF Raised
<1>12. SlouchNoticed'
  <2>1. sincePoor' # 0
    BY <1>3, <1>5
  <2> QED BY <2>1, Zenon DEF SlouchNoticed
<1>13. Earned
  BY <1>2 DEF Earned
<1> QED BY <1>8, <1>9, <1>10, <1>11, <1>12, <1>13, Zenon DEF TimersInv

-----------------------------------------------------------------------------
(* Every step of the composition is a pose seen, or leaves the monitor be.  *)

(* No pose is seen.                                                         *)
Quiet == UNCHANGED <<alerted, poorAge, goodAge, absentAge, alertAge, event,
                     slouch, well, sinceGood, sincePoor, out, sinceAway>>

(* A pose is seen, by monitor and observer alike.                           *)
Seen == \E pose \in Poses, gap \in 1..Cap : Update(pose, gap) /\ Watch(pose, gap)

(* The time since the last pose, and the gap an update is given.            *)
LEMMA LapKeeps ==
    ASSUME sincePose \in 0..Far
    PROVE  /\ Lap => sincePose' \in 0..Far
           /\ Least(sincePose + 1, Cap) \in 1..Cap
           /\ 0 \in 0..Far /\ Far \in 0..Far
<1>1. Cap \in Nat \ {0} /\ PosePeriod \in Nat \ {0}
  BY CapIs, VisionAssumption
<1> QED BY <1>1 DEF Lap, Least, Far

(* A view is judged one of the poses.                                       *)
LEMMA PoseIs == \A view : Pose(view) \in Poses
BY DEF Pose, Poses

(* A step that touches neither the monitor nor the observer.                *)
LEMMA QuietIs == UNCHANGED vars /\ Unseen => Quiet
BY Zenon DEF vars, Unseen, Quiet

(* The camera loop feeds the monitor a pose, or leaves it alone,            *)
LEMMA LoopSteps ==
    ASSUME sincePose \in 0..Far, MCLoop
    PROVE  sincePose' \in 0..Far /\ (Quiet \/ Seen)
<1>1. CASE (Pause \/ OpenFails) /\ Unseen
  <2>1. UNCHANGED vars /\ Lap
    BY <1>1, Zenon DEF Pause, OpenFails
  <2> QED BY <1>1, <2>1, QuietIs, LapKeeps, Zenon
<1>2. CASE ReadFails /\ Unseen
  <2>1. UNCHANGED vars /\ Lap
    BY <1>2, Zenon DEF ReadFails
  <2> QED BY <1>2, <2>1, QuietIs, LapKeeps, Zenon
<1>3. CASE Grab /\ Unseen
  <2>1. UNCHANGED vars /\ Lap
    BY <1>3, Zenon DEF Grab
  <2> QED BY <1>3, <2>1, QuietIs, LapKeeps, Zenon
<1>4. ASSUME NEW view, Frame(view), Watch(Pose(view), Least(sincePose + 1, Cap))
      PROVE  sincePose' \in 0..Far /\ Seen
  <2>1. Update(Pose(view), Least(sincePose + 1, Cap)) /\ sincePose' = 0
    BY <1>4, Zenon DEF Frame
  <2>2. Seen
    BY <1>4, <2>1, LapKeeps, PoseIs, Zenon DEF Seen
  <2> QED BY <2>1, <2>2, LapKeeps
<1> QED BY <1>1, <1>2, <1>3, <1>4, Zenon DEF MCLoop

(* and no other step touches the monitor.                                   *)
LEMMA Steps ==
    ASSUME sincePose \in 0..Far, [MCNext]_mcvars
    PROVE  sincePose' \in 0..Far /\ (Quiet \/ Seen)
<1>1. CASE MCLoop
  BY <1>1, LoopSteps
<1>2. CASE (Crash \/ Forward \/ TaskEnds) /\ UNCHANGED history
  <2>1. UNCHANGED vars /\ sincePose' = sincePose
    BY <1>2, Zenon DEF Crash, Forward, TaskEnds
  <2>2. Unseen
    BY <1>2, Zenon DEF history, Unseen
  <2> QED BY <2>1, <2>2, QuietIs, Zenon
<1>3. CASE UNCHANGED mcvars
  <2>1. UNCHANGED vars /\ Unseen /\ sincePose' = sincePose
    BY <1>3, Zenon DEF mcvars, vvars, history, Unseen
  <2> QED BY <2>1, QuietIs, Zenon
<1> QED BY <1>1, <1>2, <1>3, Zenon DEF MCNext

(* Nothing changes while no pose comes.                                     *)
LEMMA QuietKeeps ==
    ASSUME TimersInv, Quiet
    PROVE  TimersInv' /\ Earned
<1>1. TimersInv'
  BY Zenon DEF TimersInv, TypeOK, Watched, Trail, Raised, SlouchNoticed, Quiet
<1>2. event' = "POSTURE_POOR" => alerted
  BY Zenon DEF TimersInv, Raised, Quiet
<1> QED BY <1>1, <1>2, Zenon DEF Earned

(* Every pose keeps the timers in step.                                     *)
LEMMA SeenKeeps ==
    ASSUME TimersInv, Seen
    PROVE  TimersInv' /\ Earned
<1>1. PICK pose \in Poses, gap \in 1..Cap : Update(pose, gap) /\ Watch(pose, gap)
  BY Zenon DEF Seen
<1>2. CASE pose = "poor" /\ Poor(gap)
  BY <1>1, <1>2, PoorKeeps, Zenon
<1>3. CASE pose = "good" /\ Good(gap)
  BY <1>1, <1>3, GoodKeeps, Zenon
<1>4. CASE pose = "none" /\ Nobody(gap)
  BY <1>1, <1>4, NobodyKeeps, Zenon
<1> QED BY <1>1, <1>2, <1>3, <1>4, Zenon DEF Update

(* The alerts' invariant, with the clock of the camera loop.                *)
Alerts == sincePose \in 0..Far /\ TimersInv

(* All timers are at rest at first.                                         *)
LEMMA AlertsAtFirst == MCInit => Alerts
<1> SUFFICES ASSUME MCInit PROVE Alerts
  OBVIOUS
<1>1. /\ alerted = FALSE /\ event = "none" /\ poorAge = NoTime /\ goodAge = NoTime
      /\ absentAge = NoTime /\ alertAge = Cap /\ slouch = NoTime /\ well = NoTime /\ out = NoTime
      /\ sinceGood = Cap /\ sincePoor = Cap /\ sinceAway = Cap /\ sincePose = Far
  BY Zenon DEF MCInit, VisionInit, Init
<1>2. NoTime \in NoTime..Cap /\ Cap \in 0..Cap /\ Cap # 0 /\ Far \in 0..Far
  <2>1. PosePeriod \in Nat \ {0}
    BY VisionAssumption
  <2> QED BY <2>1, CapIs DEF NoTime, Far
<1>3. TypeOK
  BY <1>1, <1>2, Zenon DEF TypeOK
<1>4. Watched /\ Trail
  BY <1>1, <1>2, Zenon DEF Watched, Trail
<1>5. Raised
  BY <1>1 DEF Raised
<1>6. SlouchNoticed
  BY <1>1, <1>2, Zenon DEF SlouchNoticed
<1> QED BY <1>1, <1>2, <1>3, <1>4, <1>5, <1>6, Zenon DEF Alerts, TimersInv

(* Every step keeps the timers in step, and alerts are earned.              *)
LEMMA AlertsKept ==
    ASSUME Alerts, [MCNext]_mcvars
    PROVE  Alerts' /\ Earned
<1>1. sincePose' \in 0..Far /\ (Quiet \/ Seen)
  BY Steps, Zenon DEF Alerts
<1>2. TimersInv' /\ Earned
  BY <1>1, QuietKeeps, SeenKeeps, Zenon DEF Alerts
<1> QED BY <1>1, <1>2, Zenon DEF Alerts

(* The timers are always in step.                                           *)
LEMMA AlertsAlways == MCSpec => []Alerts
BY AlertsAtFirst, AlertsKept, PTL DEF MCSpec

(* A slouch of POSTURE_CONFIRM_S, interrupted by nothing longer than a      *)
(* dropout, has been alerted by its last poor pose: for all durations, any  *)
(* pose period and any views.                                               *)
THEOREM SlouchAlwaysNoticed == MCSpec => []SlouchNoticed
<1>1. Alerts => SlouchNoticed
  BY Zenon DEF Alerts, TimersInv
<1> QED BY <1>1, AlertsAlways, PTL

(* POSTURE_POOR is raised only on a slouch that lasted POSTURE_CONFIRM_S    *)
(* since its first poor pose, unbroken as far as the camera saw.            *)
THEOREM AlertsAreEarned == MCSpec => AlertEarned
<1>1. Alerts /\ [MCNext]_mcvars =>
         [event' = "POSTURE_POOR" /\ ~alerted =>
            slouch' >= Confirm /\ sinceGood' >= Confirm /\ sinceAway' >= Confirm]_mcvars
  <2> SUFFICES ASSUME Alerts, [MCNext]_mcvars
               PROVE  event' = "POSTURE_POOR" /\ ~alerted =>
                         slouch' >= Confirm /\ sinceGood' >= Confirm /\ sinceAway' >= Confirm
    BY Zenon
  <2> QED BY AlertsKept, Zenon DEF Earned
<1> QED BY <1>1, AlertsAlways, PTL DEF MCSpec, AlertEarned

(* POSTURE_OK is raised only after POSTURE_CLEAR_S of sitting well, counted *)
(* from the first good pose of the run, or POSTURE_ABSENT_RESET_S of absence.*)
THEOREM ClearsAreEarned == MCSpec => ClearEarned
<1>1. Alerts /\ [MCNext]_mcvars =>
         [event' = "POSTURE_OK" =>
            \/ well' >= Clear /\ sinceGood' = 0 /\ sincePoor' >= Clear
            \/ out' >= AbsentReset /\ sincePoor' >= AbsentReset]_mcvars
  <2> SUFFICES ASSUME Alerts, [MCNext]_mcvars
               PROVE  event' = "POSTURE_OK" =>
                         \/ well' >= Clear /\ sinceGood' = 0 /\ sincePoor' >= Clear
                         \/ out' >= AbsentReset /\ sincePoor' >= AbsentReset
    BY Zenon
  <2> QED BY AlertsKept, Zenon DEF Alerts, TimersInv, Raised
<1> QED BY <1>1, AlertsAlways, PTL DEF MCSpec, ClearEarned

(* What the camera loop feeds the posture monitor is what the monitor is    *)
(* specified for: one of the three poses, some time after the last one,     *)
(* never none.                                                              *)
THEOREM MonitorAlwaysFed == MCSpec => Spec
<1>1. MCInit => Init
  BY Zenon DEF MCInit, VisionInit
<1>2. ASSUME sincePose \in 0..Far, [MCNext]_mcvars PROVE [Next]_vars
  BY <1>2, Steps, Zenon DEF Quiet, Seen, Next, vars
<1> QED BY <1>1, <1>2, AlertsAlways, PTL DEF MCSpec, Spec, Alerts

-----------------------------------------------------------------------------
(* The camera.                                                              *)

(* An open camera has not failed too often.                                 *)
CamOK ==
    /\ cap \in BOOLEAN /\ (cap => failures < FailLimit)
    /\ up \in States \cup {"none"}
    /\ failures \in 0..FailLimit /\ backoff \in 1..BackoffMax /\ wait \in 0..BackoffMax
    /\ worker \in {"running", "crashed"}

(* The limits, one by one.                                                  *)
LEMMA LimitsAre ==
    /\ PosePeriod \in Nat \ {0} /\ FailLimit \in Nat \ {0}
    /\ BackoffMax \in Nat \ {0} /\ MailMax \in Nat \ {0}
BY VisionAssumption

(* Nothing happens to the camera.                                           *)
CamFixed == UNCHANGED <<cap, up, failures, backoff, wait>>

(* A step that leaves the camera alone.                                     *)
LEMMA CamFixedKeeps ==
    ASSUME CamOK, CamFixed, worker' \in {"running", "crashed"}
    PROVE  CamOK'
BY Zenon DEF CamOK, CamFixed

(* A read that fails is counted; it closes the camera or it does not.       *)
LEMMA ReadFailsParts ==
    ASSUME CamOK, ReadFails
    PROVE  /\ ~cap => failures' = 1
           /\ cap => failures' = failures + 1
           /\ failures' \in 1..FailLimit
           /\ \/ failures' >= FailLimit /\ Close
              \/ failures' < FailLimit /\ cap' = TRUE /\ UNCHANGED <<up, backoff, wait>>
           /\ worker' = worker
<1>1. failures' = (IF cap THEN failures ELSE 0) + 1
  BY Zenon DEF ReadFails
<1>2. /\ IF failures' >= FailLimit THEN Close
         ELSE cap' = TRUE /\ UNCHANGED <<up, backoff, wait, mail, lost>>
      /\ worker' = worker
  BY Zenon DEF ReadFails
<1>3. (cap => failures < FailLimit) /\ failures \in 0..FailLimit
  BY Zenon DEF CamOK
<1>4. ~cap => failures' = 1
  BY <1>1
<1>5. cap => failures' = failures + 1
  BY <1>1
<1>6. failures' \in 1..FailLimit
  BY <1>3, <1>4, <1>5, LimitsAre
<1>7. failures' >= FailLimit \/ failures' < FailLimit
  BY <1>6, LimitsAre
<1>8. ~(failures' >= FailLimit /\ failures' < FailLimit)
  BY <1>6, LimitsAre
<1> QED BY <1>2, <1>4, <1>5, <1>6, <1>7, <1>8, Zenon

(* The camera is closed for the pause that is due.                          *)
LEMMA CloseParts ==
    ASSUME CamOK, Close
    PROVE  /\ cap' = FALSE /\ up' = "DOWN"
           /\ wait' = backoff /\ wait' \in 1..BackoffMax /\ backoff' \in 1..BackoffMax
<1>1. cap' = FALSE /\ up' = "DOWN" /\ wait' = backoff /\ backoff' = Least(backoff * 2, BackoffMax)
  BY Zenon DEF Close
<1>2. backoff \in 1..BackoffMax
  BY Zenon DEF CamOK
<1> QED BY <1>1, <1>2, LimitsAre DEF Least

(* A frame that arrives forgets the failures and the pauses.                *)
LEMMA ArrivesParts ==
    ASSUME cap' = TRUE \/ cap' = FALSE, failures' = 0, backoff' = 1, wait' = 0, up' = "UP",
           worker' \in {"running", "crashed"}
    PROVE  CamOK'
<1>1. /\ 0 < FailLimit /\ 0 \in 0..FailLimit /\ 1 \in 1..BackoffMax /\ 0 \in 0..BackoffMax
      /\ "UP" \in States \cup {"none"}
  BY LimitsAre DEF States
<1>2. cap' \in BOOLEAN
  OBVIOUS
<1> QED BY <1>1, <1>2, Zenon DEF CamOK

(* The camera loop keeps CamOK, and lives,                                  *)
LEMMA CamLoopKeeps ==
    ASSUME CamOK, CameraLoop
    PROVE  CamOK' /\ worker' = worker
<1>1. worker' \in {"running", "crashed"} <=> worker' = "running" \/ worker' = "crashed"
  OBVIOUS
<1>2. ASSUME Pause PROVE CamOK' /\ worker' = worker
  <2>1. UNCHANGED <<cap, up, failures, backoff, worker>> /\ wait' = wait - 1 /\ wait > 0
    BY <1>2, Zenon DEF Pause
  <2>2. wait' \in 0..BackoffMax
    <3>1. wait \in 0..BackoffMax
      BY Zenon DEF CamOK
    <3> QED BY <2>1, <3>1, LimitsAre
  <2> QED BY <2>1, <2>2, Zenon DEF CamOK
<1>3. ASSUME OpenFails PROVE CamOK' /\ worker' = worker
  <2>1. Close /\ failures' = failures /\ worker' = worker
    BY <1>3, Zenon DEF OpenFails
  <2>2. cap' = FALSE /\ up' = "DOWN" /\ wait' \in 1..BackoffMax /\ backoff' \in 1..BackoffMax
    BY <2>1, CloseParts
  <2>3. wait' \in 0..BackoffMax /\ up' \in States \cup {"none"}
    BY <2>2, LimitsAre DEF States
  <2>4. cap' \in BOOLEAN /\ ~cap'
    BY <2>2, Zenon
  <2> QED BY <2>1, <2>2, <2>3, <2>4, Zenon DEF CamOK
<1>4. ASSUME ReadFails PROVE CamOK' /\ worker' = worker
  <2>1. /\ failures' \in 1..FailLimit /\ worker' = worker
        /\ \/ failures' >= FailLimit /\ Close
           \/ failures' < FailLimit /\ cap' = TRUE /\ UNCHANGED <<up, backoff, wait>>
    BY <1>4, ReadFailsParts, Zenon
  <2>2. failures' \in 0..FailLimit
    BY <2>1, LimitsAre
  <2>3. CASE Close
    <3>1. /\ cap' = FALSE /\ up' = "DOWN" /\ wait' \in 1..BackoffMax /\ backoff' \in 1..BackoffMax
      BY <2>3, CloseParts
    <3>2. wait' \in 0..BackoffMax /\ up' \in States \cup {"none"}
      BY <3>1, LimitsAre DEF States
    <3>3. cap' \in BOOLEAN /\ ~cap'
      BY <3>1, Zenon
    <3> QED BY <2>1, <2>2, <3>1, <3>2, <3>3, Zenon DEF CamOK
  <2>4. CASE failures' < FailLimit /\ cap' = TRUE /\ UNCHANGED <<up, backoff, wait>>
    BY <2>1, <2>2, <2>4, Zenon DEF CamOK
  <2> QED BY <2>1, <2>3, <2>4
<1>5. ASSUME NEW view, Grab \/ Frame(view) PROVE CamOK' /\ worker' = worker
  <2>1. FrameArrives /\ worker' = worker
    BY <1>5, Zenon DEF Grab, Frame
  <2>2. cap' = TRUE /\ failures' = 0 /\ backoff' = 1 /\ wait' = 0 /\ up' = "UP"
    BY <2>1, Zenon DEF FrameArrives
  <2>3. worker' \in {"running", "crashed"}
    BY <2>1, Zenon DEF CamOK
  <2> QED BY <2>1, <2>2, <2>3, ArrivesParts, Zenon
<1> QED BY <1>2, <1>3, <1>4, <1>5, Zenon DEF CameraLoop

(* and every step keeps CamOK.                                              *)
LEMMA CamKept ==
    ASSUME CamOK, [VisionNext]_vvars
    PROVE  CamOK'
<1>1. CASE CameraLoop
  BY <1>1, CamLoopKeeps
<1>2. CASE Crash
  <2>1. /\ worker' = "crashed" /\ cap' = FALSE
        /\ failures' = 0 /\ backoff' = 1 /\ wait' = 0 /\ up' = "UP"
    BY <1>2, Zenon DEF Crash
  <2>2. worker' \in {"running", "crashed"}
    BY <2>1
  <2> QED BY <2>1, <2>2, ArrivesParts, Zenon
<1>3. CASE Forward \/ TaskEnds \/ UNCHANGED vvars
  <2>1. CamFixed /\ worker' = worker
    BY <1>3, Zenon DEF Forward, TaskEnds, CamFixed, vvars, camVars
  <2>2. worker' \in {"running", "crashed"}
    BY <2>1, Zenon DEF CamOK
  <2> QED BY <2>1, <2>2, CamFixedKeeps
<1> QED BY <1>1, <1>2, <1>3, Zenon DEF VisionNext

(* While the broker is told UP the camera is open, its pauses start anew,   *)
(* and it counts the reads that failed in a row.                            *)
Eyes ==
    /\ worker = "running" /\ up = "UP" => cap
    /\ up = "UP" => backoff = 1
    /\ cap /\ up = "UP" => row = failures

(* When the camera is given up, and how soon it is tried again.             *)
Outage == up = "UP" /\ up' = "DOWN" => row' = FailLimit /\ wait' = 1

(* The camera loop keeps Eyes, and an outage is real;                       *)
LEMMA EyesLoopKept ==
    ASSUME CamOK, Eyes, MCLoop
    PROVE  Eyes' /\ Outage
<1>1. worker = "running" /\ (up = "UP" => cap)
  BY Zenon DEF MCLoop, Eyes
<1>2. CASE Pause /\ UNCHANGED row
  <2>1. UNCHANGED <<cap, up, failures, backoff, worker, row>>
    BY <1>2, Zenon DEF Pause
  <2>2. Eyes'
    BY <2>1, Zenon DEF Eyes
  <2>3. ~(up = "UP" /\ up' = "DOWN")
    BY <2>1
  <2> QED BY <2>2, <2>3, Zenon DEF Outage
<1>3. CASE OpenFails
  <2>1. ~cap /\ Close
    BY <1>3, Zenon DEF OpenFails
  <2>2. up' # "UP"
    BY <2>1, CloseParts
  <2> QED BY <1>1, <2>1, <2>2, Zenon DEF Eyes, Outage
<1>4. CASE ReadFails /\ row' = Least(row + 1, FailLimit)
  <2>1. /\ cap => failures' = failures + 1
        /\ failures' \in 1..FailLimit /\ worker' = worker
        /\ \/ failures' >= FailLimit /\ Close
           \/ failures' < FailLimit /\ cap' = TRUE /\ UNCHANGED <<up, backoff, wait>>
    BY <1>4, ReadFailsParts, Zenon
  <2>2. up = "UP" => row' = failures' /\ backoff = 1
    <3> SUFFICES ASSUME up = "UP" PROVE row' = failures' /\ backoff = 1
      OBVIOUS
    <3>1. backoff = 1 /\ row = failures /\ failures' = failures + 1
      BY <1>1, <2>1, Zenon DEF Eyes
    <3> QED BY <1>4, <2>1, <3>1, LimitsAre DEF Least
  <2>3. CASE failures' >= FailLimit /\ Close
    <3>1. up' = "DOWN" /\ wait' = backoff
      BY <2>3, CloseParts
    <3>2. up' # "UP" /\ failures' = FailLimit
      BY <2>1, <2>3, <3>1, LimitsAre
    <3> QED BY <2>2, <3>1, <3>2, Zenon DEF Eyes, Outage
  <2>4. CASE failures' < FailLimit /\ cap' = TRUE /\ UNCHANGED <<up, backoff, wait>>
    <3>1. ~(up = "UP" /\ up' = "DOWN")
      BY <2>4
    <3> QED BY <2>2, <2>4, <3>1, Zenon DEF Eyes, Outage
  <2> QED BY <2>1, <2>3, <2>4
<1>5. ASSUME NEW view, Grab \/ Frame(view), row' = 0 PROVE Eyes' /\ Outage
  <2>1. FrameArrives
    BY <1>5, Zenon DEF Grab, Frame
  <2>2. cap' = TRUE /\ failures' = 0 /\ backoff' = 1 /\ up' = "UP"
    BY <2>1, Zenon DEF FrameArrives
  <2>3. up' # "DOWN"
    BY <2>2
  <2> QED BY <1>5, <2>2, <2>3, Zenon DEF Eyes, Outage
<1> QED BY <1>2, <1>3, <1>4, <1>5, Zenon DEF MCLoop

(* so it is with every step.                                                *)
LEMMA EyesKept ==
    ASSUME CamOK, Eyes, [MCNext]_mcvars
    PROVE  Eyes' /\ Outage
<1>1. CASE MCLoop
  BY <1>1, EyesLoopKept
<1>2. CASE Crash /\ UNCHANGED history
  <2>1. worker' = "crashed" /\ cap' = FALSE /\ backoff' = 1 /\ up' = "UP"
    BY <1>2, Zenon DEF Crash
  <2>2. worker' # "running" /\ up' # "DOWN"
    BY <2>1
  <2> QED BY <2>1, <2>2, Zenon DEF Eyes, Outage
<1>3. CASE ((Forward \/ TaskEnds) /\ UNCHANGED history) \/ UNCHANGED mcvars
  <2>1. CamFixed /\ worker' = worker /\ row' = row
    BY <1>3, Zenon DEF Forward, TaskEnds, CamFixed, mcvars, vvars, camVars, history
  <2>2. Eyes'
    BY <2>1, Zenon DEF Eyes, CamFixed
  <2>3. up' = up
    BY <2>1, Zenon DEF CamFixed
  <2>4. ~(up = "UP" /\ up' = "DOWN")
    BY <2>3
  <2> QED BY <2>2, <2>4, Zenon DEF Outage
<1> QED BY <1>1, <1>2, <1>3, Zenon DEF MCNext

(* The observer only watches: it takes no step the composition does not     *)
(* take,                                                                    *)
LEMMA ObserverSteps ==
    ASSUME [MCNext]_mcvars
    PROVE  [VisionNext]_vvars
BY Zenon DEF MCNext, MCLoop, mcvars, VisionNext, CameraLoop

(* so what is seen of the composition is the composition.                   *)
LEMMA ObservedIsVision == MCSpec => VisionInit /\ [][VisionNext]_vvars
<1>1. MCInit => VisionInit
  BY Zenon DEF MCInit
<1> QED BY <1>1, ObserverSteps, PTL DEF MCSpec

(* The camera is closed at first, and has not been reported.                *)
LEMMA CamAtFirst == VisionInit => CamOK /\ up = "none"
<1> SUFFICES ASSUME VisionInit PROVE CamOK /\ up = "none"
  OBVIOUS
<1>1. cap = FALSE /\ up = "none" /\ failures = 0 /\ backoff = 1 /\ wait = 0 /\ worker = "running"
  BY Zenon DEF VisionInit
<1>2. /\ 0 \in 0..FailLimit /\ 1 \in 1..BackoffMax /\ 0 \in 0..BackoffMax
      /\ "none" \in States \cup {"none"} /\ "running" \in {"running", "crashed"}
  BY LimitsAre DEF States
<1>3. cap \in BOOLEAN /\ ~cap
  BY <1>1
<1> QED BY <1>1, <1>2, <1>3, Zenon DEF CamOK

(* CamOK is an invariant.                                                   *)
LEMMA CamAlways == VisionSpec => []CamOK
BY CamAtFirst, CamKept, PTL DEF VisionSpec

(* The camera is given up only after CAMERA_FAIL_LIMIT reads in a row       *)
(* failed, and its first pause is the shortest one: for every limit.        *)
THEOREM OutagesAreReal == MCSpec => OutageIsReal
<1>1. VisionInit => Eyes
  <2> SUFFICES ASSUME VisionInit PROVE Eyes
    OBVIOUS
  <2>1. up # "UP"
    BY CamAtFirst
  <2> QED BY <2>1, Zenon DEF Eyes
<1>2. MCSpec => [](CamOK /\ Eyes)
  BY <1>1, CamAtFirst, CamKept, EyesKept, ObservedIsVision, PTL DEF MCSpec
<1>3. CamOK /\ Eyes /\ [MCNext]_mcvars =>
         [up = "UP" /\ up' = "DOWN" => row' = FailLimit /\ wait' = 1]_mcvars
  <2> SUFFICES ASSUME CamOK, Eyes, [MCNext]_mcvars
               PROVE  up = "UP" /\ up' = "DOWN" => row' = FailLimit /\ wait' = 1
    BY Zenon
  <2> QED BY EyesKept, Zenon DEF Outage
<1> QED BY <1>2, <1>3, PTL DEF MCSpec, OutageIsReal

-----------------------------------------------------------------------------
(* The messages to the broker.                                              *)

(* What the queue carries.                                                  *)
Messages == States \cup {"EVENT"}

(* The queue keeps its limit.                                               *)
MailOK == mail \in Seq(Messages) /\ Len(mail) <= MailMax

(* The last state message of q is s.                                        *)
LastIs(q, s) ==
    \E i \in 1..Len(q) : q[i] = s /\ \A j \in (i + 1)..Len(q) : q[j] \notin States

(* The queue keeps the end of what is offered to it, up to its size,        *)
LEMMA NewestIs ==
    ASSUME NEW q \in Seq(Messages)
    PROVE  /\ Newest(q) \in Seq(Messages) /\ Len(Newest(q)) <= MailMax
           /\ \E d \in Nat : /\ Len(q) = Len(Newest(q)) + d
                             /\ \A i \in 1..Len(Newest(q)) : Newest(q)[i] = q[i + d]
<1>1. MailMax \in Nat \ {0}
  BY LimitsAre
<1>2. CASE Len(q) <= MailMax
  <2>1. Newest(q) = q
    BY <1>2 DEF Newest
  <2>2. /\ Len(q) = Len(Newest(q)) + 0
        /\ \A i \in 1..Len(Newest(q)) : Newest(q)[i] = q[i + 0]
    BY <2>1
  <2> QED BY <1>2, <2>1, <2>2
<1>3. CASE ~(Len(q) <= MailMax)
  <2> DEFINE d == Len(q) - MailMax
  <2>1. Newest(q) = SubSeq(q, d + 1, Len(q))
    BY <1>3 DEF Newest
  <2>2. d \in Nat /\ d + 1 \in 1..Len(q) /\ Len(q) \in Nat
    BY <1>1, <1>3
  <2>3. /\ SubSeq(q, d + 1, Len(q)) \in Seq(Messages)
        /\ Len(SubSeq(q, d + 1, Len(q))) = Len(q) - d
        /\ \A i \in 1..(Len(q) - d) : SubSeq(q, d + 1, Len(q))[i] = q[d + i]
    BY <2>2, SubSeqProperties
  <2>4. Len(Newest(q)) = MailMax /\ Len(q) = MailMax + d
    BY <1>1, <2>1, <2>2, <2>3
  <2>5. ASSUME NEW i \in 1..Len(Newest(q)) PROVE Newest(q)[i] = q[i + d]
    <3> HIDE DEF d
    <3>1. i \in 1..(Len(q) - d) /\ d + i = i + d
      BY <1>1, <2>2, <2>4
    <3> QED BY <2>1, <2>3, <3>1, Zenon
  <2>6. Newest(q) \in Seq(Messages) /\ Len(Newest(q)) <= MailMax /\ Len(q) = Len(Newest(q)) + d
    BY <1>1, <2>1, <2>3, <2>4
  <2> HIDE DEF d
  <2> QED BY <2>2, <2>5, <2>6
<1> QED BY <1>2, <1>3

(* so the last state message of the queue is the last one offered.          *)
LEMMA NewestKeepsLast ==
    ASSUME NEW q \in Seq(Messages), NEW s
    PROVE  /\ HasState(Newest(q)) => HasState(q)
           /\ HasState(Newest(q)) /\ LastIs(q, s) => LastIs(Newest(q), s)
<1> DEFINE n == Newest(q)
<1>1. /\ n \in Seq(Messages) /\ Len(n) \in Nat /\ Len(q) \in Nat
  BY NewestIs
<1>2. PICK d \in Nat : Len(q) = Len(n) + d /\ \A i \in 1..Len(n) : n[i] = q[i + d]
  BY NewestIs
<1> HIDE DEF n
<1>3. HasState(n) => HasState(q)
  BY <1>1, <1>2 DEF HasState
<1>4. ASSUME HasState(n), LastIs(q, s) PROVE LastIs(n, s)
  <2>1. PICK k \in 1..Len(n) : n[k] \in States
    BY <1>4 DEF HasState
  <2>2. PICK i \in 1..Len(q) : q[i] = s /\ \A j \in (i + 1)..Len(q) : q[j] \notin States
    BY <1>4 DEF LastIs
  <2>3. k + d \in 1..Len(q) /\ q[k + d] \in States
    BY <1>1, <1>2, <2>1
  <2>4. k + d <= i
    BY <1>1, <1>2, <2>2, <2>3
  <2>5. i - d \in 1..Len(n) /\ n[i - d] = s
    BY <1>1, <1>2, <2>1, <2>2, <2>4
  <2>6. ASSUME NEW j \in (i - d + 1)..Len(n) PROVE n[j] \notin States
    <3>1. j \in 1..Len(n) /\ j + d \in (i + 1)..Len(q)
      BY <1>1, <1>2, <2>2, <2>5
    <3> QED BY <1>2, <2>2, <3>1
  <2> QED BY <2>5, <2>6 DEF LastIs
<1> QED BY <1>3, <1>4 DEF n

(* The last state message of two parts, one behind the other.               *)
LEMMA ConcatLast ==
    ASSUME NEW q \in Seq(Messages), NEW m \in Seq(Messages), NEW s
    PROVE  /\ q \o m \in Seq(Messages)
           /\ HasState(q \o m) <=> HasState(q) \/ HasState(m)
           /\ LastIs(m, s) => LastIs(q \o m, s)
           /\ LastIs(q, s) /\ ~HasState(m) => LastIs(q \o m, s)
<1> DEFINE all == q \o m
<1>1. /\ all \in Seq(Messages) /\ Len(all) = Len(q) + Len(m) /\ Len(q) \in Nat /\ Len(m) \in Nat
      /\ \A i \in 1..Len(q) + Len(m) : all[i] = IF i <= Len(q) THEN q[i] ELSE m[i - Len(q)]
  BY ConcatProperties
<1> HIDE DEF all
<1>2. \A i \in 1..Len(q) : i \in 1..Len(all) /\ all[i] = q[i]
  BY <1>1
<1>3. ASSUME NEW i \in 1..Len(m) PROVE Len(q) + i \in 1..Len(all) /\ all[Len(q) + i] = m[i]
  <2>1. /\ Len(q) + i \in 1..Len(q) + Len(m) /\ ~(Len(q) + i <= Len(q))
        /\ (Len(q) + i) - Len(q) = i
    BY <1>1
  <2> QED BY <1>1, <2>1, Zenon
<1>4. \A i \in 1..Len(all) : i \in 1..Len(q) \/ i - Len(q) \in 1..Len(m)
  BY <1>1
<1>5. \A i \in 1..Len(all) : i \in 1..Len(q) => all[i] = q[i]
  BY <1>2
<1>6. \A i \in 1..Len(all) : i - Len(q) \in 1..Len(m) => all[i] = m[i - Len(q)]
  BY <1>1
<1>7. HasState(all) => HasState(q) \/ HasState(m)
  BY <1>4, <1>5, <1>6 DEF HasState
<1>8. HasState(q) \/ HasState(m) => HasState(all)
  BY <1>2, <1>3 DEF HasState
<1>9. ASSUME LastIs(m, s) PROVE LastIs(all, s)
  <2>1. PICK i \in 1..Len(m) : m[i] = s /\ \A j \in (i + 1)..Len(m) : m[j] \notin States
    BY <1>9 DEF LastIs
  <2>2. ASSUME NEW j \in (Len(q) + i + 1)..Len(all) PROVE all[j] \notin States
    <3>1. j \in 1..Len(all) /\ j - Len(q) \in (i + 1)..Len(m) /\ j - Len(q) \in 1..Len(m)
      BY <1>1, <2>1
    <3> QED BY <1>6, <2>1, <3>1
  <2> QED BY <1>3, <2>1, <2>2 DEF LastIs
<1>10. ASSUME LastIs(q, s), ~HasState(m) PROVE LastIs(all, s)
  <2>1. PICK i \in 1..Len(q) : q[i] = s /\ \A j \in (i + 1)..Len(q) : q[j] \notin States
    BY <1>10 DEF LastIs
  <2>2. ASSUME NEW j \in (i + 1)..Len(all) PROVE all[j] \notin States
    <3>1. j \in 1..Len(all) /\ (j \in (i + 1)..Len(q) \/ j - Len(q) \in 1..Len(m))
      BY <1>1, <2>1
    <3>2. CASE j \in (i + 1)..Len(q)
      BY <1>1, <1>5, <2>1, <3>1, <3>2
    <3>3. CASE j - Len(q) \in 1..Len(m)
      BY <1>6, <1>10, <3>1, <3>3 DEF HasState
    <3> QED BY <3>1, <3>2, <3>3
  <2> QED BY <1>2, <2>1, <2>2 DEF LastIs
<1> QED BY <1>1, <1>7, <1>8, <1>9, <1>10 DEF all

(* The last state message when the first message is taken.                  *)
LEMMA TailLast ==
    ASSUME NEW q \in Seq(Messages), q # <<>>, NEW s
    PROVE  /\ Tail(q) \in Seq(Messages) /\ Len(Tail(q)) = Len(q) - 1 /\ Len(q) \in Nat
           /\ HasState(q) <=> HasState(Tail(q)) \/ Head(q) \in States
           /\ LastIs(q, s) => LastIs(Tail(q), s) \/ (Head(q) = s /\ ~HasState(Tail(q)))
           /\ s \in States /\ LastIs(q, s) => HasState(q)
<1> DEFINE t == Tail(q)
<1>1. /\ t \in Seq(Messages) /\ Len(t) = Len(q) - 1 /\ Len(q) \in Nat \ {0} /\ Head(q) = q[1]
      /\ \A i \in 1..Len(t) : t[i] = q[i + 1]
  BY EmptySeq, HeadTailProperties
<1> HIDE DEF t
<1>2. HasState(q) <=> HasState(t) \/ Head(q) \in States
  <2>1. ASSUME HasState(q) PROVE HasState(t) \/ Head(q) \in States
    <3>1. PICK i \in 1..Len(q) : q[i] \in States
      BY <2>1 DEF HasState
    <3>2. i = 1 \/ (i - 1 \in 1..Len(t) /\ t[i - 1] = q[i])
      BY <1>1
    <3> QED BY <1>1, <3>1, <3>2 DEF HasState
  <2>2. ASSUME HasState(t) PROVE HasState(q)
    <3>1. PICK i \in 1..Len(t) : t[i] \in States
      BY <2>2 DEF HasState
    <3>2. i + 1 \in 1..Len(q) /\ q[i + 1] = t[i]
      BY <1>1
    <3> QED BY <3>1, <3>2 DEF HasState
  <2>3. Head(q) \in States => HasState(q)
    BY <1>1 DEF HasState
  <2> QED BY <2>1, <2>2, <2>3
<1>3. ASSUME LastIs(q, s) PROVE LastIs(t, s) \/ (Head(q) = s /\ ~HasState(t))
  <2>1. PICK i \in 1..Len(q) : q[i] = s /\ \A j \in (i + 1)..Len(q) : q[j] \notin States
    BY <1>3 DEF LastIs
  <2>2. \A j \in i..Len(t) : j \in 1..Len(t) /\ j + 1 \in (i + 1)..Len(q)
    BY <1>1, <2>1
  <2>3. \A j \in i..Len(t) : t[j] \notin States
    BY <1>1, <2>1, <2>2
  <2>4. CASE i = 1
    BY <1>1, <2>1, <2>3, <2>4 DEF HasState
  <2>5. CASE i # 1
    <3>1. i - 1 \in 1..Len(t) /\ t[i - 1] = s /\ (i - 1) + 1 = i
      BY <1>1, <2>1, <2>5
    <3> QED BY <2>3, <3>1 DEF LastIs
  <2> QED BY <2>4, <2>5
<1>4. s \in States /\ LastIs(q, s) => HasState(q)
  BY DEF LastIs, HasState
<1> QED BY <1>1, <1>2, <1>3, <1>4 DEF t

(* LastIs says which message LastState finds.                               *)
LEMMA LastIsLastState ==
    ASSUME NEW q \in Seq(Messages), NEW s \in States, NEW before
    PROVE  /\ LastIs(q, s) => LastState(q, before) = s
           /\ ~HasState(q) => LastState(q, before) = before
<1> DEFINE at == {i \in 1..Len(q) : q[i] \in States}
           top == CHOOSE i \in at : \A j \in at : j <= i
<1>1. LastState(q, before) = IF at = {} THEN before ELSE q[top]
  BY Zenon DEF LastState
<1>2. ASSUME LastIs(q, s) PROVE LastState(q, before) = s
  <2>1. PICK i \in 1..Len(q) : q[i] = s /\ \A j \in (i + 1)..Len(q) : q[j] \notin States
    BY <1>2 DEF LastIs
  <2>2. i \in at /\ \A j \in at : j <= i
    BY <2>1
  <2>3. top \in at /\ \A j \in at : j <= top
    BY <2>2, Zenon
  <2>4. top = i
    <3>1. top <= i /\ i <= top /\ top \in Nat /\ i \in Nat
      BY <2>2, <2>3
    <3> HIDE DEF top
    <3> QED BY <3>1
  <2> QED BY <1>1, <2>1, <2>2, <2>4, Zenon
<1>3. ~HasState(q) => LastState(q, before) = before
  <2>1. ~HasState(q) => at = {}
    BY DEF HasState
  <2> QED BY <1>1, <2>1, Zenon
<1> QED BY <1>2, <1>3

(* What the broker keeps, or reads next of the state, is the state.         *)
Told == IF HasState(mail) THEN LastIs(mail, up) ELSE retained = up

(* A living vision_task has told the broker, or will, unless that message   *)
(* was dropped.                                                             *)
MailInv ==
    /\ MailOK /\ lost \in BOOLEAN
    /\ task = "running" => IF lost THEN ~HasState(mail) ELSE Told

(* The messages of a step that leaves the camera thread in state up'.       *)
Reports(messages) ==
    /\ messages \in Seq(Messages)
    /\ \/ HasState(messages) /\ LastIs(messages, up')
       \/ ~HasState(messages) /\ up' = up

(* Nothing happens to state, queue or broker.                               *)
BusFixed == UNCHANGED <<up, busVars>>

(* A step that leaves state and queue alone.                                *)
LEMMA BusFixedKeeps == MailInv /\ BusFixed => MailInv'
<1> SUFFICES ASSUME MailInv, BusFixed PROVE MailInv'
  OBVIOUS
<1>1. up' = up /\ task' = task /\ mail' = mail /\ retained' = retained /\ lost' = lost
  BY Zenon DEF BusFixed, busVars
<1> QED BY <1>1, Zenon DEF MailInv, MailOK, Told

(* Offering what a step reports keeps the broker right, or marks the loss.  *)
LEMMA PublishKeeps ==
    ASSUME MailInv, NEW messages, Reports(messages), Publish(messages),
           task' = task, retained' = retained
    PROVE  MailInv'
<1> DEFINE all == mail \o messages
<1>1. /\ mail \in Seq(Messages) /\ messages \in Seq(Messages)
      /\ mail' = Newest(all) /\ lost' = IF HasState(all) THEN ~HasState(mail') ELSE lost
  BY Zenon DEF MailInv, MailOK, Reports, Publish
<1>2. /\ all \in Seq(Messages)
      /\ HasState(all) <=> HasState(mail) \/ HasState(messages)
      /\ LastIs(messages, up') => LastIs(all, up')
      /\ LastIs(mail, up') /\ ~HasState(messages) => LastIs(all, up')
  BY <1>1, ConcatLast
<1> HIDE DEF all
<1>3. MailOK'
  BY <1>1, <1>2, NewestIs, Zenon DEF MailOK
<1>4. /\ HasState(mail') => HasState(all)
      /\ HasState(mail') /\ LastIs(all, up') => LastIs(mail', up')
  BY <1>1, <1>2, NewestKeepsLast, Zenon
<1>5. lost \in BOOLEAN
  BY Zenon DEF MailInv
<1>6. lost' \in BOOLEAN
  <2>1. CASE HasState(all) /\ HasState(mail')
    BY <1>1, <2>1, Zenon
  <2>2. CASE HasState(all) /\ ~HasState(mail')
    BY <1>1, <2>2, Zenon
  <2>3. CASE ~HasState(all)
    BY <1>1, <1>5, <2>3, Zenon
  <2> QED BY <2>1, <2>2, <2>3
<1>7. ASSUME task = "running" PROVE IF lost' THEN ~HasState(mail') ELSE Told'
  <2>1. CASE HasState(all)
    <3>1. LastIs(all, up')
      <4>1. CASE HasState(messages)
        BY <1>2, <4>1, Zenon DEF Reports
      <4>2. CASE ~HasState(messages)
        <5>1. HasState(mail) /\ up' = up
          BY <1>2, <2>1, <4>2, Zenon DEF Reports
        <5>2. LastIs(mail, up)
          BY <1>7, <5>1, Zenon DEF MailInv, Told
        <5> QED BY <1>2, <4>2, <5>1, <5>2, Zenon
      <4> QED BY <4>1, <4>2
    <3>2. CASE HasState(mail')
      BY <1>1, <1>4, <2>1, <3>1, <3>2, Zenon DEF Told
    <3>3. CASE ~HasState(mail')
      BY <1>1, <2>1, <3>3, Zenon
    <3> QED BY <3>2, <3>3
  <2>2. CASE ~HasState(all)
    <3>1. ~HasState(mail) /\ ~HasState(messages) /\ ~HasState(mail') /\ up' = up
      BY <1>2, <1>4, <2>2, Zenon DEF Reports
    <3>2. CASE lost
      BY <1>1, <2>2, <3>1, <3>2, Zenon
    <3>3. CASE ~lost
      <4>1. retained = up
        BY <1>7, <3>1, <3>3, Zenon DEF MailInv, Told
      <4> QED BY <3>1, <4>1, Zenon DEF Told
    <3> QED BY <3>2, <3>3
  <2> QED BY <2>1, <2>2
<1> QED BY <1>3, <1>6, <1>7, Zenon DEF MailInv

(* _set_up reports the state a step leads to, with or without an event.     *)
LEMMA ReportedReports ==
    ASSUME NEW state \in States, up' = state
    PROVE  /\ Reports(Reported(state))
           /\ Reports(Reported(state) \o <<"EVENT">>)
           /\ Reports(Reported(state) \o <<>>)
<1>1. "EVENT" \notin States /\ "EVENT" \in Messages /\ state \in Messages
  BY DEF States, Messages
<1>2. /\ <<state>> \in Seq(Messages) /\ <<>> \in Seq(Messages) /\ <<"EVENT">> \in Seq(Messages)
  BY <1>1
<1>3. HasState(<<state>>) /\ LastIs(<<state>>, state)
  BY DEF HasState, LastIs
<1>4. ~HasState(<<>>) /\ ~HasState(<<"EVENT">>)
  BY <1>1 DEF HasState
<1>5. Reports(Reported(state)) /\ Reported(state) \in Seq(Messages)
  <2>1. CASE state # up
    <3>1. Reported(state) = <<state>>
      BY <2>1, Zenon DEF Reported
    <3> QED BY <1>2, <1>3, <3>1, Zenon DEF Reports
  <2>2. CASE state = up
    <3>1. Reported(state) = <<>>
      BY <2>2, Zenon DEF Reported
    <3> QED BY <1>2, <1>4, <2>2, <3>1, Zenon DEF Reports
  <2> QED BY <2>1, <2>2
<1>6. ASSUME NEW m \in Seq(Messages), ~HasState(m) PROVE Reports(Reported(state) \o m)
  <2>1. /\ Reported(state) \o m \in Seq(Messages)
        /\ HasState(Reported(state) \o m) <=> HasState(Reported(state)) \/ HasState(m)
        /\ LastIs(Reported(state), up') => LastIs(Reported(state) \o m, up')
    BY <1>5, <1>6, ConcatLast
  <2> QED BY <1>5, <1>6, <2>1, Zenon DEF Reports
<1> QED BY <1>2, <1>4, <1>5, <1>6, Zenon

(* The camera loop keeps the broker right,                                  *)
LEMMA MailLoopKeeps ==
    ASSUME MailInv, CameraLoop
    PROVE  MailInv'
<1>1. "UP" \in States /\ "DOWN" \in States
  BY DEF States
<1>2. CASE Pause
  <2>1. BusFixed
    BY <1>2, Zenon DEF Pause, BusFixed, busVars
  <2> QED BY <2>1, BusFixedKeeps
<1>3. ASSUME Close, task' = task, retained' = retained PROVE MailInv'
  <2>1. up' = "DOWN" /\ Publish(Reported("DOWN"))
    BY <1>3, Zenon DEF Close
  <2> QED BY <1>1, <1>3, <2>1, ReportedReports, PublishKeeps, Zenon
<1>4. CASE OpenFails
  BY <1>3, <1>4, Zenon DEF OpenFails
<1>5. CASE ReadFails
  <2>1. CASE Close
    BY <1>3, <1>5, <2>1, Zenon DEF ReadFails
  <2>2. CASE ~Close
    <3>1. BusFixed
      BY <1>5, <2>2, Zenon DEF ReadFails, BusFixed, busVars
    <3> QED BY <3>1, BusFixedKeeps
  <2> QED BY <2>1, <2>2
<1>6. CASE Grab
  <2>1. up' = "UP" /\ Publish(Reported("UP")) /\ task' = task /\ retained' = retained
    BY <1>6, Zenon DEF Grab, FrameArrives
  <2> QED BY <1>1, <2>1, ReportedReports, PublishKeeps, Zenon
<1>7. ASSUME NEW view, Frame(view) PROVE MailInv'
  <2>1. /\ up' = "UP" /\ task' = task /\ retained' = retained
        /\ Publish(Reported("UP") \o (IF event' = "none" THEN <<>> ELSE <<"EVENT">>))
    BY <1>7, Zenon DEF Frame, FrameArrives
  <2>2. Publish(Reported("UP") \o <<>>) \/ Publish(Reported("UP") \o <<"EVENT">>)
    BY <2>1, Zenon
  <2> QED BY <1>1, <2>1, <2>2, ReportedReports, PublishKeeps, Zenon
<1> QED BY <1>2, <1>4, <1>5, <1>6, <1>7, Zenon DEF CameraLoop

(* and so does every step.                                                  *)
LEMMA MailKept ==
    ASSUME CamOK, MailInv, [VisionNext]_vvars
    PROVE  MailInv'
<1>1. CASE CameraLoop
  BY <1>1, MailLoopKeeps
<1>2. CASE Crash
  <2>1. up' = "UP" /\ Publish(Reported("UP")) /\ task' = task /\ retained' = retained
    BY <1>2, Zenon DEF Crash
  <2>2. "UP" \in States
    BY DEF States
  <2> QED BY <2>1, <2>2, ReportedReports, PublishKeeps, Zenon
<1>3. CASE Forward
  <2>1. /\ task = "running" /\ mail # <<>> /\ mail' = Tail(mail) /\ lost' = lost /\ up' = up
        /\ retained' = IF Head(mail) \in States THEN Head(mail) ELSE retained
    BY <1>3, Zenon DEF Forward, camVars
  <2>2. mail \in Seq(Messages) /\ Len(mail) <= MailMax /\ lost \in BOOLEAN
    BY Zenon DEF MailInv, MailOK
  <2>3. /\ Tail(mail) \in Seq(Messages) /\ Len(Tail(mail)) = Len(mail) - 1 /\ Len(mail) \in Nat
        /\ HasState(mail) <=> HasState(Tail(mail)) \/ Head(mail) \in States
        /\ LastIs(mail, up) => LastIs(Tail(mail), up) \/ (Head(mail) = up /\ ~HasState(Tail(mail)))
    BY <2>1, <2>2, TailLast
  <2>4. MailOK'
    <3>1. Len(Tail(mail)) <= MailMax
      BY <2>2, <2>3, LimitsAre
    <3> QED BY <2>1, <2>3, <3>1, Zenon DEF MailOK
  <2>5. CASE lost
    BY <2>1, <2>2, <2>3, <2>4, <2>5, Zenon DEF MailInv
  <2>6. CASE ~lost
    <3>1. Told
      BY <2>1, <2>6, Zenon DEF MailInv
    <3>2. up \in States \/ up = "none"
      BY DEF CamOK
    <3>3. Told'
      <4>1. CASE HasState(Tail(mail))
        BY <2>1, <2>3, <3>1, <4>1, Zenon DEF Told
      <4>2. CASE ~HasState(Tail(mail)) /\ Head(mail) \in States
        <5>1. LastIs(mail, up)
          BY <2>3, <3>1, <4>2, Zenon DEF Told
        <5>2. LastIs(Tail(mail), up) => up \notin States
          BY <4>2 DEF LastIs, HasState
        <5>3. Head(mail) = up
          <6>1. CASE up \in States
            BY <2>3, <5>1, <5>2, <6>1, Zenon
          <6>2. CASE up = "none"
            <7>1. PICK i \in 1..Len(mail) : mail[i] = up
              BY <5>1, Zenon DEF LastIs
            <7>2. mail[i] \in Messages /\ "none" \notin Messages
              BY <2>2 DEF Messages, States
            <7> QED BY <6>2, <7>1, <7>2
          <6> QED BY <3>2, <6>1, <6>2
        <5> QED BY <2>1, <4>2, <5>3, Zenon DEF Told
      <4>3. CASE ~HasState(Tail(mail)) /\ Head(mail) \notin States
        BY <2>1, <2>3, <3>1, <4>3, Zenon DEF Told
      <4> QED BY <4>1, <4>2, <4>3
    <3> QED BY <2>1, <2>2, <2>4, <2>6, <3>3, Zenon DEF MailInv
  <2> QED BY <2>5, <2>6
<1>4. CASE TaskEnds
  <2>1. task' = "dead" /\ mail' = <<>> /\ lost' = lost
    BY <1>4, Zenon DEF TaskEnds
  <2>2. task' # "running" /\ mail' \in Seq(Messages) /\ Len(mail') <= MailMax
    BY <2>1, LimitsAre
  <2> QED BY <2>1, <2>2, Zenon DEF MailInv, MailOK
<1>5. CASE UNCHANGED vvars
  <2>1. BusFixed
    BY <1>5, Zenon DEF vvars, camVars, BusFixed
  <2> QED BY <2>1, BusFixedKeeps
<1> QED BY <1>1, <1>2, <1>3, <1>4, <1>5, Zenon DEF VisionNext

(* At first the broker knows as little as the camera thread.                *)
LEMMA MailAtFirst == VisionInit => MailInv
<1> SUFFICES ASSUME VisionInit PROVE MailInv
  OBVIOUS
<1>1. up = "none" /\ mail = <<>> /\ retained = "none" /\ lost = FALSE
  BY Zenon DEF VisionInit
<1>2. mail \in Seq(Messages) /\ Len(mail) <= MailMax /\ ~HasState(mail)
  BY <1>1, LimitsAre DEF HasState
<1> QED BY <1>1, <1>2, Zenon DEF MailInv, MailOK, Told

(* MailInv is an invariant.                                                 *)
LEMMA MailAlways == VisionSpec => []MailInv
BY CamAtFirst, CamKept, MailAtFirst, MailKept, PTL DEF VisionSpec

(* What the broker keeps, or is about to be told, is the state the camera   *)
(* is in, unless a full queue dropped that very message: for any queue size *)
(* and any order of losses, returns and events.                             *)
THEOREM StateAlwaysReported == VisionSpec => []StateReported
<1>1. ASSUME CamOK, MailInv PROVE StateReported
  <2> SUFFICES ASSUME task = "running", ~lost PROVE LastState(mail, retained) = up
    BY Zenon DEF StateReported
  <2>1. Told /\ mail \in Seq(Messages)
    BY <1>1, Zenon DEF MailInv, MailOK
  <2>2. CASE HasState(mail)
    <3>1. PICK i \in 1..Len(mail) : mail[i] = up /\ LastIs(mail, up)
      BY <2>1, <2>2, Zenon DEF Told, LastIs
    <3>2. up \in States
      <4>1. mail[i] \in Messages /\ "none" \notin Messages
        BY <2>1 DEF Messages, States
      <4>2. up \in States \cup {"none"}
        BY <1>1, Zenon DEF CamOK
      <4> QED BY <3>1, <4>1, <4>2
    <3> QED BY <2>1, <3>1, <3>2, LastIsLastState, Zenon
  <2>3. CASE ~HasState(mail)
    <3>1. "UP" \in States
      BY DEF States
    <3> QED BY <2>1, <2>3, <3>1, LastIsLastState, Zenon DEF Told
  <2> QED BY <2>2, <2>3
<1> QED BY <1>1, CamAlways, MailAlways, PTL

-----------------------------------------------------------------------------
(* Types.                                                                   *)

(* The inductive invariant of the types.                                    *)
VisionTypes ==
    /\ TypeOK /\ CamOK /\ MailInv /\ sincePose \in 0..Far
    /\ retained \in States \cup {"none"} /\ task \in {"running", "dead"}

(* The monitor is left alone while the clock runs.                          *)
PostureFixed == UNCHANGED <<vars, task>> /\ sincePose' \in 0..Far

(* A step that leaves the monitor alone.                                    *)
LEMMA PostureFixedKeeps ==
    ASSUME TypeOK, PostureFixed
    PROVE  TypeOK' /\ sincePose' \in 0..Far /\ task' = task
BY Zenon DEF TypeOK, PostureFixed, vars

(* The camera loop keeps the monitor's types,                               *)
LEMMA LoopTypes ==
    ASSUME VisionTypes, CameraLoop
    PROVE  /\ TypeOK' /\ sincePose' \in 0..Far /\ retained' = retained /\ task' = task
<1>1. TypeOK /\ sincePose \in 0..Far
  BY Zenon DEF VisionTypes
<1>2. CASE Pause \/ OpenFails \/ ReadFails \/ Grab
  <2>1. UNCHANGED <<vars, task, retained>> /\ Lap
    BY <1>2, Zenon DEF Pause, OpenFails, ReadFails, Grab, busVars
  <2>2. PostureFixed
    BY <1>1, <2>1, LapKeeps, Zenon DEF PostureFixed
  <2> QED BY <1>1, <2>1, <2>2, PostureFixedKeeps, Zenon
<1>3. ASSUME NEW view, Frame(view)
      PROVE  TypeOK' /\ sincePose' \in 0..Far /\ retained' = retained /\ task' = task
  <2>1. /\ Update(Pose(view), Least(sincePose + 1, Cap)) /\ sincePose' = 0
        /\ retained' = retained /\ task' = task
    BY <1>3, Zenon DEF Frame
  <2>2. Least(sincePose + 1, Cap) \in 1..Cap /\ sincePose' \in 0..Far
    BY <1>1, <2>1, LapKeeps
  <2> QED BY <1>1, <2>1, <2>2, UpdateTypes, Zenon
<1> QED BY <1>2, <1>3, Zenon DEF CameraLoop

(* and every step keeps all of them.                                        *)
LEMMA VisionTypesKept ==
    ASSUME VisionTypes, [VisionNext]_vvars
    PROVE  VisionTypes'
<1>1. /\ TypeOK /\ CamOK /\ MailInv /\ sincePose \in 0..Far
      /\ retained \in States \cup {"none"} /\ task \in {"running", "dead"}
  BY Zenon DEF VisionTypes
<1>2. CamOK' /\ MailInv'
  BY <1>1, CamKept, MailKept
<1>3. CASE CameraLoop
  BY <1>1, <1>2, <1>3, LoopTypes, Zenon DEF VisionTypes
<1>4. CASE Crash \/ UNCHANGED vvars
  <2>1. UNCHANGED <<vars, task>> /\ sincePose' = sincePose /\ retained' = retained
    BY <1>4, Zenon DEF Crash, vvars, busVars
  <2>2. PostureFixed
    BY <1>1, <2>1, Zenon DEF PostureFixed
  <2> QED BY <1>1, <1>2, <2>1, <2>2, PostureFixedKeeps, Zenon DEF VisionTypes
<1>5. CASE Forward
  <2>1. /\ UNCHANGED <<vars, task>> /\ sincePose' = sincePose
        /\ retained' = IF Head(mail) \in States THEN Head(mail) ELSE retained
    BY <1>5, Zenon DEF Forward
  <2>2. PostureFixed
    BY <1>1, <2>1, Zenon DEF PostureFixed
  <2>3. retained' \in States \cup {"none"}
    BY <1>1, <2>1
  <2> QED BY <1>1, <1>2, <2>2, <2>3, PostureFixedKeeps, Zenon DEF VisionTypes
<1>6. CASE TaskEnds
  <2>1. /\ UNCHANGED vars /\ sincePose' = sincePose /\ retained' = retained /\ task' = "dead"
    BY <1>6, Zenon DEF TaskEnds
  <2>2. TypeOK'
    BY <1>1, <2>1, Zenon DEF TypeOK, vars
  <2>3. task' \in {"running", "dead"}
    BY <2>1
  <2> QED BY <1>1, <1>2, <2>1, <2>2, <2>3, Zenon DEF VisionTypes
<1> QED BY <1>3, <1>4, <1>5, <1>6, Zenon DEF VisionNext

(* They hold at first.                                                      *)
LEMMA VisionTypesAtFirst == VisionInit => VisionTypes
<1> SUFFICES ASSUME VisionInit PROVE VisionTypes
  OBVIOUS
<1>1. /\ alerted = FALSE /\ event = "none" /\ poorAge = NoTime /\ goodAge = NoTime
      /\ absentAge = NoTime /\ alertAge = Cap /\ sincePose = Far
      /\ task = "running" /\ retained = "none"
  BY Zenon DEF VisionInit, Init
<1>2. NoTime \in NoTime..Cap /\ Cap \in 0..Cap /\ Far \in 0..Far
  <2>1. PosePeriod \in Nat \ {0}
    BY VisionAssumption
  <2> QED BY <2>1, CapIs DEF NoTime, Far
<1>3. TypeOK
  BY <1>1, <1>2, Zenon DEF TypeOK
<1> QED BY <1>1, <1>2, <1>3, CamAtFirst, MailAtFirst, Zenon DEF VisionTypes

(* The camera side keeps its types: the queue its length, the pauses their  *)
(* limit, the failures theirs, for every value of the constants.            *)
THEOREM VisionAlwaysTyped == VisionSpec => []VisionTypeOK
<1>1. VisionTypes => VisionTypeOK
  BY Zenon DEF VisionTypes, VisionTypeOK, CamOK, MailInv, MailOK, Messages
<1> QED BY <1>1, VisionTypesAtFirst, VisionTypesKept, PTL DEF VisionSpec

-----------------------------------------------------------------------------
(* The baseline.  A window and its sorted copy are compared by how many of  *)
(* their heights lie in a set H of heights, for every H.                    *)

Among(s, H) == Cardinality({i \in 1..Len(s) : s[i] \in H})
Under(h) == {x \in Int : x < h}
UpTo(h) == {x \in Int : x <= h}
Ordered(s) == \A i, j \in 1..Len(s) : i < j => s[i] <= s[j]
Hit(x, H) == IF x \in H THEN 1 ELSE 0
SameHeights(s, t) == \A H \in SUBSET Int : Among(s, H) = Among(t, H)

(* t is s with x put in at place k.                                         *)
Inserted(s, t, k, x) ==
    /\ Len(t) = Len(s) + 1 /\ k \in 1..Len(t) /\ t[k] = x
    /\ \A i \in 1..Len(s) : t[IF i < k THEN i ELSE i + 1] = s[i]

(* The places a count counts are finitely many.                             *)
LEMMA AmongIs ==
    ASSUME NEW s \in Seq(Int), NEW H
    PROVE  /\ IsFiniteSet({i \in 1..Len(s) : s[i] \in H})
           /\ Among(s, H) \in Nat /\ Among(s, H) <= Len(s)
<1> DEFINE places == {i \in 1..Len(s) : s[i] \in H}
<1>1. IsFiniteSet(1..Len(s)) /\ Cardinality(1..Len(s)) = Len(s) /\ Len(s) \in Nat
  <2>1. \A n \in Nat : IsFiniteSet(1..n) /\ Cardinality(1..n) = n
    BY FS_Interval
  <2> QED BY <2>1
<1>2. IsFiniteSet(places) /\ Cardinality(places) <= Cardinality(1..Len(s))
  <2>1. places \in SUBSET (1..Len(s))
    OBVIOUS
  <2> QED BY <1>1, <2>1, FS_Subset, Zenon
<1>3. Cardinality(places) \in Nat
  BY <1>2, FS_CardinalityType
<1> QED BY <1>1, <1>2, <1>3 DEF Among

(* More heights count more.                                                 *)
LEMMA AmongGrows ==
    ASSUME NEW s \in Seq(Int), NEW G, NEW H, G \subseteq H
    PROVE  /\ Among(s, G) <= Among(s, H)
           /\ (\E i \in 1..Len(s) : s[i] \in H /\ s[i] \notin G) => Among(s, G) < Among(s, H)
<1> DEFINE inG == {i \in 1..Len(s) : s[i] \in G}
           inH == {i \in 1..Len(s) : s[i] \in H}
<1>1. IsFiniteSet(inH) /\ Among(s, H) \in Nat /\ Among(s, G) \in Nat
  BY AmongIs, Zenon
<1>2. inG \in SUBSET inH
  OBVIOUS
<1>3. Cardinality(inG) <= Cardinality(inH) /\ (Cardinality(inH) = Cardinality(inG) => inH = inG)
  BY <1>1, <1>2, FS_Subset
<1>4. (\E i \in 1..Len(s) : s[i] \in H /\ s[i] \notin G) => inH # inG
  OBVIOUS
<1> QED BY <1>1, <1>3, <1>4 DEF Among

(* Putting x in adds it to the counts.                                      *)
LEMMA InsertCounts ==
    ASSUME NEW s \in Seq(Int), NEW t \in Seq(Int), NEW k, NEW x, Inserted(s, t, k, x), NEW H
    PROVE  Among(t, H) = Among(s, H) + Hit(x, H)
<1> DEFINE old == {i \in 1..Len(s) : s[i] \in H}
           new == {i \in 1..Len(t) : t[i] \in H}
           rest == new \ {k}
           moved == [i \in old |-> IF i < k THEN i ELSE i + 1]
<1>1. /\ Len(s) \in Nat /\ Len(t) = Len(s) + 1 /\ k \in 1..Len(t) /\ t[k] = x
      /\ \A i \in 1..Len(s) : t[IF i < k THEN i ELSE i + 1] = s[i]
  <2>1. Len(s) \in Nat
    OBVIOUS
  <2> QED BY <2>1, Zenon DEF Inserted
<1>2. /\ IsFiniteSet(old) /\ Cardinality(old) \in Nat
      /\ Among(s, H) = Cardinality(old) /\ Among(t, H) = Cardinality(new)
  BY AmongIs, Zenon DEF Among
<1>3. moved \in [old -> rest]
  <2> SUFFICES ASSUME NEW i \in old PROVE (IF i < k THEN i ELSE i + 1) \in rest
    OBVIOUS
  <2>1. i \in 1..Len(s) /\ s[i] \in H
    OBVIOUS
  <2>2. (IF i < k THEN i ELSE i + 1) \in 1..Len(t) /\ (IF i < k THEN i ELSE i + 1) # k
    BY <1>1, <2>1
  <2> QED BY <1>1, <2>1, <2>2
<1>4. \A a, b \in old : moved[a] = moved[b] => a = b
  <2>1. \A a, b \in Int : (IF a < k THEN a ELSE a + 1) = (IF b < k THEN b ELSE b + 1) => a = b
    BY <1>1
  <2>2. \A a \in old : a \in Int /\ moved[a] = IF a < k THEN a ELSE a + 1
    OBVIOUS
  <2> QED BY <2>1, <2>2, Zenon
<1>5. \A j \in rest : \E i \in old : moved[i] = j
  <2> SUFFICES ASSUME NEW j \in rest PROVE \E i \in old : moved[i] = j
    OBVIOUS
  <2>1. CASE j < k
    <3>1. j \in 1..Len(s)
      BY <1>1, <2>1
    <3>2. t[j] = s[j]
      BY <1>1, <2>1, <3>1
    <3>3. j \in old
      BY <3>1, <3>2
    <3> QED BY <2>1, <3>3
  <2>2. CASE ~(j < k)
    <3>1. j - 1 \in 1..Len(s) /\ ~(j - 1 < k) /\ (j - 1) + 1 = j
      BY <1>1, <2>2
    <3>2. t[j] = s[j - 1]
      BY <1>1, <3>1
    <3>3. j - 1 \in old
      BY <3>1, <3>2
    <3> QED BY <3>1, <3>3
  <2> QED BY <2>1, <2>2
<1>6. moved \in Bijection(old, rest)
  BY <1>3, <1>4, <1>5, Fun_IsBij
<1>7. IsFiniteSet(rest) /\ Cardinality(rest) = Cardinality(old)
  BY <1>2, <1>6, FS_Bijection DEF ExistsBijection
<1>8. CASE x \in H
  <2>1. new = rest \cup {k}
    BY <1>1, <1>8
  <2>2. Cardinality(rest \cup {k}) = Cardinality(rest) + 1
    BY <1>7, FS_AddElement
  <2> QED BY <1>2, <1>7, <1>8, <2>1, <2>2 DEF Hit
<1>9. CASE x \notin H
  <2>1. new = rest
    BY <1>1, <1>9
  <2>2. Among(t, H) = Among(s, H)
    BY <1>2, <1>7, <2>1, Zenon
  <2>3. Among(s, H) \in Nat
    BY AmongIs
  <2> QED BY <1>9, <2>2, <2>3 DEF Hit
<1> QED BY <1>8, <1>9

(* In an ordered sequence the heights of a set that holds, with a height,   *)
(* all lower ones come first.                                               *)
LEMMA LowestFirst ==
    ASSUME NEW s \in Seq(Int), Ordered(s), NEW H \in SUBSET Int,
           \A x \in H, y \in Int : y <= x => y \in H
    PROVE  \A i \in 1..Len(s) : s[i] \in H <=> i <= Among(s, H)
<1> DEFINE places == {i \in 1..Len(s) : s[i] \in H}
<1> SUFFICES ASSUME NEW i \in 1..Len(s) PROVE s[i] \in H <=> i <= Among(s, H)
  OBVIOUS
<1>1. IsFiniteSet(places) /\ Among(s, H) = Cardinality(places) /\ Among(s, H) \in Nat
  BY AmongIs, Zenon DEF Among
<1>2. \A j \in 1..Len(s) : s[j] \in Int
  OBVIOUS
<1>3. CASE s[i] \in H
  <2>1. (1..i) \in SUBSET places
    BY <1>1, <1>2, <1>3 DEF Ordered
  <2>2. Cardinality(1..i) = i
    BY <1>1, FS_Interval
  <2>3. Cardinality(1..i) <= Cardinality(places)
    BY <1>1, <2>1, FS_Subset
  <2> QED BY <1>1, <1>3, <2>2, <2>3
<1>4. CASE s[i] \notin H
  <2>1. places \in SUBSET (1..(i - 1))
    BY <1>1, <1>2, <1>4 DEF Ordered
  <2>2. IsFiniteSet(1..(i - 1)) /\ Cardinality(1..(i - 1)) = i - 1
    <3>1. \A n \in Nat : IsFiniteSet(1..n) /\ Cardinality(1..n) = n
      BY FS_Interval
    <3> QED BY <3>1
  <2>3. Cardinality(places) <= Cardinality(1..(i - 1))
    BY <2>1, <2>2, FS_Subset
  <2> QED BY <1>1, <1>4, <2>2, <2>3
<1> QED BY <1>3, <1>4

(* So the counts below and up to x are where bisect looks.                  *)
LEMMA BisectFinds ==
    ASSUME NEW s \in Seq(Int), Ordered(s), NEW x \in Int
    PROVE  /\ \A i \in 1..Len(s) : s[i] < x <=> i <= Among(s, Under(x))
           /\ \A i \in 1..Len(s) : s[i] <= x <=> i <= Among(s, UpTo(x))
<1>1. /\ Under(x) \in SUBSET Int /\ \A a \in Under(x), b \in Int : b <= a => b \in Under(x)
      /\ UpTo(x) \in SUBSET Int /\ \A a \in UpTo(x), b \in Int : b <= a => b \in UpTo(x)
  BY DEF Under, UpTo
<1>2. \A i \in 1..Len(s) : s[i] \in Under(x) <=> i <= Among(s, Under(x))
  BY <1>1, LowestFirst
<1>3. \A i \in 1..Len(s) : s[i] \in UpTo(x) <=> i <= Among(s, UpTo(x))
  BY <1>1, LowestFirst
<1>4. \A i \in 1..Len(s) : s[i] \in Int
  OBVIOUS
<1> QED BY <1>2, <1>3, <1>4 DEF Under, UpTo

(* Bisection counts.                                                        *)
LEMMA BisectIs ==
    ASSUME NEW s \in Seq(Int), NEW x \in Int
    PROVE  /\ Cardinality({i \in 1..Len(s) : s[i] < x}) = Among(s, Under(x))
           /\ Cardinality({i \in 1..Len(s) : s[i] <= x}) = Among(s, UpTo(x))
<1>1. \A i \in 1..Len(s) : s[i] \in Int
  OBVIOUS
<1>2. /\ {i \in 1..Len(s) : s[i] < x} = {i \in 1..Len(s) : s[i] \in Under(x)}
      /\ {i \in 1..Len(s) : s[i] <= x} = {i \in 1..Len(s) : s[i] \in UpTo(x)}
  BY <1>1 DEF Under, UpTo
<1> QED BY <1>2 DEF Among

(* Two sequences of heights end to end.                                     *)
LEMMA JoinIs ==
    ASSUME NEW a \in Seq(Int), NEW b \in Seq(Int)
    PROVE  /\ a \o b \in Seq(Int) /\ Len(a \o b) = Len(a) + Len(b)
           /\ \A i \in 1..Len(a) : (a \o b)[i] = a[i]
           /\ \A i \in 1..(Len(a) + Len(b)) : ~(i <= Len(a)) => (a \o b)[i] = b[i - Len(a)]
<1>1. /\ a \o b \in Seq(Int) /\ Len(a \o b) = Len(a) + Len(b)
      /\ \A i \in 1..(Len(a) + Len(b)) :
            (a \o b)[i] = IF i <= Len(a) THEN a[i] ELSE b[i - Len(a)]
  BY ConcatProperties, Zenon
<1>2. Len(a) \in Nat /\ Len(b) \in Nat
  OBVIOUS
<1>3. \A i \in 1..Len(a) : i \in 1..(Len(a) + Len(b)) /\ i <= Len(a)
  BY <1>2
<1> QED BY <1>1, <1>3, Zenon

(* x between a and b.                                                       *)
LEMMA BetweenIs ==
    ASSUME NEW a \in Seq(Int), NEW b \in Seq(Int), NEW x \in Int
    PROVE  /\ a \o b \in Seq(Int) /\ a \o <<x>> \o b \in Seq(Int)
           /\ Inserted(a \o b, a \o <<x>> \o b, Len(a) + 1, x)
<1> DEFINE ax == a \o <<x>>
<1>1. /\ ax \in Seq(Int) /\ Len(ax) = Len(a) + 1 /\ ax[Len(a) + 1] = x
      /\ \A i \in 1..Len(a) : ax[i] = a[i]
  OBVIOUS
<1>2. /\ a \o b \in Seq(Int) /\ Len(a \o b) = Len(a) + Len(b)
      /\ \A i \in 1..Len(a) : (a \o b)[i] = a[i]
      /\ \A i \in 1..(Len(a) + Len(b)) : ~(i <= Len(a)) => (a \o b)[i] = b[i - Len(a)]
  BY JoinIs, Zenon
<1> HIDE DEF ax
<1>3. /\ ax \o b \in Seq(Int) /\ Len(ax \o b) = Len(ax) + Len(b)
      /\ \A i \in 1..Len(ax) : (ax \o b)[i] = ax[i]
      /\ \A i \in 1..(Len(ax) + Len(b)) : ~(i <= Len(ax)) => (ax \o b)[i] = b[i - Len(ax)]
  BY <1>1, JoinIs, Zenon
<1>4. Len(a) \in Nat /\ Len(b) \in Nat
  OBVIOUS
<1> DEFINE joined == a \o b
           split == ax \o b
<1>5. /\ Len(split) = Len(joined) + 1 /\ Len(a) + 1 \in 1..Len(split)
      /\ split[Len(a) + 1] = x
  BY <1>1, <1>2, <1>3, <1>4
<1>6. ASSUME NEW i \in 1..Len(joined)
      PROVE  split[IF i < Len(a) + 1 THEN i ELSE i + 1] = joined[i]
  <2>1. CASE i < Len(a) + 1
    <3>1. i \in 1..Len(a) /\ i \in 1..Len(ax)
      BY <1>1, <1>2, <1>4, <2>1
    <3> QED BY <1>1, <1>2, <1>3, <2>1, <3>1
  <2>2. CASE ~(i < Len(a) + 1)
    <3>1. i \in 1..(Len(a) + Len(b)) /\ ~(i <= Len(a))
      BY <1>2, <1>4, <2>2
    <3>2. i + 1 \in 1..(Len(ax) + Len(b)) /\ ~(i + 1 <= Len(ax)) /\ (i + 1) - Len(ax) = i - Len(a)
      BY <1>1, <1>4, <3>1
    <3>3. joined[i] = b[i - Len(a)]
      BY <1>2, <3>1
    <3>4. split[i + 1] = b[(i + 1) - Len(ax)]
      BY <1>3, <3>2
    <3> QED BY <2>2, <3>2, <3>3, <3>4
  <2> QED BY <2>1, <2>2
<1>7. Inserted(joined, split, Len(a) + 1, x)
  BY <1>5, <1>6, Zenon DEF Inserted
<1> QED BY <1>2, <1>3, <1>7, Zenon DEF ax

(* InsertAt puts x in at its place.                                         *)
LEMMA InsertAtIs ==
    ASSUME NEW s \in Seq(Int), NEW k \in 1..(Len(s) + 1), NEW x \in Int
    PROVE  InsertAt(s, k, x) \in Seq(Int) /\ Inserted(s, InsertAt(s, k, x), k, x)
<1> DEFINE a == SubSeq(s, 1, k - 1)
           b == SubSeq(s, k, Len(s))
<1>1. a \in Seq(Int) /\ Len(a) = k - 1 /\ \A i \in 1..(k - 1) : a[i] = s[i]
  OBVIOUS
<1>2. /\ b \in Seq(Int) /\ Len(b) = Len(s) - k + 1
      /\ \A i \in 1..(Len(s) - k + 1) : b[i] = s[k + i - 1]
  OBVIOUS
<1>3. a \o b = s
  <2> HIDE DEF a, b
  <2>1. /\ a \o b \in Seq(Int) /\ Len(a \o b) = Len(s)
    BY <1>1, <1>2
  <2>2. ASSUME NEW i \in 1..Len(s) PROVE (a \o b)[i] = s[i]
    <3>1. CASE i < k
      BY <1>1, <1>2, <3>1
    <3>2. CASE ~(i < k)
      <4>1. i - k + 1 \in 1..(Len(s) - k + 1) /\ k + (i - k + 1) - 1 = i
        BY <3>2
      <4>2. b[i - k + 1] = s[i]
        BY <1>2, <4>1
      <4>3. i \in 1..(Len(a) + Len(b)) /\ ~(i <= Len(a)) /\ i - Len(a) = i - k + 1
        BY <1>1, <1>2, <3>2
      <4>4. (a \o b)[i] = b[i - Len(a)]
        BY <1>1, <1>2, <4>3, JoinIs, Zenon
      <4> QED BY <4>2, <4>3, <4>4, Zenon
    <3> QED BY <3>1, <3>2
  <2> QED BY <2>1, <2>2, SeqEqual
<1>4. InsertAt(s, k, x) = a \o <<x>> \o b /\ Len(a) + 1 = k
  BY <1>1 DEF InsertAt
<1> HIDE DEF a, b
<1>5. /\ a \o <<x>> \o b \in Seq(Int)
      /\ Inserted(a \o b, a \o <<x>> \o b, Len(a) + 1, x)
  BY <1>1, <1>2, BetweenIs
<1> QED BY <1>3, <1>4, <1>5, Zenon

(* s is what RemoveAt leaves, with the removed put back.                    *)
LEMMA RemoveAtIs ==
    ASSUME NEW s \in Seq(Int), NEW k \in 1..Len(s)
    PROVE  RemoveAt(s, k) \in Seq(Int) /\ Inserted(RemoveAt(s, k), s, k, s[k])
<1> DEFINE a == SubSeq(s, 1, k - 1)
           b == SubSeq(s, k + 1, Len(s))
<1>1. a \in Seq(Int) /\ Len(a) = k - 1 /\ \A i \in 1..(k - 1) : a[i] = s[i]
  OBVIOUS
<1>2. /\ b \in Seq(Int) /\ Len(b) = Len(s) - k
      /\ \A i \in 1..(Len(s) - k) : b[i] = s[k + i]
  OBVIOUS
<1>3. s[k] \in Int
  OBVIOUS
<1>4. (a \o <<s[k]>>) \o b = s
  <2> DEFINE ax == a \o <<s[k]>>
  <2> HIDE DEF a, b
  <2>1. /\ ax \in Seq(Int) /\ Len(ax) = k /\ ax[k] = s[k]
        /\ \A i \in 1..(k - 1) : ax[i] = s[i]
    BY <1>1, <1>3
  <2> HIDE DEF ax
  <2>2. ax \o b \in Seq(Int) /\ Len(ax \o b) = Len(s)
    <3>1. ax \o b \in Seq(Int) /\ Len(ax \o b) = Len(ax) + Len(b)
      BY <1>2, <2>1, JoinIs, Zenon
    <3> QED BY <1>2, <2>1, <3>1
  <2>3. ASSUME NEW i \in 1..Len(s) PROVE (ax \o b)[i] = s[i]
    <3>1. CASE i <= k
      BY <1>2, <2>1, <3>1
    <3>2. CASE ~(i <= k)
      <4>1. i - k \in 1..(Len(s) - k) /\ k + (i - k) = i
        BY <3>2
      <4>2. b[i - k] = s[i]
        BY <1>2, <4>1
      <4>3. i \in 1..(Len(ax) + Len(b)) /\ ~(i <= Len(ax)) /\ i - Len(ax) = i - k
        BY <1>2, <2>1, <3>2
      <4>4. (ax \o b)[i] = b[i - Len(ax)]
        BY <1>2, <2>1, <4>3, JoinIs, Zenon
      <4> QED BY <4>2, <4>3, <4>4, Zenon
    <3> QED BY <3>1, <3>2
  <2>4. ax \o b = s
    BY <2>2, <2>3, SeqEqual
  <2> QED BY <2>4 DEF ax
<1>5. RemoveAt(s, k) = a \o b /\ Len(a) + 1 = k
  BY <1>1 DEF RemoveAt
<1> HIDE DEF a, b
<1>6. /\ a \o b \in Seq(Int)
      /\ Inserted(a \o b, a \o <<s[k]>> \o b, Len(a) + 1, s[k])
  BY <1>1, <1>2, <1>3, BetweenIs, Zenon
<1> QED BY <1>4, <1>5, <1>6, Zenon

(* s is its tail with the head put back.                                    *)
LEMMA TailIs ==
    ASSUME NEW s \in Seq(Int), s # <<>>
    PROVE  Tail(s) \in Seq(Int) /\ Head(s) \in Int /\ Inserted(Tail(s), s, 1, Head(s))
BY DEF Inserted

(* Append puts x in at the end.                                             *)
LEMMA AppendIs ==
    ASSUME NEW s \in Seq(Int), NEW x \in Int
    PROVE  Append(s, x) \in Seq(Int) /\ Inserted(s, Append(s, x), Len(s) + 1, x)
BY DEF Inserted

-----------------------------------------------------------------------------
(* The samples and the sorted copy agree.                                   *)

BaseOK(b) ==
    /\ b.samples \in Seq(Int) /\ b.sorted \in Seq(Int)
    /\ Len(b.samples) <= Window
    /\ Ordered(b.sorted)
    /\ SameHeights(b.sorted, b.samples)

(* Inserting x behind its equals keeps the order, and adds x to the counts. *)
LEMMA InsortIs ==
    ASSUME NEW s \in Seq(Int), Ordered(s), NEW x \in Int
    PROVE  /\ Insort(s, x) \in Seq(Int) /\ Ordered(Insort(s, x))
           /\ \A H \in SUBSET Int :
                 Among(Insort(s, x), H) = Among(s, H) + Hit(x, H)
<1> DEFINE n == Among(s, UpTo(x))
           t == Insort(s, x)
<1>1. n \in Nat /\ n <= Len(s) /\ n + 1 \in 1..(Len(s) + 1)
  <2>1. n \in Nat /\ n <= Len(s)
    BY AmongIs, Zenon
  <2> QED BY <2>1
<1>2. t = InsertAt(s, n + 1, x)
  BY BisectIs, Zenon DEF Insort
<1>3. t \in Seq(Int) /\ Inserted(s, t, n + 1, x)
  BY <1>1, <1>2, InsertAtIs
<1>4. \A i \in 1..Len(s) : s[i] <= x <=> i <= n
  BY BisectFinds, Zenon
<1>5. Ordered(t)
  <2> HIDE DEF n, t
  <2>1. /\ Len(s) \in Nat /\ Len(t) = Len(s) + 1 /\ t[n + 1] = x
        /\ \A i \in 1..Len(s) : s[i] \in Int
        /\ \A i \in 1..Len(s) : t[IF i < n + 1 THEN i ELSE i + 1] = s[i]
    BY <1>3 DEF Inserted
  <2>2. ASSUME NEW i \in 1..n PROVE i \in 1..Len(s) /\ t[i] = s[i] /\ t[i] <= x
    BY <1>1, <1>4, <2>1
  <2>3. ASSUME NEW i \in (n + 2)..Len(t)
        PROVE  i - 1 \in 1..Len(s) /\ t[i] = s[i - 1] /\ x < t[i]
    <3>1. i - 1 \in 1..Len(s) /\ ~(i - 1 < n + 1) /\ (i - 1) + 1 = i /\ ~(i - 1 <= n)
      BY <1>1, <2>1
    <3>2. t[i] = s[i - 1]
      BY <2>1, <3>1
    <3>3. ~(s[i - 1] <= x) /\ s[i - 1] \in Int
      BY <1>4, <2>1, <3>1
    <3> QED BY <3>1, <3>2, <3>3
  <2>4. ASSUME NEW i \in 1..Len(t), NEW j \in 1..Len(t), i < j PROVE t[i] <= t[j]
    <3>1. CASE j <= n
      <4>1. i \in 1..n /\ j \in 1..n
        BY <1>1, <2>4, <3>1
      <4> QED BY <2>2, <2>4, <4>1 DEF Ordered
    <3>2. CASE i >= n + 2
      <4>1. i \in (n + 2)..Len(t) /\ j \in (n + 2)..Len(t) /\ i - 1 < j - 1
        BY <1>1, <2>1, <2>4, <3>2
      <4> QED BY <2>3, <4>1 DEF Ordered
    <3>3. CASE i <= n + 1 /\ j >= n + 1
      <4>1. (i \in 1..n \/ i = n + 1) /\ (j \in (n + 2)..Len(t) \/ j = n + 1)
        BY <1>1, <2>1, <3>3
      <4>2. t[i] <= x
        BY <2>1, <2>2, <4>1
      <4>3. x <= t[j]
        <5>1. CASE j = n + 1
          BY <2>1, <5>1
        <5>2. CASE j \in (n + 2)..Len(t)
          <6>1. t[j] \in Int
            BY <1>3
          <6>2. x < t[j]
            BY <2>3, <5>2
          <6> QED BY <6>1, <6>2
        <5> QED BY <4>1, <5>1, <5>2
      <4>4. t[i] \in Int /\ t[j] \in Int
        BY <1>3
      <4> QED BY <4>2, <4>3, <4>4
    <3> QED BY <1>1, <2>4, <3>1, <3>2, <3>3
  <2> QED BY <2>4 DEF Ordered
<1> HIDE DEF t
<1>6. ASSUME NEW H PROVE Among(t, H) = Among(s, H) + Hit(x, H)
  BY <1>3, InsertCounts
<1> QED BY <1>3, <1>5, <1>6, Zenon DEF t

(* Taking out an element of an ordered sequence keeps the order.            *)
LEMMA RemovalKeepsOrder ==
    ASSUME NEW s \in Seq(Int), NEW t \in Seq(Int), NEW k, NEW x,
           Inserted(s, t, k, x), Ordered(t)
    PROVE  Ordered(s)
<1>1. /\ Len(s) \in Nat /\ Len(t) = Len(s) + 1 /\ k \in 1..Len(t)
      /\ \A i \in 1..Len(s) : t[IF i < k THEN i ELSE i + 1] = s[i]
  <2>1. Len(s) \in Nat
    OBVIOUS
  <2> QED BY <2>1, Zenon DEF Inserted
<1> SUFFICES ASSUME NEW i \in 1..Len(s), NEW j \in 1..Len(s), i < j PROVE s[i] <= s[j]
  BY DEF Ordered
<1> DEFINE at(m) == IF m < k THEN m ELSE m + 1
<1>2. i \in 1..Len(t) /\ i + 1 \in 1..Len(t) /\ j \in 1..Len(t) /\ j + 1 \in 1..Len(t)
  <2>1. \A m \in Nat : \A n \in 1..m : n \in 1..(m + 1) /\ n + 1 \in 1..(m + 1)
    OBVIOUS
  <2> QED BY <1>1, <2>1, Zenon
<1>3. at(i) \in 1..Len(t) /\ at(j) \in 1..Len(t)
  BY <1>2, Zenon
<1>4. at(i) < at(j)
  <2>1. \A a, b, m \in Int :
           a < b => (IF a < m THEN a ELSE a + 1) < (IF b < m THEN b ELSE b + 1)
    OBVIOUS
  <2>2. i \in Int /\ j \in Int /\ k \in Int
    BY <1>1
  <2> QED BY <2>1, <2>2
<1>5. t[at(i)] <= t[at(j)]
  <2> HIDE DEF at
  <2> QED BY <1>3, <1>4, Zenon DEF Ordered
<1>6. t[at(i)] = s[i] /\ t[at(j)] = s[j]
  BY <1>1, Zenon
<1> QED BY <1>5, <1>6

(* Bisection finds the oldest sample in the sorted copy, and removing both  *)
(* leaves the two in agreement.                                             *)
LEMMA OldestLeaves ==
    ASSUME NEW s \in Seq(Int), NEW t \in Seq(Int), s # <<>>, Ordered(t), SameHeights(t, s)
    PROVE  LET u == RemoveAt(t, BisectLeft(t, Head(s)))
           IN  u \in Seq(Int) /\ Ordered(u) /\ SameHeights(u, Tail(s))
<1> DEFINE x == Head(s)
           k == BisectLeft(t, x)
           u == RemoveAt(t, k)
<1>1. Tail(s) \in Seq(Int) /\ x \in Int /\ Inserted(Tail(s), s, 1, x)
  BY TailIs, Zenon
<1>2. Len(s) \in Nat /\ 1 \in 1..Len(s) /\ s[1] = x
  OBVIOUS
<1>3. k = Among(t, Under(x)) + 1
  BY <1>1, BisectIs, Zenon DEF BisectLeft
<1>4. Under(x) \in SUBSET Int /\ UpTo(x) \in SUBSET Int
      /\ Under(x) \subseteq UpTo(x) /\ x \in UpTo(x) /\ x \notin Under(x)
  BY <1>1 DEF Under, UpTo
<1>5. Among(s, Under(x)) < Among(s, UpTo(x))
  BY <1>2, <1>4, AmongGrows
<1>6. Among(t, Under(x)) < Among(t, UpTo(x))
  BY <1>4, <1>5, Zenon DEF SameHeights
<1>7. /\ Among(t, Under(x)) \in Nat /\ Among(t, UpTo(x)) \in Nat
      /\ Among(t, UpTo(x)) <= Len(t) /\ Len(t) \in Nat
  BY AmongIs, LenProperties, Zenon
<1>8. k \in 1..Len(t) /\ k <= Among(t, UpTo(x)) /\ ~(k <= Among(t, Under(x)))
  BY <1>3, <1>6, <1>7
<1>9. t[k] = x
  <2>1. t[k] <= x /\ ~(t[k] < x)
    BY <1>1, <1>8, BisectFinds, Zenon
  <2>2. t[k] \in Int
    BY <1>8
  <2> QED BY <1>1, <2>1, <2>2
<1>10. u \in Seq(Int) /\ Inserted(u, t, k, x)
  BY <1>8, <1>9, RemoveAtIs, Zenon
<1>11. Ordered(u)
  BY <1>10, RemovalKeepsOrder, Zenon
<1>12. ASSUME NEW H \in SUBSET Int PROVE Among(u, H) = Among(Tail(s), H)
  <2>1. Among(t, H) = Among(u, H) + Hit(x, H)
    BY <1>10, InsertCounts
  <2>2. Among(s, H) = Among(Tail(s), H) + Hit(x, H)
    <3> DEFINE rest == Tail(s)
    <3>1. rest \in Seq(Int) /\ Inserted(rest, s, 1, x)
      BY <1>1, Zenon
    <3> HIDE DEF rest, x
    <3>2. Among(s, H) = Among(rest, H) + Hit(x, H)
      BY <3>1, InsertCounts
    <3> QED BY <3>2 DEF rest
  <2>3. Among(t, H) = Among(s, H)
    BY DEF SameHeights
  <2>4. Among(u, H) \in Nat /\ Among(Tail(s), H) \in Nat
    BY <1>1, <1>10, AmongIs, Zenon
  <2>5. Hit(x, H) \in Nat
    BY DEF Hit
  <2> QED BY <2>1, <2>2, <2>3, <2>4, <2>5
<1> QED BY <1>10, <1>11, <1>12, Zenon DEF SameHeights

(* A new height keeps the two in agreement.                                 *)
LEMMA AddKeeps ==
    ASSUME NEW b, BaseOK(b), NEW height \in Int
    PROVE  BaseOK(Add(b, height))
<1> DEFINE full == Len(b.samples) = Window
           newest == IF full THEN Tail(b.samples) ELSE b.samples
           kept == IF full THEN RemoveAt(b.sorted, BisectLeft(b.sorted, Head(b.samples)))
                   ELSE b.sorted
<1>1. /\ b.samples \in Seq(Int) /\ b.sorted \in Seq(Int) /\ Len(b.samples) <= Window
      /\ Ordered(b.sorted) /\ SameHeights(b.sorted, b.samples)
  BY Zenon DEF BaseOK
<1>2. Window \in Nat \ {0}
  BY BaselineAssumption
<1>3. /\ newest \in Seq(Int) /\ Len(newest) < Window
      /\ kept \in Seq(Int) /\ Ordered(kept) /\ SameHeights(kept, newest)
  <2>1. CASE full
    <3>1. b.samples # <<>> /\ Tail(b.samples) \in Seq(Int)
          /\ Len(Tail(b.samples)) = Window - 1
      BY <1>1, <1>2, <2>1
    <3>2. LET u == RemoveAt(b.sorted, BisectLeft(b.sorted, Head(b.samples)))
          IN  u \in Seq(Int) /\ Ordered(u) /\ SameHeights(u, Tail(b.samples))
      BY <1>1, <3>1, OldestLeaves, Zenon
    <3>3. Window - 1 < Window
      BY <1>2
    <3> QED BY <2>1, <3>1, <3>2, <3>3, Zenon
  <2>2. CASE ~full
    <3>1. Len(b.samples) < Window
      BY <1>1, <1>2, <2>2
    <3> QED BY <1>1, <2>2, <3>1, Zenon
  <2> QED BY <2>1, <2>2
<1>4. Add(b, height) = [samples |-> Append(newest, height), sorted |-> Insort(kept, height)]
  BY Zenon DEF Add
<1>5. /\ Add(b, height).samples = Append(newest, height)
      /\ Add(b, height).sorted = Insort(kept, height)
  BY <1>4
<1> HIDE DEF newest, kept, full
<1>6. /\ Append(newest, height) \in Seq(Int)
      /\ Inserted(newest, Append(newest, height), Len(newest) + 1, height)
  BY <1>3, AppendIs, Zenon
<1>7. Len(Append(newest, height)) <= Window
  BY <1>2, <1>3
<1>8. /\ Insort(kept, height) \in Seq(Int) /\ Ordered(Insort(kept, height))
      /\ \A H \in SUBSET Int :
            Among(Insort(kept, height), H) = Among(kept, H) + Hit(height, H)
  BY <1>3, InsortIs, Zenon
<1>9. ASSUME NEW H \in SUBSET Int
      PROVE  Among(Insort(kept, height), H) = Among(Append(newest, height), H)
  <2>1. Among(Append(newest, height), H) = Among(newest, H) + Hit(height, H)
    <3> DEFINE longer == Append(newest, height)
    <3>1. longer \in Seq(Int) /\ Inserted(newest, longer, Len(newest) + 1, height)
      BY <1>6, Zenon
    <3> HIDE DEF longer
    <3>2. Among(longer, H) = Among(newest, H) + Hit(height, H)
      BY <1>3, <3>1, InsertCounts
    <3> QED BY <3>2 DEF longer
  <2>2. Among(kept, H) = Among(newest, H)
    BY <1>3, Zenon DEF SameHeights
  <2> QED BY <1>8, <2>1, <2>2, Zenon
<1> QED BY <1>5, <1>6, <1>7, <1>8, <1>9, Zenon DEF BaseOK, SameHeights

(* No sample is in agreement with no sample.                                *)
LEMMA NoSamplesOK == BaseOK(NoSamples)
<1>1. NoSamples.samples = <<>> /\ NoSamples.sorted = <<>>
  BY DEF NoSamples
<1>2. <<>> \in Seq(Int) /\ Len(<<>>) = 0 /\ Ordered(<<>>)
  BY DEF Ordered
<1>3. 0 <= Window
  BY BaselineAssumption
<1> QED BY <1>1, <1>2, <1>3, Zenon DEF BaseOK, SameHeights

-----------------------------------------------------------------------------
(* What the agreement says of the baseline.                                 *)

(* The sorted copy is the window, sorted.                                   *)
LEMMA SortedIs ==
    ASSUME NEW b, BaseOK(b)
    PROVE  IsSortingOf(b.sorted, b.samples)
<1> DEFINE s == b.samples
           t == b.sorted
           often(q, h) == Cardinality({i \in 1..Len(q) : q[i] = h})
<1>1. s \in Seq(Int) /\ t \in Seq(Int) /\ Ordered(t) /\ SameHeights(t, s)
  BY Zenon DEF BaseOK
<1> HIDE DEF s, t
<1>2. ASSUME NEW h \in ToSet(s) \cup ToSet(t) PROVE often(t, h) = often(s, h)
  <2>1. h \in Int
    BY <1>1 DEF ToSet
  <2>2. \A q : often(q, h) = Among(q, {h})
    BY DEF Among
  <2>3. Among(t, {h}) = Among(s, {h})
    BY <1>1, <2>1 DEF SameHeights
  <2> QED BY <2>2, <2>3, Zenon
<1>3. \A i, j \in 1..Len(t) : i < j => t[i] <= t[j]
  BY <1>1, Zenon DEF Ordered
<1> QED BY <1>2, <1>3, Zenon DEF IsSortingOf, s, t

(* The counts of Percentile.                                                *)
Below(s, h) == Cardinality({i \in 1..Len(s) : s[i] < h})
NotAbove(s, h) == Cardinality({i \in 1..Len(s) : s[i] <= h})
Splits(s, rank, h) == Below(s, h) <= rank /\ rank < NotAbove(s, h)

(* At most one height has no more than rank samples below it and more than  *)
(* rank not above it.                                                       *)
LEMMA SplitsOnce ==
    ASSUME NEW s \in Seq(Int), NEW rank \in Int, NEW g \in Int, NEW h \in Int,
           Splits(s, rank, g), Splits(s, rank, h)
    PROVE  g = h
<1>1. ASSUME NEW a \in Int, NEW c \in Int, a < c, Splits(s, rank, a), Splits(s, rank, c)
      PROVE  FALSE
  <2>1. /\ rank < Among(s, UpTo(a)) /\ Among(s, Under(c)) <= rank
    BY <1>1, BisectIs, Zenon DEF Splits, Below, NotAbove
  <2>2. UpTo(a) \subseteq Under(c)
    BY <1>1 DEF UpTo, Under
  <2>3. Among(s, UpTo(a)) <= Among(s, Under(c))
    BY <2>2, AmongGrows, Zenon
  <2>4. Among(s, UpTo(a)) \in Nat /\ Among(s, Under(c)) \in Nat
    BY AmongIs, Zenon
  <2> QED BY <2>1, <2>3, <2>4
<1>2. ~(g < h) /\ ~(h < g)
  BY <1>1
<1> QED BY <1>2

(* All samples count for Int.                                               *)
LEMMA AllCount == ASSUME NEW s \in Seq(Int) PROVE Among(s, Int) = Len(s)
<1>1. {i \in 1..Len(s) : s[i] \in Int} = 1..Len(s)
  OBVIOUS
<1>2. Cardinality(1..Len(s)) = Len(s)
  <2>1. \A n \in Nat : Cardinality(1..n) = n
    BY FS_Interval
  <2> QED BY <2>1
<1> QED BY <1>1, <1>2, Zenon DEF Among

(* A height that is counted occurs.                                         *)
LEMMA CountedOccurs ==
    ASSUME NEW s \in Seq(Int), NEW h, Among(s, {h}) > 0
    PROVE  h \in ToSet(s)
<1>1. CASE \E i \in 1..Len(s) : s[i] = h
  BY <1>1 DEF ToSet
<1>2. CASE ~\E i \in 1..Len(s) : s[i] = h
  <2>1. {i \in 1..Len(s) : s[i] \in {h}} = {}
    BY <1>2
  <2>2. Among(s, {h}) = 0
    BY <2>1, FS_EmptySet, Zenon DEF Among
  <2> QED BY <2>2
<1> QED BY <1>1, <1>2

(* The place value() reads holds the percentile of the window.              *)
LEMMA ValueIs ==
    ASSUME NEW b, BaseOK(b), Len(b.samples) >= MinSamples
    PROVE  Value(b) = Percentile(b.samples)
<1> DEFINE s == b.samples
           t == b.sorted
           n == Len(s)
           rank == (9 * (n - 1)) \div 10
           h == t[rank + 1]
<1>1. s \in Seq(Int) /\ t \in Seq(Int) /\ Ordered(t) /\ SameHeights(t, s)
  BY Zenon DEF BaseOK
<1>2. MinSamples \in Nat \ {0}
  BY BaselineAssumption
<1>3. Len(t) = n
  <2>1. Int \in SUBSET Int
    OBVIOUS
  <2> QED BY <1>1, <2>1, AllCount, Zenon DEF SameHeights
<1>4. n \in Nat \ {0}
  BY <1>1, <1>2
<1> HIDE DEF s, t
<1>5. rank \in 0..(n - 1)
  <2> HIDE DEF n
  <2>1. \A m \in Nat : (9 * m) \div 10 \in Nat /\ (9 * m) \div 10 <= m
    OBVIOUS
  <2>2. n - 1 \in Nat
    BY <1>4
  <2> QED BY <2>1, <2>2
<1>6. Value(b) = h
  <2>1. ~(Len(t) < MinSamples)
    BY <1>2, <1>3, <1>4 DEF s
  <2>2. Value(b) = t[(9 * (Len(t) - 1)) \div 10 + 1]
    BY <2>1, Zenon DEF Value, t
  <2> QED BY <1>3, <2>2, Zenon
<1> HIDE DEF n, rank
<1>7. rank + 1 \in 1..Len(t) /\ rank \in Nat
  BY <1>3, <1>4, <1>5
<1>8. h \in Int
  BY <1>1, <1>7
<1>9. Splits(s, rank, h)
  <2>1. ~(rank + 1 <= Among(t, Under(h))) /\ rank + 1 <= Among(t, UpTo(h))
    <3>1. ~(h < h) /\ h <= h
      BY <1>8
    <3> HIDE DEF h
    <3>2. t[rank + 1] = h
      BY DEF h
    <3> QED BY <1>1, <1>7, <1>8, <3>1, <3>2, BisectFinds, Zenon
  <2>2. Among(t, Under(h)) = Below(s, h) /\ Among(t, UpTo(h)) = NotAbove(s, h)
    <3>1. Under(h) \in SUBSET Int /\ UpTo(h) \in SUBSET Int
      BY DEF Under, UpTo
    <3> HIDE DEF h
    <3>2. Below(s, h) = Among(s, Under(h)) /\ NotAbove(s, h) = Among(s, UpTo(h))
      BY <1>1, <1>8, BisectIs, Zenon DEF Below, NotAbove
    <3> QED BY <1>1, <3>1, <3>2, Zenon DEF SameHeights
  <2>3. Among(t, Under(h)) \in Nat /\ Among(t, UpTo(h)) \in Nat
    BY <1>1, AmongIs, Zenon
  <2> HIDE DEF h
  <2> QED BY <1>7, <2>1, <2>2, <2>3 DEF Splits
<1> HIDE DEF h
<1>10. h \in ToSet(s)
  <2>1. {h} \in SUBSET Int /\ {} \subseteq {h} /\ h \notin {}
    BY <1>8
  <2>2. Among(t, {}) < Among(t, {h})
    BY <1>1, <1>7, <2>1, AmongGrows DEF h
  <2>3. Among(t, {}) \in Nat /\ Among(t, {h}) \in Nat
    BY <1>1, AmongIs, Zenon
  <2>4. Among(s, {h}) = Among(t, {h})
    BY <1>1, <2>1, Zenon DEF SameHeights
  <2>5. Among(s, {h}) > 0
    BY <2>2, <2>3, <2>4
  <2> QED BY <1>1, <2>5, CountedOccurs
<1>11. \A g \in ToSet(s) : Splits(s, rank, g) => g = h
  <2>1. \A g \in ToSet(s) : g \in Int
    BY <1>1 DEF ToSet
  <2>2. rank \in Int
    BY <1>7
  <2> QED BY <1>1, <1>8, <1>9, <2>1, <2>2, SplitsOnce, Zenon
<1>12. Percentile(s) = CHOOSE g \in ToSet(s) : Splits(s, rank, g)
  BY Zenon DEF Percentile, Splits, Below, NotAbove, rank, n
<1>13. Percentile(s) = h
  BY <1>9, <1>10, <1>11, <1>12
<1> QED BY <1>6, <1>13, Zenon DEF s

(* Only a frame with somebody in view touches the baseline.                 *)
LEMMA BaseSteps ==
    ASSUME [MCNext]_mcvars
    PROVE  base' = base \/ \E view \in Views : base' = Add(base, view.height)
<1>1. CASE MCLoop
  <2>1. CASE Pause \/ OpenFails \/ ReadFails \/ Grab
    BY <2>1, Zenon DEF Pause, OpenFails, ReadFails, Grab
  <2>2. ASSUME NEW view \in Views \cup {NoUser}, Frame(view)
        PROVE  base' = base \/ \E v \in Views : base' = Add(base, v.height)
    <3>1. base' \in {base} \cup (IF view = NoUser THEN {} ELSE {Add(base, view.height)})
      BY <2>2, Zenon DEF Frame
    <3>2. CASE view = NoUser
      BY <3>1, <3>2
    <3>3. CASE view # NoUser
      BY <3>1, <3>3
    <3> QED BY <3>2, <3>3
  <2> QED BY <1>1, <2>1, <2>2, Zenon DEF MCLoop
<1>2. CASE Crash \/ Forward \/ TaskEnds \/ UNCHANGED mcvars
  BY <1>2, Zenon DEF Crash, Forward, TaskEnds, mcvars, vvars
<1> QED BY <1>1, <1>2, Zenon DEF MCNext

(* The copies agree always.                                                 *)
LEMMA BaseAlways == MCSpec => []BaseOK(base)
<1>1. MCInit => BaseOK(base)
  BY NoSamplesOK, Zenon DEF MCInit, VisionInit
<1>2. ASSUME BaseOK(base), [MCNext]_mcvars PROVE BaseOK(base)'
  <2>1. CASE base' = base
    BY <1>2, <2>1, Zenon
  <2>2. ASSUME NEW view \in Views, base' = Add(base, view.height) PROVE BaseOK(base)'
    <3>1. view.height \in Int
      BY VisionAssumption
    <3>2. BaseOK(Add(base, view.height))
      BY <1>2, <3>1, AddKeeps, Zenon
    <3> QED BY <2>2, <3>2, Zenon
  <2> QED BY <1>2, <2>1, <2>2, BaseSteps, Zenon
<1> QED BY <1>1, <1>2, PTL DEF MCSpec

(* The baseline is the percentile of the last heights, for every length of  *)
(* the window and whatever heights it holds: the sorted copy, which is      *)
(* patched with two bisections a frame and never sorted again, does not     *)
(* drift from the window.                                                   *)
THEOREM BaselineAlwaysPercentile == MCSpec => []BaselineIsPercentile
<1>1. BaseOK(base) => BaselineIsPercentile
  BY SortedIs, ValueIs, Zenon DEF BaselineIsPercentile
<1> QED BY <1>1, BaseAlways, PTL

=============================================================================
