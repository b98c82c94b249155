----------------------------- MODULE TofSensor ------------------------------
(***************************************************************************)
(* The distance sensor of the leg controller (tofInit, tofStore,           *)
(* tofFailed, tofPoll and cmdDistance in emo_esp32.ino).  The sensor may   *)
(* stop answering, stop ranging or reset itself at any moment.  Time is    *)
(* counted in polls of at least TOF_POLL_MS: a poll may be late, but the   *)
(* age of a range in milliseconds is never less than its polls say.        *)
(***************************************************************************)
EXTENDS Integers

CONSTANTS
    Stale,      \* TOF_STALE_MS / TOF_POLL_MS
    FailLimit   \* failed polls after which the sensor counts as lost (10)

VARIABLES
    sensor,        \* tofOk: "ok" or "lost"
    tofMm,         \* "known" or "none" (-1)
    tofFailCount,
    polls,         \* polls since lastTofMs
    measured,      \* polls since the range was measured
    reply          \* what D answered last, or "silent": "known", "none" or "NOTOF"

vars == <<sensor, tofMm, tofFailCount, polls, measured, reply>>

(* tofInit: the first range comes later.                                    *)
Initialised == tofFailCount' = 0 /\ tofMm' = "none" /\ polls' = 0 /\ UNCHANGED measured

Init ==
    /\ sensor \in {"ok", "lost"} /\ tofMm = "none" /\ tofFailCount = 0
    /\ polls = 0 /\ measured = 0 /\ reply = "silent"

(* tofStore: a distance, or nothing within reach.                           *)
Store == tofMm' \in {"known", "none"} /\ polls' = 0 /\ measured' = 0

Lost == sensor' = "lost" /\ tofMm' = "none"
Passes == polls' = polls + 1 /\ measured' = measured + 1

(* tofFailed, for a status or a range that could not be read.               *)
PollFails ==
    /\ tofFailCount' = tofFailCount + 1
    /\ IF tofFailCount' >= FailLimit THEN Lost ELSE UNCHANGED <<sensor, tofMm>>
    /\ Passes

(* No new range yet; polls that came late may have used up the time.        *)
NothingNew ==
    /\ \/ Lost
       \/ polls + 1 <= Stale /\ UNCHANGED <<sensor, tofMm>>
    /\ Passes /\ UNCHANGED tofFailCount

NewRange == tofFailCount' = 0 /\ Store /\ UNCHANGED sensor

Poll == sensor = "ok" /\ (PollFails \/ NothingNew \/ NewRange) /\ reply' = "silent"

(* D: a lost sensor is tried again, except while balancing.                 *)
Retried ==
    \/ sensor' = "lost" /\ Initialised
    \/ sensor' = "ok" /\ (Initialised \/ (tofFailCount' = 0 /\ Store))

CmdDistance ==
    /\ IF sensor = "ok" THEN UNCHANGED <<sensor, tofMm, tofFailCount, polls, measured>>
       ELSE \/ Retried
            \/ UNCHANGED <<sensor, tofMm, tofFailCount, polls, measured>>
    /\ reply' = IF sensor' = "ok" THEN tofMm' ELSE "NOTOF"

Reset == sensor' \in {"ok", "lost"} /\ Initialised /\ reply' = "silent"

Next == Poll \/ CmdDistance \/ Reset

Spec == Init /\ [][Next]_vars

-----------------------------------------------------------------------------
(* A range that is kept is the one whose time lastTofMs is, and each poll   *)
(* since then has either failed and been counted or was within the limit.   *)
Kept ==
    /\ sensor \in {"ok", "lost"} /\ tofFailCount \in Nat /\ polls \in Nat /\ measured \in Nat
    /\ sensor = "lost" => tofMm = "none"
    /\ sensor = "ok" => tofFailCount < FailLimit
    /\ sensor = "ok" => polls <= Stale + tofFailCount
    /\ tofMm # "none" => measured = polls

(* A distance that D reports was measured within the last Stale + FailLimit *)
(* polls, however failures and silence of the sensor follow each other; an  *)
(* old one is not reported for ever.                                        *)
ReportsRecent == [][reply' = "known" => measured' < Stale + FailLimit]_vars

=============================================================================
