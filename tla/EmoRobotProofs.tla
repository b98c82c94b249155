--------------------------- MODULE EmoRobotProofs ---------------------------
(***************************************************************************)
(* Proofs about EmoRobot, for every board, queue size, period, set of      *)
(* mishaps and set of messages without a walk.                             *)
(*                                                                         *)
(* The commands a controller will meet are those written to it and those   *)
(* still queued, in that order.  A command the tree sends once (E, O, R)   *)
(* is safe while none that undoes it stands behind it; what is Settled in  *)
(* this sense is kept by every step of the tick, the serial task, the      *)
(* controller and the mishaps, or the step is one that lost tells of or    *)
(* after which the tree sends the command again.  The lines on their way   *)
(* back are treated alike: one that corrects the tree's belief stands      *)
(* behind every ACK,S.                                                     *)
(*                                                                         *)
(* An E-stop that has taken effect stays in force, a robot that stands and *)
(* that nothing holds down stays up, and the whole robot implements        *)
(* LegPower and the tree's own specification.                              *)
(***************************************************************************)
EXTENDS EmoRobot, BehaviorTreeProofs

(* None of bad is at a position after i.                                    *)
NoneAfter(cmds, i, bad) == \A j \in (i + 1)..Len(cmds) : cmds[j] \notin bad

(* The commands cmds, carried out one after the other, end with an effect   *)
(* of good that no bad one undoes; or it is there now and none undoes it.   *)
Settled(cmds, good, bad, now) ==
    \/ \E i \in 1..Len(cmds) : cmds[i] \in good /\ NoneAfter(cmds, i, bad)
    \/ now /\ NoneAfter(cmds, 0, bad)

(* The elements of a concatenation, by position.                            *)
LEMMA ConcatAt ==
    ASSUME NEW S, NEW u \in Seq(S), NEW v \in Seq(S)
    PROVE  /\ Len(u) \in Nat /\ Len(v) \in Nat /\ Len(u \o v) = Len(u) + Len(v)
           /\ \A i \in 1..Len(u) : (u \o v)[i] = u[i]
           /\ \A i \in 1..Len(v) : (u \o v)[Len(u) + i] = v[i]
           /\ \A i \in (Len(u) + 1)..Len(u \o v) :
                 i - Len(u) \in 1..Len(v) /\ (u \o v)[i] = v[i - Len(u)]
<1>1. /\ Len(u) \in Nat /\ Len(v) \in Nat /\ Len(u \o v) = Len(u) + Len(v)
      /\ \A i \in 1..Len(u) : (u \o v)[i] = u[i]
      /\ \A i \in (Len(u) + 1)..(Len(u) + Len(v)) :
            i - Len(u) \in 1..Len(v) /\ (u \o v)[i] = v[i - Len(u)]
  OBVIOUS
<1>2. ASSUME NEW i \in 1..Len(v) PROVE (u \o v)[Len(u) + i] = v[i]
  <2>1. Len(u) + i \in (Len(u) + 1)..(Len(u) + Len(v)) /\ (Len(u) + i) - Len(u) = i
    BY <1>1
  <2> QED BY <1>1, <2>1
<1> QED BY <1>1, <1>2

(* ToSet(s) holds what stands at some position of s.                        *)
LEMMA InToSet ==
    ASSUME NEW S, NEW s \in Seq(S), NEW e
    PROVE  e \in ToSet(s) <=> \E i \in 1..Len(s) : s[i] = e
BY DEF ToSet

(* Settled commands stay settled when the first is carried out, provided    *)
(* that what it does shows in soon.                                         *)
LEMMA SettledTail ==
    ASSUME NEW S, NEW cmds \in Seq(S), cmds # <<>>, NEW good, NEW bad, NEW now, NEW soon,
           Settled(cmds, good, bad, now),
           Head(cmds) \in good => soon, now /\ Head(cmds) \notin bad => soon
    PROVE  Settled(Tail(cmds), good, bad, soon)
<1>1. /\ Len(Tail(cmds)) = Len(cmds) - 1 /\ Head(cmds) = cmds[1] /\ Len(cmds) \in Nat \ {0}
      /\ \A i \in 1..Len(Tail(cmds)) : Tail(cmds)[i] = cmds[i + 1]
  OBVIOUS
<1>2. ASSUME NEW i \in Nat, NoneAfter(cmds, i + 1, bad) PROVE NoneAfter(Tail(cmds), i, bad)
  BY <1>1, <1>2 DEF NoneAfter
<1>3. ASSUME NEW i \in 1..Len(cmds), cmds[i] \in good, NoneAfter(cmds, i, bad)
      PROVE  Settled(Tail(cmds), good, bad, soon)
  <2>1. i - 1 \in Nat /\ i = (i - 1) + 1
    OBVIOUS
  <2>2. NoneAfter(Tail(cmds), i - 1, bad)
    BY <1>2, <1>3, <2>1
  <2>3. CASE i = 1
    BY <1>1, <1>3, <2>2, <2>3 DEF Settled
  <2>4. CASE i # 1
    <3>1. i - 1 \in 1..Len(Tail(cmds)) /\ Tail(cmds)[i - 1] \in good
      BY <1>1, <1>3, <2>4
    <3> QED BY <2>2, <3>1 DEF Settled
  <2> QED BY <2>3, <2>4
<1>4. ASSUME now, NoneAfter(cmds, 0, bad) PROVE Settled(Tail(cmds), good, bad, soon)
  <2>1. NoneAfter(cmds, 0 + 1, bad) /\ cmds[1] \notin bad
    BY <1>1, <1>4 DEF NoneAfter
  <2> QED BY <1>1, <1>2, <1>4, <2>1 DEF Settled
<1> QED BY <1>3, <1>4 DEF Settled

(* Commands that are not bad may follow.                                    *)
LEMMA SettledAppend ==
    ASSUME NEW S, NEW cmds \in Seq(S), NEW more \in Seq(S), NEW good, NEW bad, NEW now,
           Settled(cmds, good, bad, now), NoneAfter(more, 0, bad)
    PROVE  Settled(cmds \o more, good, bad, now)
<1>1. ASSUME NEW i \in Nat, NoneAfter(cmds, i, bad) PROVE NoneAfter(cmds \o more, i, bad)
  <2> SUFFICES ASSUME NEW j \in (i + 1)..Len(cmds \o more) PROVE (cmds \o more)[j] \notin bad
    BY DEF NoneAfter
  <2>1. CASE j <= Len(cmds)
    BY <1>1, <2>1, ConcatAt DEF NoneAfter
  <2>2. CASE j > Len(cmds)
    <3>1. j \in (Len(cmds) + 1)..Len(cmds \o more)
      BY <2>2, ConcatAt
    <3> QED BY <3>1, ConcatAt DEF NoneAfter
  <2> QED BY <2>1, <2>2, ConcatAt
<1>2. \A i \in 1..Len(cmds) : i \in Nat /\ i \in 1..Len(cmds \o more) /\ (cmds \o more)[i] = cmds[i]
  BY ConcatAt
<1> QED BY <1>1, <1>2 DEF Settled

(* A good command among harmless new ones settles the matter.               *)
LEMMA SettledNew ==
    ASSUME NEW S, NEW cmds \in Seq(S), NEW more \in Seq(S), NEW good, NEW bad, NEW now,
           NoneAfter(more, 0, bad), NEW i \in 1..Len(more), more[i] \in good
    PROVE  Settled(cmds \o more, good, bad, now)
<1>1. /\ Len(cmds) + i \in 1..Len(cmds \o more)
      /\ (cmds \o more)[Len(cmds) + i] \in good
  BY ConcatAt
<1>2. NoneAfter(cmds \o more, Len(cmds) + i, bad)
  <2> SUFFICES ASSUME NEW j \in (Len(cmds) + i + 1)..Len(cmds \o more)
               PROVE  (cmds \o more)[j] \notin bad
    BY DEF NoneAfter
  <2>1. /\ Len(cmds) \in Nat /\ Len(more) \in Nat /\ Len(cmds \o more) = Len(cmds) + Len(more)
        /\ \A k \in (Len(cmds) + 1)..Len(cmds \o more) :
              k - Len(cmds) \in 1..Len(more) /\ (cmds \o more)[k] = more[k - Len(cmds)]
    BY ConcatAt, Zenon
  <2>2. j \in (Len(cmds) + 1)..Len(cmds \o more) /\ j - Len(cmds) \in (0 + 1)..Len(more)
    BY <2>1
  <2> QED BY <2>1, <2>2, Zenon DEF NoneAfter
<1> QED BY <1>1, <1>2 DEF Settled

(* Commands dropped from the middle (the oldest of a full queue, or a whole *)
(* queue that is discarded) unsettle nothing if every good one among them   *)
(* is still there.                                                          *)
LEMMA SettledDrop ==
    ASSUME NEW S, NEW u \in Seq(S), NEW v \in Seq(S), NEW d \in 0..Len(v), NEW w \in Seq(S),
           Len(w) = Len(v) - d, \A i \in 1..Len(w) : w[i] = v[i + d],
           NEW good, NEW bad, NEW now, Settled(u \o v, good, bad, now),
           good \cap (ToSet(v) \ ToSet(w)) = {}
    PROVE  Settled(u \o w, good, bad, now)
<1>1. /\ Len(u) \in Nat /\ Len(v) \in Nat /\ Len(w) \in Nat
      /\ Len(u \o v) = Len(u) + Len(v) /\ Len(u \o w) = Len(u) + Len(w)
      /\ \A i \in 1..Len(u) : (u \o v)[i] = u[i] /\ (u \o w)[i] = u[i]
  <2>1. ASSUME NEW r \in Seq(S)
        PROVE  /\ Len(u) \in Nat /\ Len(r) \in Nat /\ Len(u \o r) = Len(u) + Len(r)
               /\ \A i \in 1..Len(u) : (u \o r)[i] = u[i]
    BY ConcatAt
  <2> QED BY <2>1, Zenon
<1>2. \A j \in (Len(u) + 1)..Len(u \o w) :
        j + d \in (Len(u) + 1)..Len(u \o v) /\ (u \o w)[j] = (u \o v)[j + d]
  <2> TAKE j \in (Len(u) + 1)..Len(u \o w)
  <2>1. j - Len(u) \in 1..Len(w) /\ (u \o w)[j] = w[j - Len(u)]
    BY ConcatAt
  <2>2. j + d \in (Len(u) + 1)..Len(u \o v) /\ (j + d) - Len(u) = (j - Len(u)) + d
    BY <1>1, <2>1
  <2>3. (u \o v)[j + d] = v[(j + d) - Len(u)]
    BY <2>2, ConcatAt
  <2> QED BY <2>1, <2>2, <2>3
<1>3. ASSUME NEW i \in Nat, NEW k \in Nat, i <= k + d, i <= k \/ k >= Len(u),
             NoneAfter(u \o v, i, bad)
      PROVE  NoneAfter(u \o w, k, bad)
  <2> SUFFICES ASSUME NEW j \in (k + 1)..Len(u \o w) PROVE (u \o w)[j] \notin bad
    BY DEF NoneAfter
  <2>1. CASE j <= Len(u)
    <3>1. j \in 1..Len(u) /\ j \in (i + 1)..Len(u \o v)
      BY <1>1, <1>3, <2>1
    <3> QED BY <1>1, <1>3, <3>1 DEF NoneAfter
  <2>2. CASE j > Len(u)
    <3>1. j \in (Len(u) + 1)..Len(u \o w)
      BY <1>1, <2>2
    <3>2. j + d \in (i + 1)..Len(u \o v)
      BY <1>1, <1>2, <1>3, <3>1
    <3> QED BY <1>2, <1>3, <3>1, <3>2 DEF NoneAfter
  <2> QED BY <1>1, <2>1, <2>2
<1>4. \A q \in 1..Len(w) : (u \o w)[Len(u) + q] = w[q]
  BY ConcatAt
<1>5. ASSUME NEW i \in 1..Len(u \o v), (u \o v)[i] \in good, NoneAfter(u \o v, i, bad)
      PROVE  Settled(u \o w, good, bad, now)
  <2>1. CASE i <= Len(u)
    <3>1. i \in 1..Len(u \o w) /\ (u \o w)[i] \in good
      BY <1>1, <1>5, <2>1
    <3>2. i \in Nat /\ i <= i + d /\ i <= i
      BY <1>1
    <3> QED BY <1>3, <1>5, <3>1, <3>2 DEF Settled
  <2>2. CASE i > Len(u)
    <3>1. i \in (Len(u) + 1)..Len(u \o v)
      BY <1>1, <2>2
    <3>2. PICK p \in 1..Len(v) : v[p] \in good /\ i = Len(u) + p
      <4>1. i - Len(u) \in 1..Len(v) /\ i = Len(u) + (i - Len(u))
        BY <1>1, <3>1
      <4> QED BY <1>5, <3>1, <4>1, ConcatAt
    <3>3. PICK k \in 1..Len(w) : w[k] \in good /\ p <= k + d
      <4>1. CASE p > d
        <5>1. p - d \in 1..Len(w) /\ (p - d) + d = p /\ p <= (p - d) + d
          BY <1>1, <3>2, <4>1
        <5>2. w[p - d] \in good
          BY <3>2, <5>1
        <5> QED BY <5>1, <5>2
      <4>2. CASE p <= d
        <5>1. v[p] \in ToSet(w)
          BY <3>2, InToSet
        <5>2. PICK k \in 1..Len(w) : w[k] = v[p]
          BY <5>1, InToSet
        <5> QED BY <1>1, <3>2, <4>2, <5>2
      <4> QED BY <1>1, <3>2, <4>1, <4>2
    <3>4. /\ Len(u) + k \in Nat /\ i <= (Len(u) + k) + d /\ Len(u) + k >= Len(u) /\ i \in Nat
          /\ Len(u) + k \in 1..Len(u \o w)
      <4>1. /\ Len(u) \in Nat /\ Len(w) \in Nat /\ Len(u \o w) = Len(u) + Len(w) /\ d \in Nat
            /\ k \in 1..Len(w) /\ p \in Nat /\ p <= k + d /\ i = Len(u) + p
        BY <1>1, <3>2, <3>3
      <4> QED BY <4>1
    <3>5. (u \o w)[Len(u) + k] = w[k]
      BY <1>4, <3>3
    <3> QED BY <1>3, <1>5, <3>3, <3>4, <3>5 DEF Settled
  <2> QED BY <1>1, <2>1, <2>2
<1>6. ASSUME now, NoneAfter(u \o v, 0, bad) PROVE Settled(u \o w, good, bad, now)
  <2>1. 0 \in Nat /\ 0 <= 0 + d /\ 0 <= 0
    OBVIOUS
  <2> QED BY <1>3, <1>6, <2>1 DEF Settled
<1> QED BY <1>5, <1>6 DEF Settled

(* Commands dropped from the front unsettle nothing if the good ones among  *)
(* them show in soon.                                                       *)
LEMMA SettledCut ==
    ASSUME NEW S, NEW u \in Seq(S), NEW v \in Seq(S), NEW good, NEW bad, NEW now, NEW soon,
           Settled(u \o v, good, bad, now),
           now => soon, good \cap ToSet(u) # {} => soon
    PROVE  Settled(v, good, bad, soon)
<1>1. /\ Len(u) \in Nat /\ Len(v) \in Nat /\ Len(u \o v) = Len(u) + Len(v)
      /\ \A i \in 1..Len(u) : (u \o v)[i] = u[i]
      /\ \A i \in 1..Len(v) : (u \o v)[Len(u) + i] = v[i]
  BY ConcatAt
<1>2. ASSUME NEW i \in Nat, NEW k \in Nat, i <= Len(u) + k, NoneAfter(u \o v, i, bad)
      PROVE  NoneAfter(v, k, bad)
  <2> SUFFICES ASSUME NEW j \in (k + 1)..Len(v) PROVE v[j] \notin bad
    BY DEF NoneAfter
  <2>1. Len(u) + j \in (i + 1)..Len(u \o v) /\ j \in 1..Len(v)
    BY <1>1, <1>2
  <2> QED BY <1>1, <1>2, <2>1 DEF NoneAfter
<1>3. ASSUME NEW i \in 1..Len(u \o v), (u \o v)[i] \in good, NoneAfter(u \o v, i, bad)
      PROVE  Settled(v, good, bad, soon)
  <2>1. CASE i <= Len(u)
    <3>1. u[i] \in good \cap ToSet(u)
      BY <1>1, <1>3, <2>1 DEF ToSet
    <3>2. i \in Nat /\ 0 \in Nat /\ i <= Len(u) + 0
      BY <1>1, <2>1
    <3> QED BY <1>2, <1>3, <3>1, <3>2 DEF Settled
  <2>2. CASE i > Len(u)
    <3>1. i \in Nat /\ i - Len(u) \in Nat /\ i - Len(u) \in 1..Len(v) /\ i <= Len(u) + (i - Len(u))
      BY <1>1, <2>2
    <3>2. i \in (Len(u) + 1)..Len(u \o v)
      BY <1>1, <2>2
    <3>3. v[i - Len(u)] \in good
      BY <1>3, <3>2, ConcatAt
    <3> QED BY <1>2, <1>3, <3>1, <3>3 DEF Settled
  <2> QED BY <1>1, <2>1, <2>2
<1>4. ASSUME now, NoneAfter(u \o v, 0, bad) PROVE Settled(v, good, bad, soon)
  <2>1. 0 \in Nat /\ 0 <= Len(u) + 0
    BY <1>1
  <2> QED BY <1>2, <1>4, <2>1 DEF Settled
<1> QED BY <1>3, <1>4 DEF Settled

-----------------------------------------------------------------------------
(* Types of the link.                                                       *)
Cmds == Commands \cup {"P"}
Infos == {"none", "NOIMU", "IMU", "ESTOP", "TILTED", "MODE", "REFUSED"}
LineSet == [kind : {"ACK", "NACK", "READY"}, cmd : Cmds \cup {"none"}, info : Infos]
           \cup [kind : {"EVT"}, cmd : {"none"}, info : {"FALLEN", "IMU_FAIL"}]

(* The types of what is under way in both directions, and of the power.     *)
LinkTypes ==
    /\ queue \in Seq(Cmds) /\ downlink \in Seq(Cmds) /\ uplink \in Seq(LineSet)
    /\ power \in BOOLEAN /\ stopLatch \in BOOLEAN

(* Commands in the order in which the controller will meet them.            *)
Ordered == downlink \o queue

(* Taking a command from the queue keeps the order; an idle task's P is not *)
(* bad.                                                                     *)
LEMMA OrderTaken ==
    ASSUME LinkTypes, Take, NEW good, NEW bad, NEW now, "P" \notin bad,
           Settled(Ordered, good, bad, now)
    PROVE  Settled(Ordered', good, bad, now)
<1>1. CASE queue = <<>>
  <2>1. <<"P">> \in Seq(Cmds) /\ downlink \in Seq(Cmds)
    BY DEF LinkTypes, Cmds
  <2>2. Ordered' = Ordered \o <<"P">>
    BY <1>1, <2>1 DEF Take, Ordered
  <2>3. NoneAfter(<<"P">>, 0, bad)
    BY DEF NoneAfter
  <2>4. Ordered \in Seq(Cmds)
    BY DEF LinkTypes, Ordered
  <2> QED BY <2>1, <2>2, <2>3, <2>4, SettledAppend
<1>2. CASE queue # <<>>
  <2>1. queue' = Tail(queue) /\ downlink' = Append(downlink, Head(queue))
    BY <1>2 DEF Take
  <2>2. downlink \in Seq(Cmds) /\ queue \in Seq(Cmds)
    BY DEF LinkTypes
  <2>3. Append(downlink, Head(queue)) \o Tail(queue) = downlink \o queue
    BY <1>2, <2>2
  <2> QED BY <2>1, <2>3 DEF Ordered
<1> QED BY <1>1, <1>2

(* discard_pending unsettles nothing that lost does not tell of.            *)
LEMMA OrderDiscarded ==
    ASSUME LinkTypes, Discard, downlink' = downlink, NEW good \in SUBSET Once, NEW bad, NEW now,
           lost' \cap good = {}, Settled(Ordered, good, bad, now)
    PROVE  Settled(Ordered', good, bad, now)
<1>1. downlink \in Seq(Cmds) /\ queue \in Seq(Cmds) /\ <<>> \in Seq(Cmds)
  BY DEF LinkTypes
<1>2. good \cap (ToSet(queue) \ ToSet(<<>>)) = {}
  BY DEF Discard, Dropped
<1>3. /\ Len(queue) \in 0..Len(queue) /\ Len(<<>>) = Len(queue) - Len(queue)
      /\ \A i \in 1..Len(<<>>) : <<>>[i] = queue[i + Len(queue)]
  BY <1>1
<1>4. Settled(downlink \o <<>>, good, bad, now)
  BY <1>1, <1>2, <1>3, SettledDrop DEF Ordered
<1> QED BY <1>4 DEF Ordered, Discard

(* The controller carries out the first command.                            *)
LEMMA OrderExecuted ==
    ASSUME LinkTypes, downlink # <<>>, downlink' = Tail(downlink), queue' = queue,
           NEW good, NEW bad, NEW now, NEW soon, Settled(Ordered, good, bad, now),
           Head(downlink) \in good => soon, now /\ Head(downlink) \notin bad => soon
    PROVE  Settled(Ordered', good, bad, soon)
<1>1. downlink \in Seq(Cmds) /\ queue \in Seq(Cmds)
  BY DEF LinkTypes
<1>2. /\ Ordered \in Seq(Cmds) /\ Ordered # <<>> /\ Head(Ordered) = Head(downlink)
      /\ Tail(Ordered) = Tail(downlink) \o queue
  BY <1>1 DEF Ordered
<1>3. Ordered' = Tail(Ordered)
  BY <1>2 DEF Ordered
<1>4. Settled(Tail(Ordered), good, bad, soon)
  BY <1>2, SettledTail
<1> QED BY <1>3, <1>4

(* Booting, or a failing port, takes every command under way.               *)
LEMMA OrderCut ==
    ASSUME LinkTypes, downlink' = <<>>, queue' = queue, NEW good, NEW bad, NEW now, NEW soon,
           Settled(Ordered, good, bad, now), now => soon,
           good \cap ToSet(downlink) # {} => soon
    PROVE  Settled(Ordered', good, bad, soon)
<1>1. downlink \in Seq(Cmds) /\ queue \in Seq(Cmds)
  BY DEF LinkTypes
<1>2. Ordered' = queue
  BY <1>1 DEF Ordered
<1> QED BY <1>1, <1>2, SettledCut DEF Ordered

(* Newest drops some of the oldest commands and keeps the others as they    *)
(* are.                                                                     *)
LEMMA NewestIs ==
    ASSUME NEW S, NEW cmds \in Seq(S)
    PROVE  \E d \in 0..Len(cmds) :
              /\ Newest(cmds) \in Seq(S) /\ Len(Newest(cmds)) = Len(cmds) - d
              /\ \A i \in 1..Len(Newest(cmds)) : Newest(cmds)[i] = cmds[i + d]
<1>1. QueueMax \in Nat \ {0} /\ Len(cmds) \in Nat
  BY EmoRobotAssumption
<1>2. CASE Len(cmds) <= QueueMax
  <2>1. Newest(cmds) = cmds
    BY <1>2 DEF Newest
  <2>2. /\ 0 \in 0..Len(cmds) /\ Len(cmds) = Len(cmds) - 0
        /\ \A i \in 1..Len(cmds) : cmds[i] = cmds[i + 0]
    BY <1>1
  <2> QED BY <2>1, <2>2
<1>3. CASE Len(cmds) > QueueMax
  <2> DEFINE d == Len(cmds) - QueueMax
  <2>1. d \in 0..Len(cmds) /\ d + 1 \in 1..Len(cmds)
    BY <1>1, <1>3
  <2>2. Newest(cmds) = SubSeq(cmds, d + 1, Len(cmds))
    BY <1>1, <1>3 DEF Newest
  <2>3. /\ SubSeq(cmds, d + 1, Len(cmds)) \in Seq(S)
        /\ Len(SubSeq(cmds, d + 1, Len(cmds))) = Len(cmds) - d
        /\ \A i \in 1..(Len(cmds) - d) : SubSeq(cmds, d + 1, Len(cmds))[i] = cmds[i + d]
    BY <1>1, <2>1
  <2> HIDE DEF d
  <2> QED BY <2>1, <2>2, <2>3
<1> QED BY <1>1, <1>2, <1>3

(* What the tick sends goes behind the commands under way; offer drops the  *)
(* oldest, and lost tells of those that matter.                             *)
LEMMA OrderQueued ==
    ASSUME LinkTypes, NEW sends \in Seq(Cmds), downlink' = downlink,
           queue' = Newest(queue \o sends),
           NEW good \in SUBSET Once, NEW bad, NEW now,
           good \cap Dropped(queue \o sends, queue') = {},
           Settled(Ordered \o sends, good, bad, now)
    PROVE  Settled(Ordered', good, bad, now)
<1>1. downlink \in Seq(Cmds) /\ queue \in Seq(Cmds) /\ queue \o sends \in Seq(Cmds)
  BY DEF LinkTypes
<1>2. Ordered \o sends = downlink \o (queue \o sends)
  BY <1>1 DEF Ordered
<1>3. PICK d \in 0..Len(queue \o sends) :
         /\ Newest(queue \o sends) \in Seq(Cmds)
         /\ Len(Newest(queue \o sends)) = Len(queue \o sends) - d
         /\ \A i \in 1..Len(Newest(queue \o sends)) :
               Newest(queue \o sends)[i] = (queue \o sends)[i + d]
  BY <1>1, NewestIs, Zenon
<1>4. good \cap (ToSet(queue \o sends) \ ToSet(queue')) = {}
  BY DEF Dropped
<1>5. Settled(downlink \o queue', good, bad, now)
  BY <1>1, <1>2, <1>3, <1>4, SettledDrop
<1> QED BY <1>5 DEF Ordered

-----------------------------------------------------------------------------
(* What a tick may send.                                                    *)
Sends == Commands \ {"E"}
Calm == Harmless \ {"E"}

(* A tick under an E-stop sends E if it has not or must again, and nothing  *)
(* else.                                                                    *)
HeldTick ==
    /\ estop /\ latched' /\ ~resend' /\ restSent' = restSent /\ imuHandled' = imuHandled
    /\ out' = <<"E">> \/ (out' = <<>> /\ latched /\ ~resend)

(* A tick that is not held down by anything takes back an E-stop and        *)
(* forgets rest and fault.                                                  *)
FreeTick ==
    /\ ~estop /\ ~latched' /\ ~restSent' /\ ~imuHandled'
    /\ out' \in Seq(Sends) /\ (latched => "R" \in ToSet(out'))

(* A tick held down by a fault, a fall or a rest sends nothing that powers  *)
(* the legs, and remembers an O only once it is sent.                       *)
GuardTick ==
    /\ ~estop /\ ~latched'
    /\ out' \in Seq(Calm) /\ (latched => "R" \in ToSet(out'))
    /\ restSent' \/ imuHandled' => restSent \/ imuHandled \/ "O" \in ToSet(out')

(* What a tick puts ahead of its branch is calm, and R is in it after an    *)
(* E-stop.                                                                  *)
LEMMA AheadCalm ==
    ASSUME OutboxTuning PROVE Ahead \in Seq(Calm) /\ (latched => "R" \in ToSet(Ahead))
<1>1. \A i \in 1..Len(outbox) : outbox[i] \in Calm
  BY DEF OutboxTuning, Calm, Harmless, Tuning
<1>2. outbox \in Seq(Calm)
  BY <1>1 DEF OutboxTuning
<1>3. <<"R">> \in Seq(Calm) /\ "R" \in ToSet(<<"R">>)
  BY DEF Calm, Harmless, ToSet
<1> QED BY <1>2, <1>3 DEF Ahead

(* The elements of a concatenation are those of its parts.                  *)
LEMMA ToSetConcat ==
    ASSUME NEW S, NEW s \in Seq(S), NEW t \in Seq(S)
    PROVE  ToSet(s \o t) = ToSet(s) \cup ToSet(t)
<1>1. s \o t \in Seq(S)
  OBVIOUS
<1>2. ASSUME NEW e \in ToSet(s \o t) PROVE e \in ToSet(s) \cup ToSet(t)
  <2>1. PICK i \in 1..Len(s \o t) : (s \o t)[i] = e
    BY <1>1, <1>2, InToSet
  <2>2. CASE i <= Len(s)
    BY <2>1, <2>2, ConcatAt, InToSet
  <2>3. CASE i > Len(s)
    <3>1. i \in (Len(s) + 1)..Len(s \o t)
      BY <2>3, ConcatAt
    <3> QED BY <2>1, <3>1, ConcatAt, InToSet
  <2> QED BY <2>1, <2>2, <2>3, ConcatAt
<1>3. ASSUME NEW e \in ToSet(s) PROVE e \in ToSet(s \o t)
  <2>1. PICK i \in 1..Len(s) : s[i] = e
    BY <1>3, InToSet
  <2>2. i \in 1..Len(s \o t) /\ (s \o t)[i] = e
    BY <2>1, ConcatAt
  <2> QED BY <1>1, <2>2, InToSet
<1>4. ASSUME NEW e \in ToSet(t) PROVE e \in ToSet(s \o t)
  <2>1. PICK i \in 1..Len(t) : t[i] = e
    BY <1>4, InToSet
  <2>2. Len(s) + i \in 1..Len(s \o t) /\ (s \o t)[Len(s) + i] = e
    BY <2>1, ConcatAt
  <2> QED BY <1>1, <2>2, InToSet
<1> QED BY <1>2, <1>3, <1>4

(* Concatenation is associative.                                            *)
LEMMA ConcatGroups ==
    ASSUME NEW S, NEW s \in Seq(S), NEW t \in Seq(S), NEW u \in Seq(S)
    PROVE  s \o t \o u = s \o (t \o u)
OBVIOUS

(* Every tick is held by the E-stop, held back by a guard, or free.         *)
LEMMA TickSends ==
    ASSUME OutboxTuning, Tick PROVE HeldTick \/ FreeTick \/ GuardTick
<1> DEFINE Marked(s) == latched => "R" \in ToSet(s)
<1>1. CASE EStopBranch
  <2>1. estop /\ latched' /\ ~resend' /\ restSent' = restSent /\ imuHandled' = imuHandled
    BY <1>1, Zenon DEF EStopBranch, HoldEStop, Latch, restVars, imuVars
  <2>2. out' = <<"E">> \/ (out' = <<>> /\ latched /\ ~resend)
    BY <1>1, Zenon DEF EStopBranch, HoldEStop, Latch
  <2> QED BY <2>1, <2>2 DEF HeldTick
<1>2. \A s \in Seq(Calm) : Ahead \o s \in Seq(Calm) /\ Marked(Ahead \o s)
  <2> TAKE s \in Seq(Calm)
  <2>1. Ahead \in Seq(Calm) /\ Marked(Ahead)
    BY AheadCalm
  <2> QED BY <2>1, ToSetConcat
<1>3. /\ <<>> \in Seq(Calm) /\ <<"O">> \in Seq(Calm)
      /\ <<"I">> \in Seq(Calm) /\ <<"O", "I">> \in Seq(Calm)
  BY DEF Calm, Harmless, Tuning
<1>4. ASSUME Released PROVE ~estop /\ ~latched'
  BY <1>4 DEF Released
<1>5. \A s, t \in Seq(Calm) : ToSet(s \o t) = ToSet(s) \cup ToSet(t)
  BY ToSetConcat
<1>6. "O" \in ToSet(<<"O">>)
  BY DEF ToSet
<1>7. CASE Released /\ ImuFaultBranch
  <2> DEFINE relax == ~imuHandled \/ standing
  <2>1. out' = Ahead \o Relax(relax) \o Retry
    BY <1>7 DEF ImuFaultBranch
  <2>2. Relax(relax) \in Seq(Calm) /\ Retry \in Seq(Calm) /\ Ahead \in Seq(Calm)
    BY <1>3, AheadCalm DEF Relax, Retry
  <2> HIDE DEF relax
  <2>3. out' = Ahead \o (Relax(relax) \o Retry) /\ Relax(relax) \o Retry \in Seq(Calm)
    BY <2>1, <2>2, ConcatGroups
  <2>4. imuHandled \/ "O" \in ToSet(out')
    <3>1. CASE ~imuHandled
      <4>1. Relax(relax) = <<"O">>
        BY <3>1 DEF Relax, relax
      <4>2. "O" \in ToSet(Relax(relax))
        BY <1>6, <4>1
      <4>3. "O" \in ToSet(Relax(relax) \o Retry)
        BY <1>5, <2>2, <4>2
      <4> QED BY <1>5, <2>2, <2>3, <4>3
    <3> QED BY <3>1
  <2> QED BY <1>2, <1>4, <1>7, <2>2, <2>3, <2>4 DEF GuardTick
<1>8. CASE Released /\ FallenBranch
  <2>1. out' = Ahead /\ ~imuHandled' /\ restSent' = restSent
    BY <1>8, Zenon DEF FallenBranch, restVars
  <2> QED BY <1>4, <1>8, <2>1, AheadCalm DEF GuardTick
<1>9. CASE Released /\ RestBranch
  <2>1. out' = Ahead \o Relax(~restSent) /\ ~imuHandled'
    BY <1>9, Zenon DEF RestBranch
  <2>2. Relax(~restSent) \in Seq(Calm) /\ Ahead \in Seq(Calm)
    BY <1>3, AheadCalm DEF Relax
  <2>3. restSent \/ "O" \in ToSet(out')
    <3>1. ~restSent => "O" \in ToSet(Relax(~restSent))
      BY <1>6 DEF Relax
    <3>2. ToSet(Ahead \o Relax(~restSent)) = ToSet(Ahead) \cup ToSet(Relax(~restSent))
      BY <1>5, <2>2
    <3> QED BY <2>1, <3>1, <3>2
  <2> QED BY <1>2, <1>4, <1>9, <2>1, <2>2, <2>3 DEF GuardTick
<1>10. CASE Released /\ (ConversationBranch \/ PostureBranch \/ WalkBranch \/ IdleBranch)
  <2>1. ~restSent' /\ ~imuHandled'
    BY <1>10, Zenon DEF ConversationBranch, PostureBranch, WalkBranch, IdleBranch, Free
  <2>2. /\ <<>> \in Seq(Sends) /\ <<"S">> \in Seq(Sends) /\ <<"W">> \in Seq(Sends)
        /\ <<"W0">> \in Seq(Sends) /\ <<"G">> \in Seq(Sends)
    BY DEF Sends, Commands, Tuning
  <2>3. RequestStand \in Seq(Sends) /\ EnsureStanding \in Seq(Sends)
    BY <2>2 DEF RequestStand, EnsureStanding
  <2>4. \A i \in 1..Len(Ahead) : Ahead[i] \in Sends
    BY AheadCalm DEF Calm, Harmless, Sends, Commands
  <2>5. Ahead \in Seq(Sends) /\ Marked(Ahead)
    BY <2>4, AheadCalm
  <2>6. PICK s \in Seq(Sends) : out' = Ahead \o s
    <3>1. CASE ConversationBranch \/ IdleBranch
      BY <2>3, <3>1, Zenon DEF ConversationBranch, IdleBranch
    <3>2. CASE PostureBranch
      <4> DEFINE g == IF alertNew /\ standing THEN <<"G">> ELSE <<>>
      <4>1. out' = Ahead \o EnsureStanding \o g
        BY <3>2 DEF PostureBranch
      <4>2. g \in Seq(Sends)
        BY <2>2
      <4> HIDE DEF g
      <4>3. EnsureStanding \o g \in Seq(Sends)
        BY <2>3, <4>2
      <4>4. out' = Ahead \o (EnsureStanding \o g)
        BY <2>3, <2>5, <4>1, <4>2, ConcatGroups
      <4> QED BY <4>3, <4>4
    <3>3. CASE WalkBranch
      <4> DEFINE w == IF standing /\ (~walking \/ beat = 0) THEN <<"W">>
                      ELSE IF standing THEN <<>> ELSE RequestStand
      <4>1. out' = Ahead \o w
        BY <3>3 DEF WalkBranch
      <4>2. w \in Seq(Sends)
        BY <2>2, <2>3
      <4> QED BY <4>1, <4>2
    <3> QED BY <1>10, <3>1, <3>2, <3>3
  <2>7. out' \in Seq(Sends) /\ Marked(out')
    BY <2>6, <2>5, ToSetConcat
  <2> QED BY <1>4, <1>10, <2>1, <2>7 DEF FreeTick
<1> QED BY <1>1, <1>7, <1>8, <1>9, <1>10 DEF Tick, Released

-----------------------------------------------------------------------------
(* The invariants.  What the tree has sent once is executed last of what    *)
(* could undo it, or has taken effect and nothing that undoes it is under   *)
(* way.                                                                     *)

(* E: no R is behind it; or the banner or reconnection that has it sent     *)
(* again is still to come.                                                  *)
EStopInv ==
    held => /\ estop /\ latched
            /\ queue = <<>> \/ queue = <<"E">>
            /\ \/ Settled(Ordered, {"E"}, {"R"}, stopLatch)
               \/ resend \/ port = "closed" \/ port = "opening" \/ BannerComes

(* E or O, for a rest or an IMU fault: no S is behind it.                   *)
RelaxInv ==
    restSent \/ imuHandled =>
        lost \cap {"E", "O"} # {} \/ Settled(Ordered, {"E", "O"}, {"S"}, ~power)

(* R, after an E-stop: no E is behind it.                                   *)
ReleaseInv == latched \/ "R" \in lost \/ Settled(Ordered, {"R"}, {"E"}, ~stopLatch)

(* Steps the tree does not see.                                             *)
LEMMA StillTree ==
    ASSUME Still
    PROVE  /\ estop' = estop /\ latched' = latched /\ resend' = resend
           /\ restSent' = restSent /\ imuHandled' = imuHandled /\ standing' = standing
           /\ held' = held
BY Zenon DEF Still, Ignored, estopVars, restVars, imuVars, legVars

(* No MQTT message but "clear" ends an E-stop, and none touches what the    *)
(* tree remembers of the commands it has sent.                              *)
LEMMA MessageTree ==
    ASSUME NEW m, Message(m)
    PROVE  /\ latched' = latched /\ resend' = resend
           /\ restSent' = restSent /\ imuHandled' = imuHandled /\ standing' = standing
           /\ m # "clear" => (estop => estop')
<1>1. CASE Refused(m)
  BY <1>1, Zenon DEF Message, Ignored, estopVars, restVars, imuVars, legVars
<1>2. CASE ~Refused(m)
  <2>1. Accept(m)
    BY <1>2 DEF Message
  <2>2. latched' = latched /\ resend' = resend
    BY <2>1, Zenon DEF Accept, Error, Clear, Stand, Rest, Stop, WalkFor, QueueRaw, Gains, Calibrate,
                WakeFlag, PostureState, estopVars
  <2>3. restSent' = restSent /\ imuHandled' = imuHandled
    BY <2>1, Zenon DEF Accept, Error, Clear, Stand, Rest, Stop, WalkFor, QueueRaw, Gains, Calibrate,
                WakeFlag, PostureState, restVars, imuVars
  <2>4. standing' = standing
    BY MessageLegs
  <2>5. m # "clear" => (estop => estop')
    BY <2>1, Zenon DEF Accept, Error, Clear, Stand, Rest, Stop, WalkFor, QueueRaw, Gains, Calibrate,
                WakeFlag, PostureState, estopVars
  <2> QED BY <2>2, <2>3, <2>4, <2>5
<1> QED BY <1>1, <1>2

(* Nor does a line of the controller; its banner has the E-stop sent again. *)
LEMMA LineTree ==
    ASSUME NEW l, SerialLine(l)
    PROVE  /\ estop' = estop /\ latched' = latched
           /\ restSent' = restSent /\ imuHandled' = imuHandled
           /\ resend' = resend \/ resend' = estop
           /\ l.kind = "READY" => resend' = estop
<1>1. restSent' = restSent
  BY Zenon DEF SerialLine, restVars
<1>2. estop' = estop /\ latched' = latched /\ imuHandled' = imuHandled
  BY Zenon DEF SerialLine, Ready, AckStand, AckImu, AckOff, Fell, ImuFailed, Watchdog,
     NotBalancing, estopVars, imuVars
<1>3. resend' = resend \/ resend' = estop
  BY Zenon DEF SerialLine, Ready, NanoReset, AckStand, AckImu, AckOff, Fell, ImuFailed, Watchdog,
     NotBalancing, estopVars
<1>4. l.kind = "READY" => resend' = estop
  BY SMT DEF SerialLine, Ready, NanoReset, IsFall, IsImuFail, IsRefusedMove, IsUnused
<1> QED BY <1>1, <1>2, <1>3, <1>4

(* What a command does to the power and to the latch of the controller.     *)
LEMMA ExecuteEffect ==
    ASSUME LinkTypes, Execute
    PROVE  /\ downlink # <<>> /\ downlink' = Tail(downlink) /\ queue' = queue
           /\ lost' = lost /\ port' = port /\ Still
           /\ Head(downlink) \in {"E", "O"} => ~power'
           /\ Head(downlink) # "S" => (power' => power)
           /\ Head(downlink) = "E" => stopLatch'
           /\ Head(downlink) # "E" => (stopLatch' => stopLatch)
           /\ Head(downlink) = "R" => ~stopLatch'
           /\ Head(downlink) # "R" => (stopLatch => stopLatch')
<1>1. /\ downlink # <<>> /\ downlink' = Tail(downlink) /\ queue' = queue
      /\ lost' = lost /\ port' = port /\ Still
  BY DEF Execute
<1> DEFINE c == Head(downlink)
<1>2. Obeys(c)
  BY DEF Execute
<1>3. CASE c = "S" /\ (Stands \/ StandRefused)
  BY <1>1, <1>3 DEF Stands, StandRefused, Leg!Energise, ctlVars
<1>4. CASE c = "O" /\ Leg!Cut
  BY <1>1, <1>4 DEF Leg!Cut
<1>5. CASE c = "E" /\ Leg!EStop
  BY <1>1, <1>5 DEF Leg!EStop
<1>6. CASE c = "R" /\ Leg!Release
  BY <1>1, <1>6 DEF Leg!Release
<1>7. CASE c = "I" /\ ProbesImu
  BY <1>1, <1>7 DEF ProbesImu
<1>8. CASE c \in {"P", "G", "T", "D", "K", "C"} /\ Serves(c)
  BY <1>1, <1>8 DEF Serves, ctlVars
<1> QED BY <1>2, <1>3, <1>4, <1>5, <1>6, <1>7, <1>8 DEF Obeys

(* The link keeps its types.                                                *)
LEMMA LinkTypesKept ==
    ASSUME TreeInv, LinkTypes, [RobotNext]_rvars PROVE LinkTypes'
<1> USE DEF LinkTypes
<1>1. <<>> \in Seq(Cmds) /\ <<>> \in Seq(LineSet) /\ "P" \in Cmds
  BY DEF Cmds
<1>2. Banner \in LineSet /\ <<Banner>> \in Seq(LineSet)
  <2>1. Banner \in LineSet
    BY DEF Banner, Line, LineSet, Infos
  <2> QED BY <2>1
<1>3. ASSUME NEW k \in {"ACK", "NACK"},
             NEW i \in {"none", "NOIMU", "ESTOP", "TILTED", "MODE", "REFUSED"},
             downlink # <<>>, Reply(k, i)
      PROVE  uplink' \in Seq(LineSet)
  <2>1. Line(k, Head(downlink), i) \in LineSet
    BY <1>3 DEF Line, LineSet, Infos
  <2> QED BY <1>3, <2>1 DEF Reply
<1>4. CASE RobotTick
  <2>1. out' \in Seq(Cmds)
    <3>1. out' \in Seq(Sends) \/ out' \in Seq(Calm) \/ out' = <<"E">> \/ out' = <<>>
      BY <1>4, TickSends DEF RobotTick, HeldTick, FreeTick, GuardTick, TreeInv
    <3>2. Sends \subseteq Cmds /\ Calm \subseteq Cmds /\ "E" \in Cmds
      BY DEF Sends, Calm, Harmless, Cmds, Commands
    <3>3. \A s \in Seq(Sends) \cup Seq(Calm) : \A i \in 1..Len(s) : s[i] \in Cmds
      BY <3>2
    <3>4. \A s \in Seq(Sends) \cup Seq(Calm) : s \in Seq(Cmds)
      BY <3>3
    <3>5. <<"E">> \in Seq(Cmds)
      BY <3>2
    <3> QED BY <1>1, <3>1, <3>4, <3>5
  <2>2. queue \o out' \in Seq(Cmds)
    BY <2>1
  <2>3. queue' \in Seq(Cmds)
    <3>1. Newest(queue \o out') \in Seq(Cmds)
      BY <2>2, NewestIs
    <3> QED BY <1>4, <2>1, <3>1 DEF RobotTick, Offered
  <2> QED BY <1>4, <2>3 DEF RobotTick, ctlVars
<1>5. CASE \E m \in Messages : RobotMessage(m)
  BY <1>5 DEF RobotMessage, linkVars, ctlVars
<1>6. CASE Open
  <2>1. uplink' = <<Banner>> \/ uplink' = <<>>
    BY <1>6, Zenon DEF Open
  <2>2. downlink' \in Seq(Cmds) /\ power' \in BOOLEAN /\ stopLatch' \in BOOLEAN
    BY <1>1, <1>6 DEF Open, Boots, Leg!Reset, ctlVars
  <2>3. queue' = queue
    BY <1>6, Zenon DEF Open
  <2> QED BY <1>1, <1>2, <2>1, <2>2, <2>3
<1>7. CASE WaitLine \/ ReadLine \/ Timeout
  <2>1. /\ (uplink' = Tail(uplink) /\ uplink # <<>>) \/ uplink' = uplink
        /\ queue' = queue /\ downlink' = downlink /\ power' = power /\ stopLatch' = stopLatch
    BY <1>7, Zenon DEF WaitLine, ReadLine, Timeout, ctlVars
  <2>2. uplink # <<>> => Tail(uplink) \in Seq(LineSet)
    OBVIOUS
  <2>3. uplink' \in Seq(LineSet)
    BY <2>1, <2>2
  <2> QED BY <2>1, <2>3, Zenon
<1>8. CASE Connect \/ Resume
  BY <1>1, <1>8 DEF Connect, Resume, Discard, ctlVars
<1>9. CASE Take
  BY <1>1, <1>9 DEF Take, ctlVars
<1>10. CASE PortFails
  BY <1>1, <1>10 DEF PortFails, ctlVars
<1>11. CASE Execute
  <2>1. downlink' \in Seq(Cmds) /\ queue' \in Seq(Cmds)
    BY <1>11 DEF Execute
  <2>2. downlink # <<>> /\ Obeys(Head(downlink))
    BY <1>11 DEF Execute
  <2>3. uplink' \in Seq(LineSet)
    BY <1>3, <2>2 DEF Obeys, Stands, StandRefused, ProbesImu, Serves
  <2>4. power' \in BOOLEAN /\ stopLatch' \in BOOLEAN
    BY <2>2 DEF Obeys, Stands, StandRefused, ProbesImu, Serves, ctlVars,
       Leg!Energise, Leg!Cut, Leg!EStop, Leg!Release
  <2> QED BY <2>1, <2>3, <2>4
<1>12. CASE Incident
  <2>1. Line("EVT", "none", "FALLEN") \in LineSet /\ Line("EVT", "none", "IMU_FAIL") \in LineSet
    BY DEF Line, LineSet, Infos
  <2>2. \/ uplink' = Append(uplink, Line("EVT", "none", "FALLEN"))
        \/ uplink' = Append(uplink, Line("EVT", "none", "IMU_FAIL"))
    BY <1>12, Zenon DEF Incident, Report
  <2>3. power' \in BOOLEAN /\ stopLatch' \in BOOLEAN
    BY <1>12 DEF Incident, Leg!Cut, Leg!Halt
  <2>4. queue' = queue /\ downlink' = downlink
    BY <1>12, Zenon DEF Incident
  <2>5. \A l \in LineSet : Append(uplink, l) \in Seq(LineSet)
    OBVIOUS
  <2>6. uplink' \in Seq(LineSet)
    BY <2>1, <2>2, <2>5, Zenon
  <2>7. queue' \in Seq(Cmds) /\ downlink' \in Seq(Cmds)
    BY <2>4
  <2> QED BY <2>3, <2>6, <2>7, Zenon
<1>13. CASE SelfReset
  <2>1. uplink' = Append(uplink, Banner) /\ queue' = queue /\ downlink' = <<>>
    BY <1>13, Zenon DEF SelfReset, Boots
  <2>2. Append(uplink, Banner) \in Seq(LineSet)
    BY <1>2
  <2>3. power' \in BOOLEAN /\ stopLatch' \in BOOLEAN
    BY <1>13 DEF SelfReset, Boots, Leg!Reset
  <2> QED BY <1>1, <2>1, <2>2, <2>3
<1>14. CASE UNCHANGED rvars
  BY <1>14 DEF rvars, linkVars, ctlVars
<1> QED
  BY <1>4, <1>5, <1>6, <1>7, <1>8, <1>9, <1>10, <1>11, <1>12, <1>13, <1>14 DEF RobotNext, SerialTask


(* A controller that boots has its servos off and its latch open.           *)
LEMMA BootsEffect ==
    ASSUME Boots PROVE downlink' = <<>> /\ ~power' /\ ~stopLatch'
BY DEF Boots, Leg!Reset

(* A tick, as the link sees it.                                             *)
LEMMA TickOrder ==
    ASSUME LinkTypes, RobotTick, TreeInv
    PROVE  /\ downlink' = downlink /\ power' = power /\ stopLatch' = stopLatch /\ port' = port
           /\ uplink' = uplink /\ held' = (estop /\ (held \/ ~latched))
           /\ HeldTick \/ FreeTick \/ GuardTick
           /\ out' = <<"E">> => queue' = <<"E">>
           /\ out' # <<"E">> =>
                 /\ queue' = Newest(queue \o out')
                 /\ lost' = (lost \ MadeUp(ToSet(out'))) \cup Dropped(queue \o out', queue')
<1>1. /\ downlink' = downlink /\ power' = power /\ stopLatch' = stopLatch /\ port' = port
      /\ uplink' = uplink /\ held' = (estop /\ (held \/ ~latched))
  BY DEF RobotTick, ctlVars
<1>2. HeldTick \/ FreeTick \/ GuardTick
  BY TickSends DEF RobotTick, TreeInv
<1>3. queue' = IF out' = <<"E">> THEN out' ELSE Newest(queue \o out')
  BY DEF RobotTick, Offered
<1>4. ASSUME out' # <<"E">> PROVE ~Emits("E")
  <2>1. out' \in Seq(Sends) \/ out' \in Seq(Calm) \/ out' = <<>>
    BY <1>2, <1>4 DEF HeldTick, FreeTick, GuardTick
  <2>2. "E" \notin Sends /\ "E" \notin Calm
    BY DEF Sends, Calm
  <2> QED BY <2>1, <2>2 DEF Emits
<1>5. lost' = (lost \ MadeUp(ToSet(out')))
                \cup (IF Emits("E") THEN {} ELSE Dropped(queue \o out', queue'))
  BY DEF RobotTick
<1> QED BY <1>1, <1>2, <1>3, <1>4, <1>5

(* What the other steps do to the commands under way and to the tree's      *)
(* memory of what it has sent.                                              *)
Same == downlink' = downlink /\ queue' = queue /\ lost' = lost
Booted == queue' = queue /\ lost' = lost /\ downlink' = <<>> /\ ~power' /\ ~stopLatch'
Unplugged == queue' = queue /\ downlink' = <<>> /\ lost' = lost \cup Dropped(downlink, <<>>)
PowerSame == power' = power /\ stopLatch' = stopLatch

(* Every other step, as the commands under way see it.                      *)
LEMMA LinkStep ==
    ASSUME [RobotNext]_rvars, ~RobotTick
    PROVE  /\ latched' = latched /\ restSent' = restSent /\ imuHandled' = imuHandled
           /\ \/ Same /\ (power' => power) /\ stopLatch' = stopLatch
              \/ Booted
              \/ Discard /\ downlink' = downlink /\ PowerSame
              \/ Take /\ lost' = lost /\ PowerSame
              \/ Execute
              \/ Unplugged /\ PowerSame
<1> DEFINE Remembers == latched' = latched /\ restSent' = restSent /\ imuHandled' = imuHandled
<1>1. CASE \E m \in Messages : RobotMessage(m)
  <2>1. PICK m \in Messages : RobotMessage(m)
    BY <1>1
  <2>2. Remembers
    BY <2>1, MessageTree DEF RobotMessage
  <2>3. Same /\ PowerSame
    BY <2>1, Zenon DEF RobotMessage, linkVars, ctlVars, Same, PowerSame
  <2> QED BY <2>2, <2>3 DEF PowerSame
<1>2. CASE Open
  <2>1. Remembers
    BY <1>2, StillTree DEF Open
  <2>2. queue' = queue /\ lost' = lost /\ (Boots \/ (downlink' = downlink /\ PowerSame))
    BY <1>2, Zenon DEF Open, ctlVars, PowerSame
  <2> QED BY <2>1, <2>2, BootsEffect DEF Same, Booted, PowerSame
<1>3. CASE WaitLine \/ Timeout
  <2>1. Remembers
    BY <1>3, StillTree DEF WaitLine, Timeout
  <2>2. Same /\ PowerSame
    BY <1>3, Zenon DEF WaitLine, Timeout, ctlVars, Same, PowerSame
  <2> QED BY <2>1, <2>2 DEF PowerSame
<1>4. CASE ReadLine
  <2>1. Remembers
    BY <1>4, LineTree DEF ReadLine
  <2>2. Same /\ PowerSame
    BY <1>4, Zenon DEF ReadLine, ctlVars, Same, PowerSame
  <2> QED BY <2>1, <2>2 DEF PowerSame
<1>5. CASE Connect \/ Resume
  <2>1. Connected => Remembers
    BY Zenon DEF Connected, restVars, imuVars
  <2>2. Remembers
    BY <1>5, <2>1, LineTree DEF Connect, Resume
  <2>3. Discard /\ downlink' = downlink /\ PowerSame
    BY <1>5, Zenon DEF Connect, Resume, ctlVars, PowerSame
  <2> QED BY <2>2, <2>3
<1>6. CASE Take
  <2>1. Remembers
    BY <1>6, StillTree DEF Take
  <2>2. lost' = lost /\ PowerSame
    BY <1>6, Zenon DEF Take, ctlVars, PowerSame
  <2> QED BY <1>6, <2>1, <2>2
<1>7. CASE PortFails
  <2>1. Remembers
    BY <1>7, StillTree DEF PortFails
  <2>2. queue' = queue /\ PowerSame /\ (Same \/ Unplugged)
    BY <1>7, Zenon DEF PortFails, ctlVars, Same, Unplugged, PowerSame
  <2> QED BY <2>1, <2>2 DEF PowerSame
<1>8. CASE Execute
  BY <1>8, StillTree DEF Execute
<1>9. CASE Incident
  <2>1. Remembers
    BY <1>9, StillTree DEF Incident
  <2>2. Same
    BY <1>9, Zenon DEF Incident, Same
  <2>3. (power' => power) /\ stopLatch' = stopLatch
    <3>1. Leg!Cut \/ Leg!Halt
      BY <1>9, Zenon DEF Incident
    <3> QED BY <3>1 DEF Leg!Cut, Leg!Halt
  <2> QED BY <2>1, <2>2, <2>3
<1>10. CASE SelfReset
  <2>1. Remembers
    BY <1>10, StillTree DEF SelfReset
  <2>2. queue' = queue /\ lost' = lost /\ Boots
    BY <1>10, Zenon DEF SelfReset
  <2> QED BY <2>1, <2>2, BootsEffect DEF Booted
<1>11. CASE UNCHANGED rvars
  <2>1. Remembers
    BY <1>11, Zenon DEF rvars, vars, estopVars, restVars, imuVars
  <2>2. Same /\ PowerSame
    BY <1>11, Zenon DEF rvars, linkVars, ctlVars, Same, PowerSame
  <2> QED BY <2>1, <2>2 DEF PowerSame
<1> QED
  BY <1>1, <1>2, <1>3, <1>4, <1>5, <1>6, <1>7, <1>8, <1>9, <1>10, <1>11 DEF RobotNext, SerialTask

(* None of these steps unsettles what is settled.                           *)
LEMMA OrderKept ==
    ASSUME LinkTypes, [RobotNext]_rvars, ~RobotTick,
           NEW good \in SUBSET Once, NEW bad, "P" \notin bad, NEW now, NEW soon,
           Settled(Ordered, good, bad, now), lost' \cap good = {},
           (power' => power) /\ (stopLatch' => stopLatch) /\ now => soon,
           ~power' /\ ~stopLatch' => soon,
           Execute => (Head(downlink) \in good => soon),
           Execute => (now /\ Head(downlink) \notin bad => soon)
    PROVE  Settled(Ordered', good, bad, soon)
<1>1. ASSUME Settled(Ordered', good, bad, now), now => soon PROVE Settled(Ordered', good, bad, soon)
  BY <1>1 DEF Settled
<1>2. CASE Same /\ (power' => power) /\ stopLatch' = stopLatch
  <2>1. Ordered' = Ordered
    BY <1>2 DEF Same, Ordered
  <2> QED BY <1>1, <1>2, <2>1
<1>3. CASE Booted
  BY <1>3, OrderCut DEF Booted
<1>4. CASE Discard /\ downlink' = downlink /\ PowerSame
  BY <1>1, <1>4, OrderDiscarded DEF PowerSame
<1>5. CASE Take /\ lost' = lost /\ PowerSame
  BY <1>1, <1>5, OrderTaken DEF PowerSame
<1>6. CASE Execute
  BY <1>6, ExecuteEffect, OrderExecuted
<1>7. CASE Unplugged /\ PowerSame
  <2>1. now => soon
    BY <1>7 DEF PowerSame
  <2>2. good \cap ToSet(downlink) = {}
    <3>1. ToSet(<<>>) = {}
      BY DEF ToSet
    <3> QED BY <1>7, <3>1 DEF Unplugged, Dropped
  <2> QED BY <1>7, <2>1, <2>2, OrderCut DEF Unplugged
<1> QED BY <1>2, <1>3, <1>4, <1>5, <1>6, <1>7, LinkStep

(* A tick that sends nothing bad, and either something good or nothing that *)
(* would make up for a loss of it.                                          *)
LEMMA OrderTick ==
    ASSUME LinkTypes, TreeInv, RobotTick, out' \in Seq(Cmds), out' # <<"E">>,
           NEW good \in SUBSET Once, NEW bad, NEW now,
           lost' \cap good = {}, NoneAfter(out', 0, bad),
           \/ good \cap ToSet(out') # {}
           \/ /\ good \cap MadeUp(ToSet(out')) = {}
              /\ lost \cap good = {} => Settled(Ordered, good, bad, now)
    PROVE  Settled(Ordered', good, bad, now)
<1>1. /\ downlink' = downlink /\ queue' = Newest(queue \o out')
      /\ lost' = (lost \ MadeUp(ToSet(out'))) \cup Dropped(queue \o out', queue')
  BY TickOrder
<1>2. good \cap Dropped(queue \o out', queue') = {}
  BY <1>1
<1>3. Ordered \in Seq(Cmds)
  BY DEF Ordered, LinkTypes
<1>4. Settled(Ordered \o out', good, bad, now)
  <2>1. CASE good \cap ToSet(out') # {}
    <3>1. PICK i \in 1..Len(out') : out'[i] \in good
      BY <2>1, InToSet
    <3> QED BY <1>3, <3>1, SettledNew
  <2>2. CASE /\ good \cap MadeUp(ToSet(out')) = {}
             /\ (lost \cap good = {} => Settled(Ordered, good, bad, now))
    <3>1. lost \cap good = {}
      BY <1>1, <2>2
    <3> QED BY <1>3, <2>2, <3>1, SettledAppend
  <2> QED BY <2>1, <2>2
<1> QED BY <1>1, <1>2, <1>4, OrderQueued

(* offer_urgent leaves the E-stop as the last command under way.            *)
LEMMA UrgentLast ==
    ASSUME LinkTypes, downlink' = downlink, queue' = <<"E">>, NEW good, "E" \in good,
           NEW bad, "E" \notin bad, NEW now
    PROVE  Settled(Ordered', good, bad, now)
<1>1. downlink \in Seq(Cmds) /\ <<"E">> \in Seq(Cmds)
  BY DEF LinkTypes, Cmds, Commands
<1>2. NoneAfter(<<"E">>, 0, bad) /\ 1 \in 1..Len(<<"E">>) /\ <<"E">>[1] \in good
  BY DEF NoneAfter
<1>3. Settled(downlink \o <<"E">>, good, bad, now)
  BY <1>1, <1>2, SettledNew
<1> QED BY <1>3 DEF Ordered

(* What a tick sends, by its elements.                                      *)
LEMMA OutElements ==
    ASSUME HeldTick \/ FreeTick \/ GuardTick, out' # <<"E">>
    PROVE  /\ out' \in Seq(Cmds) /\ NoneAfter(out', 0, {"E"}) /\ "E" \notin ToSet(out')
           /\ ~FreeTick => NoneAfter(out', 0, {"S"})
<1>1. out' \in Seq(Sends) \/ out' \in Seq(Calm) \/ out' = <<>>
  BY DEF HeldTick, FreeTick, GuardTick
<1>2. Sends \subseteq Cmds \ {"E"} /\ Calm \subseteq Cmds \ {"E", "S"}
  BY DEF Sends, Calm, Harmless, Cmds, Commands, Tuning
<1>3. \A i \in 1..Len(out') : out'[i] \in Cmds \ {"E"}
  BY <1>1, <1>2
<1>4. out' \in Seq(Cmds)
  <2>1. \A s \in Seq(Sends) \cup Seq(Calm) : \A i \in 1..Len(s) : s[i] \in Cmds
    BY <1>2
  <2>2. \A s \in Seq(Sends) \cup Seq(Calm) : s \in Seq(Cmds)
    BY <2>1
  <2>3. <<>> \in Seq(Cmds)
    OBVIOUS
  <2> QED BY <1>1, <2>2, <2>3
<1>5. NoneAfter(out', 0, {"E"})
  BY <1>3 DEF NoneAfter
<1>6. "E" \notin ToSet(out')
  BY <1>3, <1>4, InToSet
<1>7. ~FreeTick => NoneAfter(out', 0, {"S"})
  <2>1. ~FreeTick => out' \in Seq(Calm) \/ out' = <<>>
    BY DEF HeldTick, GuardTick
  <2> QED BY <1>2, <2>1 DEF NoneAfter
<1> QED BY <1>4, <1>5, <1>6, <1>7

(* What was sent to relax the robot is not overtaken by a stand.            *)
LEMMA RelaxKept ==
    ASSUME TreeInv, LinkTypes, RelaxInv, [RobotNext]_rvars PROVE RelaxInv'
<1> DEFINE good == {"E", "O"}
<1> SUFFICES ASSUME restSent' \/ imuHandled', lost' \cap good = {}
             PROVE  Settled(Ordered', good, {"S"}, ~power')
  BY DEF RelaxInv
<1>1. good \in SUBSET Once /\ "P" \notin {"S"}
  BY DEF Once
<1>2. CASE RobotTick
  <2>1. (HeldTick \/ GuardTick) /\ power' = power
    BY <1>2, TickOrder DEF FreeTick
  <2>2. CASE out' = <<"E">>
    BY <1>2, <2>2, TickOrder, UrgentLast
  <2>3. CASE out' # <<"E">>
    <3>1. /\ out' \in Seq(Cmds) /\ "E" \notin ToSet(out')
          /\ ~FreeTick => NoneAfter(out', 0, {"S"})
      BY <2>1, <2>3, OutElements
    <3>2. ~FreeTick
      BY DEF FreeTick
    <3>3. "O" \in ToSet(out') \/ restSent \/ imuHandled
      BY <2>1, <2>3 DEF HeldTick, GuardTick
    <3>4. "O" \notin ToSet(out') => good \cap MadeUp(ToSet(out')) = {}
      BY <3>1 DEF MadeUp
    <3>5. "O" \notin ToSet(out') => (lost \cap good = {} => Settled(Ordered, good, {"S"}, ~power))
      BY <3>3 DEF RelaxInv
    <3>6. Settled(Ordered', good, {"S"}, ~power)
      BY <1>1, <1>2, <2>3, <3>1, <3>2, <3>4, <3>5, OrderTick
    <3> QED BY <2>1, <3>6
  <2> QED BY <2>2, <2>3
<1>3. CASE ~RobotTick
  <2>1. restSent \/ imuHandled
    BY <1>3, LinkStep
  <2>2. lost \subseteq lost'
    BY <1>3, LinkStep, ExecuteEffect DEF Same, Booted, Discard, Unplugged
  <2>3. Settled(Ordered, good, {"S"}, ~power)
    BY <2>1, <2>2 DEF RelaxInv
  <2>4. Execute => /\ Head(downlink) \in good => ~power'
                   /\ Head(downlink) # "S" => (power' => power)
    BY ExecuteEffect
  <2> HIDE DEF good
  <2> QED BY <1>1, <1>3, <2>3, <2>4, OrderKept
<1> QED BY <1>2, <1>3

(* The release is not overtaken by an E-stop.                               *)
LEMMA ReleaseKept ==
    ASSUME TreeInv, LinkTypes, ReleaseInv, [RobotNext]_rvars PROVE ReleaseInv'
<1> SUFFICES ASSUME ~latched', "R" \notin lost'
             PROVE  Settled(Ordered', {"R"}, {"E"}, ~stopLatch')
  BY DEF ReleaseInv
<1>1. {"R"} \in SUBSET Once /\ "P" \notin {"E"} /\ lost' \cap {"R"} = {}
  BY DEF Once
<1>2. CASE RobotTick
  <2>1. (FreeTick \/ GuardTick) /\ stopLatch' = stopLatch
    BY <1>2, TickOrder DEF HeldTick
  <2>2. out' # <<"E">>
    <3>1. out' \in Seq(Sends) \/ out' \in Seq(Calm)
      BY <2>1 DEF FreeTick, GuardTick
    <3>2. "E" \notin Sends /\ "E" \notin Calm
      BY DEF Sends, Calm
    <3> QED BY <3>1, <3>2
  <2>3. out' \in Seq(Cmds) /\ NoneAfter(out', 0, {"E"}) /\ "E" \notin ToSet(out')
    BY <2>1, <2>2, OutElements
  <2>4. latched => "R" \in ToSet(out')
    BY <2>1 DEF FreeTick, GuardTick
  <2>5. "R" \notin ToSet(out') => {"R"} \cap MadeUp(ToSet(out')) = {}
    BY <2>3 DEF MadeUp
  <2>6. "R" \notin ToSet(out') =>
           (lost \cap {"R"} = {} => Settled(Ordered, {"R"}, {"E"}, ~stopLatch))
    BY <2>4 DEF ReleaseInv
  <2>7. Settled(Ordered', {"R"}, {"E"}, ~stopLatch)
    BY <1>1, <1>2, <2>2, <2>3, <2>5, <2>6, OrderTick
  <2> QED BY <2>1, <2>7
<1>3. CASE ~RobotTick
  <2>1. ~latched
    BY <1>3, LinkStep
  <2>2. lost \subseteq lost'
    BY <1>3, LinkStep, ExecuteEffect DEF Same, Booted, Discard, Unplugged
  <2>3. Settled(Ordered, {"R"}, {"E"}, ~stopLatch)
    BY <2>1, <2>2 DEF ReleaseInv
  <2>4. Execute => /\ Head(downlink) = "R" => ~stopLatch'
                   /\ Head(downlink) # "E" => (stopLatch' => stopLatch)
    BY ExecuteEffect
  <2> QED BY <1>1, <1>3, <2>3, <2>4, OrderKept
<1> QED BY <1>2, <1>3

-----------------------------------------------------------------------------
(* The lines on their way to the Pi.                                        *)

(* What the controller appends to them: if the power is off afterwards, the *)
(* answer is no ACK,S, and if it went off the answer says so.               *)
LEMMA ExecuteReply ==
    ASSUME LinkTypes, Execute
    PROVE  \E l \in LineSet : /\ uplink' = Append(uplink, l)
                              /\ ~power' => /\ ~(l.kind = "ACK" /\ l.cmd = "S")
                                            /\ power => Corrects(l)
<1>1. downlink # <<>> /\ Obeys(Head(downlink))
  BY DEF Execute
<1> DEFINE c == Head(downlink)
<1>2. c \in Cmds
  BY <1>1 DEF LinkTypes
<1>3. \A k \in {"ACK", "NACK"}, i \in {"none", "NOIMU", "ESTOP", "TILTED", "MODE", "REFUSED"} :
        /\ Line(k, c, i) \in LineSet
        /\ Line(k, c, i).kind = k /\ Line(k, c, i).cmd = c
  BY <1>2 DEF Line, LineSet, Infos
<1> DEFINE Good(l) == ~power' => /\ ~(l.kind = "ACK" /\ l.cmd = "S")
                                 /\ power => Corrects(l)
<1> HIDE DEF c
<1>4. ASSUME NEW k \in {"ACK", "NACK"},
             NEW i \in {"none", "NOIMU", "ESTOP", "TILTED", "MODE", "REFUSED"},
             uplink' = Append(uplink, Line(k, c, i)),
             ~power' => /\ ~(k = "ACK" /\ c = "S")
                        /\ power => \/ k = "ACK" /\ c \in {"O", "E"}
                                    \/ k = "NACK" /\ c = "S"
      PROVE  \E l \in LineSet : uplink' = Append(uplink, l) /\ Good(l)
  <2>1. Good(Line(k, c, i))
    BY <1>3, <1>4 DEF Corrects
  <2> QED BY <1>3, <1>4, <2>1
<1>5. CASE c = "S" /\ Stands
  <2>1. power'
    BY <1>5 DEF Stands, ctlVars, Leg!Energise
  <2>2. \/ uplink' = Append(uplink, Line("ACK", c, "NOIMU"))
        \/ uplink' = Append(uplink, Line("ACK", c, "none"))
    BY <1>5 DEF Stands, Reply, c
  <2> QED BY <1>4, <2>1, <2>2
<1>6. CASE c = "S" /\ StandRefused
  <2>1. \/ uplink' = Append(uplink, Line("NACK", c, "ESTOP"))
        \/ uplink' = Append(uplink, Line("NACK", c, "NOIMU"))
        \/ uplink' = Append(uplink, Line("NACK", c, "TILTED"))
    BY <1>6, Zenon DEF StandRefused, Reply, c
  <2> QED BY <1>4, <1>6, <2>1
<1>7. CASE c \in {"O", "E"} /\ Reply("ACK", "none")
  <2>1. uplink' = Append(uplink, Line("ACK", c, "none"))
    BY <1>7 DEF Reply, c
  <2> QED BY <1>4, <1>7, <2>1
<1>8. CASE c = "R" /\ Leg!Release /\ Reply("ACK", "none")
  <2>1. uplink' = Append(uplink, Line("ACK", c, "none")) /\ power' = power
    BY <1>8 DEF Reply, c, Leg!Release
  <2> QED BY <1>4, <1>8, <2>1
<1>9. CASE c = "I" /\ ProbesImu
  <2>1. power' = power
    BY <1>9 DEF ProbesImu
  <2>2. \/ uplink' = Append(uplink, Line("ACK", c, "none"))
        \/ uplink' = Append(uplink, Line("NACK", c, "MODE"))
        \/ uplink' = Append(uplink, Line("NACK", c, "NOIMU"))
    BY <1>9, Zenon DEF ProbesImu, Reply, c
  <2> QED BY <1>4, <1>9, <2>1, <2>2
<1>10. CASE c \in {"P", "G", "T", "D", "K", "C"} /\ Serves(c)
  <2>1. power' = power
    BY <1>10 DEF Serves, ctlVars
  <2>2. \/ uplink' = Append(uplink, Line("ACK", c, "none"))
        \/ uplink' = Append(uplink, Line("NACK", c, "REFUSED"))
    BY <1>10, Zenon DEF Serves, Reply, c
  <2> QED BY <1>4, <1>10, <2>1, <2>2
<1> QED BY <1>1, <1>5, <1>6, <1>7, <1>8, <1>9, <1>10 DEF Obeys, c

(* A latched E-stop is not overtaken by a release, and every step that      *)
(* loses it has the tree send it again.                                     *)
LEMMA EStopKept ==
    ASSUME TreeInv, LinkTypes, EStopInv, [RobotNext]_rvars PROVE EStopInv'
<1> DEFINE Sec == Settled(Ordered, {"E"}, {"R"}, stopLatch)
<1> SUFFICES ASSUME held'
             PROVE  /\ estop' /\ latched'
                    /\ queue' = <<>> \/ queue' = <<"E">>
                    /\ Sec' \/ resend' \/ port' = "closed" \/ port' = "opening" \/ BannerComes'
  BY DEF EStopInv
<1>1. CASE RobotTick
  <2>1. estop /\ held' = (held \/ ~latched) /\ HeldTick
    BY <1>1, TickOrder DEF FreeTick, GuardTick
  <2>2. estop' /\ latched'
    <3>1. estop' = estop
      BY <1>1, Zenon DEF RobotTick, Tick, EStopBranch, Released
    <3> QED BY <2>1, <3>1 DEF HeldTick
  <2>3. CASE out' = <<"E">>
    <3>1. queue' = <<"E">> /\ downlink' = downlink
      BY <1>1, <2>3, TickOrder
    <3>2. Settled(Ordered', {"E"}, {"R"}, stopLatch')
      BY <3>1, UrgentLast
    <3> QED BY <2>2, <3>1, <3>2
  <2>4. CASE out' # <<"E">>
    <3>1. out' = <<>> /\ latched /\ ~resend
      BY <2>1, <2>4 DEF HeldTick
    <3>2. held
      BY <2>1, <3>1
    <3>3. queue' = Newest(queue \o <<>>)
      BY <1>1, <2>4, <3>1, TickOrder
    <3>4. queue' = queue
      <4>1. queue \o <<>> = queue
        BY DEF LinkTypes
      <4>2. Len(queue) <= QueueMax
        <5>1. queue = <<>> \/ queue = <<"E">>
          BY <3>2, Zenon DEF EStopInv
        <5>2. Len(<<>>) = 0 /\ Len(<<"E">>) = 1 /\ QueueMax \in Nat /\ QueueMax # 0
          BY EmoRobotAssumption
        <5> QED BY <5>1, <5>2
      <4> QED BY <3>3, <4>1, <4>2 DEF Newest
    <3>5. downlink' = downlink /\ stopLatch' = stopLatch /\ port' = port /\ uplink' = uplink
      BY <1>1, TickOrder
    <3>6. Sec' = Sec /\ BannerComes' = BannerComes
      BY <3>4, <3>5 DEF Ordered, BannerComes
    <3> QED BY <2>2, <3>1, <3>2, <3>4, <3>5, <3>6 DEF EStopInv
  <2> QED BY <2>3, <2>4
<1>2. CASE \E m \in Messages : RobotMessage(m)
  <2>1. PICK m \in Messages : RobotMessage(m)
    BY <1>2
  <2>2. held /\ m # "clear" /\ estop' /\ latched' /\ resend' = resend
    BY <2>1, MessageTree DEF RobotMessage, EStopInv
  <2>3. /\ queue' = queue /\ downlink' = downlink /\ stopLatch' = stopLatch
        /\ port' = port /\ uplink' = uplink
    BY <2>1, Zenon DEF RobotMessage, linkVars, ctlVars
  <2>4. Sec' = Sec /\ BannerComes' = BannerComes
    BY <2>3 DEF Ordered, BannerComes
  <2> QED BY <2>2, <2>3, <2>4 DEF EStopInv
<1>3. CASE Open \/ WaitLine \/ PortFails
  <2>1. held /\ estop' = estop /\ latched' = latched
    BY <1>3, StillTree DEF Open, WaitLine, PortFails
  <2>2. queue' = queue /\ (port' = "opening" \/ port' = "closed")
    BY <1>3, Zenon DEF Open, WaitLine, PortFails
  <2> QED BY <2>1, <2>2 DEF EStopInv
<1>4. CASE Connect \/ Resume
  <2>1. held
    BY <1>4 DEF Connect, Resume
  <2>2. Connected => estop' = estop /\ latched' = latched /\ resend' = estop
    BY Zenon DEF Connected, NanoReset
  <2>3. estop' = estop /\ latched' = latched /\ resend' = estop
    BY <1>4, <2>2, LineTree DEF Connect, Resume, IsBanner
  <2>4. queue' = <<>>
    BY <1>4 DEF Connect, Resume, Discard
  <2> QED BY <2>1, <2>3, <2>4 DEF EStopInv
<1>5. CASE Take
  <2>1. /\ held /\ estop' = estop /\ latched' = latched /\ resend' = resend
    BY <1>5, StillTree DEF Take
  <2>2. stopLatch' = stopLatch /\ uplink' = uplink /\ port = "idle"
    BY <1>5, Zenon DEF Take, ctlVars
  <2>3. queue' = <<>>
    <3>1. queue = <<>> \/ queue = <<"E">>
      BY <2>1, Zenon DEF EStopInv
    <3>2. queue' = IF queue = <<>> THEN queue ELSE Tail(queue)
      BY <1>5, Zenon DEF Take
    <3>3. Tail(<<"E">>) = <<>>
      OBVIOUS
    <3> QED BY <3>1, <3>2, <3>3, Zenon
  <2>4. Sec => Sec'
    BY <1>5, <2>2, OrderTaken
  <2>5. BannerComes => BannerComes'
    BY <2>2 DEF BannerComes
  <2> QED BY <2>1, <2>2, <2>3, <2>4, <2>5 DEF EStopInv
<1>6. CASE ReadLine \/ Timeout
  <2>1. port = "sending" /\ held
    BY <1>6, StillTree DEF ReadLine, Timeout
  <2>2. queue' = queue /\ downlink' = downlink /\ stopLatch' = stopLatch
    BY <1>6, Zenon DEF ReadLine, Timeout, ctlVars
  <2>3. /\ estop' = estop /\ latched' = latched
        /\ resend' = resend \/ resend' = estop
    BY <1>6, LineTree, StillTree DEF ReadLine, Timeout
  <2>4. Sec' = Sec
    BY <2>2 DEF Ordered
  <2>5. BannerComes => resend' \/ BannerComes'
    <3> SUFFICES ASSUME BannerComes PROVE resend' \/ BannerComes'
      OBVIOUS
    <3>1. PICK i \in 1..Len(uplink) : IsBanner(uplink[i])
      BY <2>1 DEF BannerComes
    <3>2. ReadLine /\ uplink # <<>>
      BY <1>6, <3>1 DEF Timeout, LinkTypes
    <3>3. CASE i = 1
      <4>1. SerialLine(Head(uplink)) /\ Head(uplink).kind = "READY"
        BY <3>1, <3>2, <3>3 DEF ReadLine, IsBanner, LinkTypes
      <4> QED BY <2>1, <4>1, LineTree DEF EStopInv
    <3>4. CASE i # 1
      <4>1. uplink' = Tail(uplink)
        BY <3>2 DEF ReadLine
      <4>2. i - 1 \in 1..Len(Tail(uplink)) /\ Tail(uplink)[i - 1] = uplink[i]
        BY <3>1, <3>2, <3>4 DEF LinkTypes
      <4> QED BY <3>1, <4>1, <4>2 DEF BannerComes
    <3> QED BY <3>3, <3>4
  <2> QED BY <2>1, <2>2, <2>3, <2>4, <2>5 DEF EStopInv
<1>7. CASE Execute
  <2>1. /\ downlink' = Tail(downlink) /\ downlink # <<>> /\ queue' = queue /\ port' = port /\ Still
        /\ Head(downlink) = "E" => stopLatch'
        /\ Head(downlink) # "R" => (stopLatch => stopLatch')
    BY <1>7, ExecuteEffect
  <2>2. held /\ estop' = estop /\ latched' = latched /\ resend' = resend
    BY <2>1, StillTree
  <2>3. Sec => Settled(Ordered', {"E"}, {"R"}, stopLatch')
    BY <2>1, OrderExecuted
  <2>4. BannerComes => BannerComes'
    <3>1. PICK l \in LineSet : uplink' = Append(uplink, l)
      BY <1>7, ExecuteReply
    <3>2. \A i \in 1..Len(uplink) : i \in 1..Len(uplink') /\ uplink'[i] = uplink[i]
      BY <3>1 DEF LinkTypes
    <3> QED BY <2>1, <3>2 DEF BannerComes
  <2> QED BY <2>1, <2>2, <2>3, <2>4 DEF EStopInv
<1>8. CASE Incident \/ SelfReset
  <2>1. Still /\ port' = port /\ queue' = queue
    BY <1>8, Zenon DEF Incident, SelfReset
  <2>2. held /\ estop' = estop /\ latched' = latched /\ resend' = resend
    BY <2>1, StillTree
  <2>3. \E l \in LineSet : uplink' = Append(uplink, l) /\ (SelfReset => IsBanner(l))
    <3>1. Line("EVT", "none", "FALLEN") \in LineSet /\ Line("EVT", "none", "IMU_FAIL") \in LineSet
      BY DEF Line, LineSet, Infos
    <3>2. Banner \in LineSet /\ IsBanner(Banner)
      BY DEF Banner, Line, LineSet, Infos, IsBanner
    <3>3. Incident /\ ~SelfReset => \/ uplink' = Append(uplink, Line("EVT", "none", "FALLEN"))
                                    \/ uplink' = Append(uplink, Line("EVT", "none", "IMU_FAIL"))
      BY Zenon DEF Incident, Report
    <3>4. SelfReset => uplink' = Append(uplink, Banner)
      BY Zenon DEF SelfReset
    <3> QED BY <1>8, <3>1, <3>2, <3>3, <3>4
  <2>4. PICK l \in LineSet : uplink' = Append(uplink, l) /\ (SelfReset => IsBanner(l))
    BY <2>3
  <2>5. /\ \A i \in 1..Len(uplink) : i \in 1..Len(uplink') /\ uplink'[i] = uplink[i]
        /\ Len(uplink) + 1 \in 1..Len(uplink') /\ uplink'[Len(uplink) + 1] = l
    BY <2>4 DEF LinkTypes
  <2>6. BannerComes \/ SelfReset => BannerComes'
    BY <2>1, <2>4, <2>5 DEF BannerComes
  <2>7. Incident /\ ~SelfReset => Sec' = Sec
    <3>1. Incident => downlink' = downlink /\ (Leg!Cut \/ Leg!Halt)
      BY Zenon DEF Incident
    <3>2. Incident => stopLatch' = stopLatch
      BY <3>1 DEF Leg!Cut, Leg!Halt
    <3> QED BY <2>1, <3>1, <3>2 DEF Ordered
  <2> QED BY <1>8, <2>1, <2>2, <2>6, <2>7 DEF EStopInv
<1>9. CASE UNCHANGED rvars
  <2>1. /\ held' = held /\ estop' = estop /\ latched' = latched /\ resend' = resend
        /\ queue' = queue /\ downlink' = downlink /\ uplink' = uplink /\ port' = port
        /\ stopLatch' = stopLatch
    BY <1>9, Zenon DEF rvars, vars, estopVars, linkVars, ctlVars
  <2> QED BY <2>1 DEF EStopInv, Ordered, BannerComes
<1> QED BY <1>1, <1>2, <1>3, <1>4, <1>5, <1>6, <1>7, <1>8, <1>9 DEF RobotNext, SerialTask

-----------------------------------------------------------------------------
(* The tree's belief that the robot stands.                                 *)
Raises(l) == l.kind = "ACK" /\ l.cmd = "S"

(* A line after the i-th takes the belief away.                             *)
Undone(lines, i) == \E j \in (i + 1)..Len(lines) : Corrects(lines[j])

(* Every line that gives the tree its belief is taken back by a later one.  *)
Honest(lines) == \A i \in 1..Len(lines) : Raises(lines[i]) => Undone(lines, i)

(* Without power no line under way leaves the tree believing that the robot *)
(* stands.                                                                  *)
BeliefInv ==
    ~power => /\ Honest(uplink)
              /\ standing => port \in {"closed", "opening", "reset"} \/ Undone(uplink, 0)

(* A line more, which is no ACK,S or corrects what was said before.         *)
LEMMA LineAppended ==
    ASSUME NEW lines \in Seq(LineSet), NEW l \in LineSet
    PROVE  /\ Honest(lines) /\ ~Raises(l) => Honest(Append(lines, l))
           /\ Corrects(l) => Honest(Append(lines, l)) /\ Undone(Append(lines, l), 0)
           /\ Undone(lines, 0) => Undone(Append(lines, l), 0)
<1>1. /\ Len(lines) \in Nat /\ Len(Append(lines, l)) = Len(lines) + 1
      /\ \A i \in 1..Len(lines) : Append(lines, l)[i] = lines[i]
      /\ Append(lines, l)[Len(lines) + 1] = l
  OBVIOUS
<1>2. ASSUME NEW i \in Nat, Undone(lines, i) PROVE Undone(Append(lines, l), i)
  <2>1. PICK j \in (i + 1)..Len(lines) : Corrects(lines[j])
    BY <1>2 DEF Undone
  <2>2. j \in (i + 1)..Len(Append(lines, l)) /\ Append(lines, l)[j] = lines[j]
    BY <1>1
  <2> QED BY <2>1, <2>2 DEF Undone
<1>3. ASSUME NEW i \in 0..Len(lines), Corrects(l) PROVE Undone(Append(lines, l), i)
  <2>1. Len(lines) + 1 \in (i + 1)..Len(Append(lines, l))
    BY <1>1
  <2> QED BY <1>1, <1>3, <2>1 DEF Undone
<1>4. Corrects(l) => ~Raises(l)
  BY DEF Corrects, Raises
<1>5. ASSUME Honest(lines), ~Raises(l) PROVE Honest(Append(lines, l))
  <2> SUFFICES ASSUME NEW i \in 1..Len(Append(lines, l)), Raises(Append(lines, l)[i])
               PROVE  Undone(Append(lines, l), i)
    BY DEF Honest
  <2>1. i \in 1..Len(lines) /\ Append(lines, l)[i] = lines[i]
    <3>1. i # Len(lines) + 1
      BY <1>1, <1>5
    <3> QED BY <1>1, <3>1
  <2> QED BY <1>2, <1>5, <2>1 DEF Honest
<1>6. ASSUME Corrects(l) PROVE Honest(Append(lines, l))
  <2> SUFFICES ASSUME NEW i \in 1..Len(Append(lines, l)), Raises(Append(lines, l)[i])
               PROVE  Undone(Append(lines, l), i)
    BY DEF Honest
  <2>1. i # Len(lines) + 1
    BY <1>1, <1>4, <1>6
  <2>2. i \in 0..Len(lines)
    BY <1>1, <2>1
  <2> QED BY <1>3, <1>6, <2>2
<1>7. 0 \in Nat /\ 0 \in 0..Len(lines)
  BY <1>1
<1> QED BY <1>2, <1>3, <1>5, <1>6, <1>7

(* A line less.                                                             *)
LEMMA LineRead ==
    ASSUME NEW lines \in Seq(LineSet), lines # <<>>
    PROVE  /\ Honest(lines) => Honest(Tail(lines))
           /\ Undone(lines, 0) => Corrects(Head(lines)) \/ Undone(Tail(lines), 0)
           /\ Honest(lines) /\ Raises(Head(lines)) => Undone(Tail(lines), 0)
<1>1. /\ Len(Tail(lines)) = Len(lines) - 1 /\ Head(lines) = lines[1] /\ Len(lines) \in Nat \ {0}
      /\ \A i \in 1..Len(Tail(lines)) : Tail(lines)[i] = lines[i + 1]
  OBVIOUS
<1>2. ASSUME NEW i \in Nat, Undone(lines, i + 1) PROVE Undone(Tail(lines), i)
  <2>1. PICK j \in (i + 2)..Len(lines) : Corrects(lines[j])
    BY <1>2 DEF Undone
  <2>2. j - 1 \in (i + 1)..Len(Tail(lines)) /\ Tail(lines)[j - 1] = lines[j]
    BY <1>1
  <2> QED BY <2>1, <2>2 DEF Undone
<1>3. ASSUME Honest(lines) PROVE Honest(Tail(lines))
  <2> SUFFICES ASSUME NEW i \in 1..Len(Tail(lines)), Raises(Tail(lines)[i])
               PROVE  Undone(Tail(lines), i)
    BY DEF Honest
  <2>1. i \in Nat /\ i + 1 \in 1..Len(lines) /\ Raises(lines[i + 1])
    BY <1>1
  <2> QED BY <1>2, <1>3, <2>1 DEF Honest
<1>4. ASSUME Undone(lines, 0), ~Corrects(Head(lines)) PROVE Undone(Tail(lines), 0)
  <2>1. PICK j \in 1..Len(lines) : Corrects(lines[j])
    BY <1>4 DEF Undone
  <2>2. j \in 2..Len(lines)
    BY <1>1, <1>4, <2>1
  <2>3. Undone(lines, 0 + 1) /\ 0 \in Nat
    BY <2>1, <2>2 DEF Undone
  <2> QED BY <1>2, <2>3
<1>5. ASSUME Honest(lines), Raises(Head(lines)) PROVE Undone(Tail(lines), 0)
  <2>1. 1 \in 1..Len(lines) /\ 0 \in Nat /\ 1 = 0 + 1
    BY <1>1
  <2>2. Undone(lines, 0 + 1)
    BY <1>1, <1>5, <2>1 DEF Honest
  <2> QED BY <1>2, <2>1, <2>2
<1> QED BY <1>3, <1>4, <1>5

(* Only ACK,S makes the tree believe that the robot stands, and every line  *)
(* that corrects the belief takes it away.                                  *)
LEMMA LineBelief ==
    ASSUME NEW l \in LineSet, SerialLine(l)
    PROVE  /\ standing' => standing \/ Raises(l)
           /\ Corrects(l) => standing' = FALSE
<1>1. standing' => standing \/ Raises(l)
  BY Zenon DEF SerialLine, Ready, NanoReset, LegsOff, AckStand, AckImu, AckOff, Fell, ImuFailed,
     Watchdog, NotBalancing, Raises, legVars
<1>2. CASE l.kind = "READY"
  BY <1>2, SMT DEF SerialLine, Ready, NanoReset, LegsOff, IsFall, IsImuFail, IsRefusedMove, IsUnused
<1>3. CASE l.kind = "EVT"
  <2>1. l.info \in {"FALLEN", "IMU_FAIL"}
    BY <1>3 DEF LineSet
  <2>2. Fell \/ ImuFailed
    BY <1>3, <2>1, SMT DEF SerialLine, IsFall, IsImuFail, IsRefusedMove, IsUnused
  <2> QED BY <2>2, Zenon DEF Fell, ImuFailed, LegsOff
<1>4. CASE l.kind = "ACK" /\ l.cmd \in {"O", "E"}
  <2>1. AckOff
    BY <1>4, SMT DEF SerialLine, IsFall, IsImuFail, IsRefusedMove, IsUnused
  <2> QED BY <2>1, Zenon DEF AckOff, LegsOff
<1>5. CASE l.kind = "NACK" /\ l.cmd = "S"
  <2>1. Fell \/ ImuFailed \/ NotBalancing
    BY <1>5, SMT DEF SerialLine, IsFall, IsImuFail, IsRefusedMove, IsUnused
  <2> QED BY <2>1, Zenon DEF Fell, ImuFailed, NotBalancing, LegsOff
<1> QED BY <1>1, <1>2, <1>3, <1>4, <1>5 DEF Corrects

(* No tick makes the tree believe that the robot stands.                    *)
LEMMA TickBelief == ASSUME Tick PROVE standing' => standing
<1>1. EStopBranch => (standing' => standing)
  BY Zenon DEF EStopBranch, HoldEStop, Latch, LegsOff
<1>2. ImuFaultBranch \/ RestBranch => (standing' => standing)
  BY Zenon DEF ImuFaultBranch, RestBranch, LegsOff, Idle
<1>3. FallenBranch \/ WalkBranch => (standing' => standing)
  BY Zenon DEF FallenBranch, WalkBranch, LegsOff
<1>4. ConversationBranch \/ PostureBranch \/ IdleBranch => (standing' => standing)
  BY Zenon DEF ConversationBranch, PostureBranch, IdleBranch, StandStill
<1> QED BY <1>1, <1>2, <1>3, <1>4, Zenon DEF Tick, Released

(* Power that goes off leaves a line behind it on the way to the tree.      *)
LEMMA BeliefKept ==
    ASSUME TreeInv, LinkTypes, BeliefInv, [RobotNext]_rvars PROVE BeliefInv'
<1> DEFINE Waits == port \in {"closed", "opening", "reset"}
<1> SUFFICES ASSUME ~power'
             PROVE  Honest(uplink') /\ (standing' => Waits' \/ Undone(uplink', 0))
  BY DEF BeliefInv
<1>0. Honest(<<>>) /\ Honest(<<Banner>>)
  BY DEF Honest, Banner, Line, Raises
<1>1. CASE RobotTick \/ \E m \in Messages : RobotMessage(m)
  <2>1. standing' => standing
    BY <1>1, TickBelief, MessageTree DEF RobotTick, RobotMessage
  <2>2. uplink' = uplink /\ port' = port /\ power' = power
    BY <1>1, Zenon DEF RobotTick, RobotMessage, linkVars, ctlVars
  <2> QED BY <2>1, <2>2 DEF BeliefInv
<1>2. CASE Open \/ PortFails
  <2>1. port' = "opening" \/ port' = "closed"
    BY <1>2, Zenon DEF Open, PortFails
  <2>2. uplink' = <<>> \/ uplink' = <<Banner>>
    BY <1>2, Zenon DEF Open, PortFails
  <2> QED BY <1>0, <2>1, <2>2
<1>3. CASE WaitLine
  <2>1. port' = "opening" /\ uplink # <<>> /\ uplink' = Tail(uplink) /\ power' = power
    BY <1>3, Zenon DEF WaitLine, ctlVars
  <2> QED BY <2>1, LineRead DEF BeliefInv, LinkTypes
<1>4. CASE Connect \/ Resume
  <2>1. Connected => standing' = FALSE
    BY Zenon DEF Connected, NanoReset, LegsOff
  <2>2. Connect => standing' = FALSE
    <3>1. uplink # <<>> => Head(uplink) \in LineSet
      BY DEF LinkTypes
    <3> QED BY <2>1, <3>1, LineBelief DEF Connect, IsBanner, Corrects
  <2>3. standing' = FALSE
    BY <1>4, <2>1, <2>2 DEF Resume
  <2>4. power' = power /\ (uplink' = <<>> \/ uplink' = uplink)
    BY <1>4, Zenon DEF Connect, Resume, ctlVars
  <2> QED BY <1>0, <2>3, <2>4 DEF BeliefInv
<1>5. CASE Take \/ Timeout
  <2>1. standing' = standing
    BY <1>5, StillTree DEF Take, Timeout
  <2>2. power' = power /\ uplink' = uplink /\ (port = "idle" \/ port = "sending")
    BY <1>5, Zenon DEF Take, Timeout, ctlVars
  <2> QED BY <2>1, <2>2 DEF BeliefInv
<1>6. CASE ReadLine
  <2>1. /\ port = "sending" /\ uplink # <<>> /\ SerialLine(Head(uplink)) /\ uplink' = Tail(uplink)
        /\ power' = power
    BY <1>6, Zenon DEF ReadLine, ctlVars
  <2>2. Head(uplink) \in LineSet
    BY <2>1 DEF LinkTypes
  <2>3. Honest(uplink) /\ (standing => Undone(uplink, 0))
    BY <2>1 DEF BeliefInv
  <2> QED BY <2>1, <2>2, <2>3, LineRead, LineBelief DEF LinkTypes
<1>7. CASE Execute
  <2>1. PICK l \in LineSet : /\ uplink' = Append(uplink, l)
                             /\ ~Raises(l) /\ (power => Corrects(l))
    BY <1>7, ExecuteReply DEF Raises
  <2>2. standing' = standing /\ port' = port
    BY <1>7, ExecuteEffect, StillTree
  <2> QED BY <2>1, <2>2, LineAppended DEF BeliefInv, LinkTypes
<1>8. CASE Incident \/ SelfReset
  <2>1. Banner \in LineSet /\ Corrects(Banner)
    BY DEF Banner, Line, LineSet, Infos, Corrects
  <2>2. \A i \in {"FALLEN", "IMU_FAIL"} : /\ Line("EVT", "none", i) \in LineSet
                                          /\ Corrects(Line("EVT", "none", i))
    BY DEF Line, LineSet, Corrects
  <2>3. \/ uplink' = Append(uplink, Line("EVT", "none", "FALLEN"))
        \/ uplink' = Append(uplink, Line("EVT", "none", "IMU_FAIL"))
        \/ uplink' = Append(uplink, Banner)
    BY <1>8, Zenon DEF Incident, SelfReset, Report
  <2>4. PICK l \in LineSet : uplink' = Append(uplink, l) /\ Corrects(l)
    BY <2>1, <2>2, <2>3
  <2> QED BY <2>4, LineAppended DEF LinkTypes
<1>9. CASE UNCHANGED rvars
  <2>1. standing' = standing /\ uplink' = uplink /\ port' = port /\ power' = power
    BY <1>9, Zenon DEF rvars, vars, legVars, linkVars, ctlVars
  <2> QED BY <2>1 DEF BeliefInv
<1> QED BY <1>1, <1>2, <1>3, <1>4, <1>5, <1>6, <1>7, <1>8, <1>9 DEF RobotNext, SerialTask
(* Steps of the serial task and the controller that the tree does not see.  *)
LEMMA StillKeeps == ASSUME TreeInv, Still PROVE TreeInv'
BY DEF Still, Ignored, legVars, outboxVars, TreeInv, WalkNeedsStand, OutboxTuning

(* What a step of the robot is to the tree.                                 *)
LEMMA TreeSide ==
    ASSUME RobotNext
    PROVE  \/ Tick
           \/ \E m \in Messages : Message(m)
           \/ Connected \/ \E l : SerialLine(l)
           \/ Still
BY DEF RobotNext, RobotTick, RobotMessage, SerialTask, Open, WaitLine, Connect, Take, ReadLine,
       Timeout, Resume, PortFails, Execute, Incident, SelfReset

(* TreeInv holds at the start.                                              *)
LEMMA TreeStart == RobotInit => TreeInv
<1>1. <<>> \in Seq(Tuning)
  BY DEF Tuning
<1> QED BY <1>1 DEF RobotInit, Init, TreeInv, WalkNeedsStand, OutboxTuning

(* Every step of the robot keeps TreeInv.                                   *)
LEMMA TreeStep == ASSUME TreeInv, [RobotNext]_rvars PROVE TreeInv'
<1>1. CASE Tick
  BY <1>1, TickLegs, TickOutbox DEF TreeInv
<1>2. ASSUME NEW m \in Messages, Message(m) PROVE TreeInv'
  BY <1>2, MessageLegs, MessageOutbox DEF TreeInv, WalkNeedsStand
<1>3. CASE Connected \/ \E l : SerialLine(l)
  BY <1>3, LineKeeps
<1>4. CASE Still
  BY <1>4, StillKeeps
<1>5. CASE UNCHANGED rvars
  BY <1>5 DEF rvars, vars, legVars, outboxVars, TreeInv, WalkNeedsStand, OutboxTuning
<1> QED BY <1>1, <1>2, <1>3, <1>4, <1>5, TreeSide

-----------------------------------------------------------------------------
(* The invariant of the robot.                                              *)
RobotInv == TreeInv /\ LinkTypes /\ EStopInv /\ RelaxInv /\ ReleaseInv /\ BeliefInv

(* What the commands under way, the lines under way and the tree's memory   *)
(* of what it has sent promise together, for every board, queue size,       *)
(* period and mishap and every set of messages without a walk.              *)
THEOREM RobotInvariant == RobotSpec => []RobotInv
<1>1. ASSUME RobotInit PROVE LinkTypes /\ EStopInv /\ RelaxInv /\ ReleaseInv /\ BeliefInv
  <2>1. /\ queue = <<>> /\ downlink = <<>> /\ uplink = <<>> /\ port = "closed"
        /\ power = FALSE /\ stopLatch = FALSE /\ held = FALSE
        /\ restSent = FALSE /\ imuHandled = FALSE
    BY <1>1, Zenon DEF RobotInit, Init, Leg!Init
  <2>2. LinkTypes
    <3>1. <<>> \in Seq(Cmds) /\ <<>> \in Seq(LineSet)
      OBVIOUS
    <3> QED BY <2>1, <3>1, Zenon DEF LinkTypes
  <2>3. Settled(Ordered, {"R"}, {"E"}, ~stopLatch)
    <3>1. Ordered = <<>>
      BY <2>1 DEF Ordered
    <3>2. NoneAfter(<<>>, 0, {"E"})
      BY DEF NoneAfter
    <3> QED BY <2>1, <3>1, <3>2 DEF Settled
  <2>4. Honest(<<>>)
    BY DEF Honest
  <2> QED BY <2>1, <2>2, <2>3, <2>4 DEF EStopInv, RelaxInv, ReleaseInv, BeliefInv
<1>2. RobotInv /\ [RobotNext]_rvars
         => LinkTypes' /\ EStopInv' /\ RelaxInv' /\ ReleaseInv' /\ BeliefInv'
  BY LinkTypesKept, EStopKept, RelaxKept, ReleaseKept, BeliefKept DEF RobotInv
<1>3. RobotInit => TreeInv
  BY TreeStart
<1>4. TreeInv /\ [RobotNext]_rvars => TreeInv'
  BY TreeStep
<1>5. RobotInit => RobotInv
  BY <1>1, <1>3 DEF RobotInv
<1>6. RobotInv /\ [RobotNext]_rvars => RobotInv'
  BY <1>2, <1>4 DEF RobotInv
<1> QED BY <1>5, <1>6, PTL DEF RobotSpec

(* What is settled has happened or is under way.                            *)
LEMMA SettledUnderWay ==
    ASSUME LinkTypes, NEW good, NEW bad, NEW now, Settled(Ordered, good, bad, now)
    PROVE  now \/ good \cap UnderWay # {}
<1>1. downlink \in Seq(Cmds) /\ queue \in Seq(Cmds) /\ Ordered \in Seq(Cmds)
  BY DEF LinkTypes, Ordered
<1>2. ToSet(Ordered) = UnderWay
  BY <1>1, ToSetConcat DEF Ordered, UnderWay
<1>3. \A i \in 1..Len(Ordered) : Ordered[i] \in ToSet(Ordered)
  BY DEF ToSet
<1> QED BY <1>2, <1>3 DEF Settled

(* An E-stop that the tree has latched and nobody has cleared is in force,  *)
(* on its way, or about to be sent again: offer_urgent and estop_resend     *)
(* against full queues, resets, lost ports and reconnections.               *)
THEOREM RobotEStopSecured == RobotSpec => []EStopSecured
<1>1. RobotInv => EStopSecured
  BY SettledUnderWay DEF RobotInv, EStopInv, EStopSecured
<1> QED BY <1>1, RobotInvariant, PTL

(* A robot told to rest has its servos off or gets the command for it: no   *)
(* stand sent before, still queued or under way, is carried out after the   *)
(* rest's O.                                                                *)
THEOREM RobotRestRelaxes == RobotSpec => []RestRelaxes
<1>1. RobotInv => RestRelaxes
  BY SettledUnderWay DEF RobotInv, RelaxInv, RestRelaxes
<1> QED BY <1>1, RobotInvariant, PTL

(* The same for a robot whose IMU fault the tree has handled.               *)
THEOREM RobotFaultRelaxes == RobotSpec => []FaultRelaxes
<1>1. RobotInv => FaultRelaxes
  BY SettledUnderWay DEF RobotInv, RelaxInv, FaultRelaxes
<1> QED BY <1>1, RobotInvariant, PTL

(* After "clear" the controller is released or gets the command for it,     *)
(* unless that R was lost: no E sent before is carried out after it.        *)
THEOREM RobotClearReleases == RobotSpec => []ClearReleases
<1>1. ASSUME RobotInv, ~estop, ~latched, "R" \notin lost
      PROVE  ~stopLatch \/ "R" \in UnderWay
  <2>1. LinkTypes /\ ReleaseInv
    BY <1>1, Zenon DEF RobotInv
  <2>2. Settled(Ordered, {"R"}, {"E"}, ~stopLatch)
    BY <1>1, <2>1, Zenon DEF ReleaseInv
  <2>3. ~stopLatch \/ {"R"} \cap UnderWay # {}
    BY <2>1, <2>2, SettledUnderWay, Zenon
  <2>4. {"R"} \cap UnderWay # {} => "R" \in UnderWay
    OBVIOUS
  <2> QED BY <2>3, <2>4, Zenon
<1>2. RobotInv => ClearReleases
  BY <1>1, Zenon DEF ClearReleases
<1> QED BY <1>2, RobotInvariant, PTL

(* The tree does not go on believing that a robot without power stands: the *)
(* line that corrects it is under way, behind every ACK,S that would        *)
(* restore the belief.                                                      *)
THEOREM RobotBeliefCorrected == RobotSpec => []BeliefCorrected
<1>1. Undone(uplink, 0) => \E i \in 1..Len(uplink) : Corrects(uplink[i])
  BY DEF Undone
<1>2. RobotInv => BeliefCorrected
  BY <1>1 DEF RobotInv, BeliefInv, BeliefCorrected
<1> QED BY <1>2, RobotInvariant, PTL

-----------------------------------------------------------------------------
(* What holds of the tree alone holds of the tree in the robot.             *)

(* TreeInv is an invariant of the robot.                                    *)
THEOREM RobotTreeInvariant == RobotSpec => []TreeInv
BY TreeStart, TreeStep, PTL DEF RobotSpec

(* The robot's tree believes a walking robot standing, through every fall,  *)
(* reset, reconnection and late line of the real controller.                *)
THEOREM RobotWalkNeedsStand == RobotSpec => []WalkNeedsStand
BY RobotTreeInvariant, PTL DEF TreeInv

(* Nothing reaches the command queue of a robot that an E-stop, an IMU      *)
(* fault, a fall or a rest holds down that would stand it up or walk it.    *)
BlockedQueue == [][RobotTick /\ Blocked => ~Emits("S") /\ ~Emits("W")]_rvars

(* That property of the queue holds for every board, queue size and mishap. *)
THEOREM RobotBlockedNeverMoves == RobotSpec => BlockedQueue
<1>1. ASSUME TreeInv, [RobotNext]_rvars
      PROVE [RobotTick /\ Blocked => ~Emits("S") /\ ~Emits("W")]_rvars
  BY <1>1, BlockedTick, HarmlessOut DEF RobotTick, TreeInv
<1> QED BY <1>1, RobotTreeInvariant, PTL DEF RobotSpec, BlockedQueue

-----------------------------------------------------------------------------
(* An E-stop that has taken effect.                                         *)

(* The latch is closed, the servos are off, and no release is on the wire.  *)
InForce == stopLatch /\ ~power /\ "R" \notin ToSet(downlink)

(* Nothing but a boot of the controller, of itself or by opening the port,  *)
(* or the "clear" that ends held, takes an E-stop out of force.             *)
StaysInForce == [][InForce /\ held /\ held' /\ ~SelfReset /\ ~Open => InForce']_rvars

(* What a controller with a closed latch and without power does with a      *)
(* command other than R: it refuses a stand, and keeps both.                *)
LEMMA ForceExecute ==
    ASSUME LinkTypes, Execute, InForce PROVE InForce'
<1>1. /\ downlink # <<>> /\ downlink' = Tail(downlink) /\ downlink \in Seq(Cmds)
      /\ Head(downlink) # "R" => (stopLatch => stopLatch')
      /\ Head(downlink) # "S" => (power' => power)
  BY ExecuteEffect, Zenon DEF LinkTypes
<1>2. Head(downlink) = downlink[1] /\ 1 \in 1..Len(downlink)
  BY <1>1
<1>3. Head(downlink) # "R"
  BY <1>1, <1>2, InToSet DEF InForce
<1>4. "R" \notin ToSet(Tail(downlink))
  <2> SUFFICES ASSUME "R" \in ToSet(Tail(downlink)) PROVE FALSE
    OBVIOUS
  <2>1. Tail(downlink) \in Seq(Cmds)
    BY <1>1
  <2>2. PICK i \in 1..Len(Tail(downlink)) : Tail(downlink)[i] = "R"
    BY <2>1, InToSet
  <2>3. i + 1 \in 1..Len(downlink) /\ downlink[i + 1] = "R"
    BY <1>1, <2>2
  <2> QED BY <1>1, <2>3, InToSet DEF InForce
<1>5. Head(downlink) = "S" => power' = power
  <2> SUFFICES ASSUME Head(downlink) = "S" PROVE power' = power
    OBVIOUS
  <2>1. Obeys("S")
    BY DEF Execute
  <2>2. ~Stands
    BY DEF Stands, InForce
  <2>3. StandRefused
    BY <2>1, <2>2 DEF Obeys
  <2> QED BY <2>3 DEF StandRefused
<1> QED BY <1>1, <1>3, <1>4, <1>5 DEF InForce

(* Once the controller has carried out an E-stop that nobody clears, it     *)
(* stays off: no command that was queued or written before, no stand, no    *)
(* fall, no lost port and no reconnection over the UART powers it again.    *)
THEOREM EStopStaysInForce == RobotSpec => StaysInForce
<1>1. ASSUME RobotInv, [RobotNext]_rvars, InForce, held, held', ~SelfReset, ~Open
      PROVE  InForce'
  <2>1. LinkTypes /\ EStopInv /\ TreeInv
    BY <1>1, Zenon DEF RobotInv
  <2>2. queue = <<>> \/ queue = <<"E">>
    BY <1>1, <2>1, Zenon DEF EStopInv
  <2>3. CASE UNCHANGED <<downlink, power, stopLatch>>
    BY <1>1, <2>3 DEF InForce
  <2>4. CASE Execute
    BY <1>1, <2>1, <2>4, ForceExecute
  <2>5. CASE Take
    <3>1. /\ downlink' = Append(downlink, sent') /\ UNCHANGED <<power, stopLatch>>
          /\ sent' = "P" \/ sent' = "E"
      BY <2>2, <2>5 DEF Take, ctlVars
    <3>2. downlink \in Seq(Cmds) /\ sent' \in Cmds
      BY <2>1, <3>1 DEF LinkTypes, Cmds, Commands
    <3>3. "R" \notin ToSet(Append(downlink, sent'))
      <4> SUFFICES ASSUME "R" \in ToSet(Append(downlink, sent')) PROVE FALSE
        OBVIOUS
      <4>1. Append(downlink, sent') \in Seq(Cmds)
        BY <3>2
      <4>2. PICK i \in 1..Len(Append(downlink, sent')) : Append(downlink, sent')[i] = "R"
        BY <4>1, InToSet
      <4>3. i \in 1..Len(downlink) /\ downlink[i] = "R"
        BY <3>1, <3>2, <4>2
      <4> QED BY <1>1, <3>2, <4>3, InToSet DEF InForce
    <3> QED BY <1>1, <3>1, <3>3 DEF InForce
  <2>6. CASE PortFails
    <3>1. downlink' \in {downlink, <<>>} /\ UNCHANGED <<power, stopLatch>>
      BY <2>6, Zenon DEF PortFails, ctlVars
    <3>2. "R" \notin ToSet(<<>>)
      BY DEF ToSet
    <3> QED BY <1>1, <3>1, <3>2, Zenon DEF InForce
  <2>7. CASE Incident
    <3>1. downlink' = downlink /\ stopLatch' = stopLatch /\ (power' => power)
      BY <2>7 DEF Incident, Leg!Cut, Leg!Halt
    <3> QED BY <1>1, <3>1 DEF InForce
  <2>8. \/ Execute \/ Take \/ PortFails \/ Incident
        \/ UNCHANGED <<downlink, power, stopLatch>>
    BY <1>1, Zenon DEF RobotNext, RobotTick, RobotMessage, SerialTask, WaitLine, Connect, ReadLine,
       Timeout, Resume, linkVars, ctlVars, rvars
  <2> QED BY <2>3, <2>4, <2>5, <2>6, <2>7, <2>8
<1>2. /\ RobotInv /\ [RobotNext]_rvars
      => [InForce /\ held /\ held' /\ ~SelfReset /\ ~Open => InForce']_rvars
  BY <1>1
<1> QED BY <1>2, RobotInvariant, PTL DEF RobotSpec, StaysInForce

-----------------------------------------------------------------------------
(* The robot's parts are what the modules of the parts say they are.        *)

(* Its controller, whose closed latch always means servos off.              *)
LEMMA LegStep ==
    ASSUME stopLatch => ~power, [RobotNext]_rvars
    PROVE  [Leg!Next]_<<power, stopLatch, FALSE>> /\ (stopLatch' => ~power')
<1>1. CASE Open \/ SelfReset
  <2>1. Leg!Reset \/ UNCHANGED ctlVars
    BY <1>1, Zenon DEF Open, SelfReset, Boots
  <2> QED BY <2>1 DEF Leg!Reset, Leg!Next, ctlVars
<1>2. CASE Execute
  <2>1. Obeys(Head(downlink))
    BY <1>2 DEF Execute
  <2>2. CASE Stands
    <3>1. UNCHANGED ctlVars \/ Leg!Energise
      BY <2>2, Zenon DEF Stands
    <3> QED BY <3>1 DEF Leg!Energise, Leg!Next, ctlVars
  <2>3. CASE StandRefused \/ ProbesImu \/ Serves(Head(downlink))
    <3>1. UNCHANGED <<power, stopLatch>>
      BY <2>3, Zenon DEF StandRefused, ProbesImu, Serves, ctlVars
    <3> QED BY <3>1
  <2>4. CASE Leg!Cut \/ Leg!EStop
    BY <2>4 DEF Leg!Cut, Leg!EStop, Leg!Next
  <2>5. CASE Leg!Release
    BY <2>5 DEF Leg!Release, Leg!Next
  <2> QED BY <2>1, <2>2, <2>3, <2>4, <2>5, Zenon DEF Obeys
<1>3. CASE Incident
  <2>1. Leg!Cut \/ Leg!Halt
    BY <1>3, Zenon DEF Incident
  <2> QED BY <2>1 DEF Leg!Cut, Leg!Halt, Leg!Next
<1>4. CASE UNCHANGED <<power, stopLatch>>
  BY <1>4
<1>5. Open \/ SelfReset \/ Execute \/ Incident \/ UNCHANGED <<power, stopLatch>>
  BY Zenon DEF RobotNext, RobotTick, RobotMessage, SerialTask, WaitLine, Connect, Take, ReadLine,
     Timeout, Resume, PortFails, linkVars, ctlVars, rvars
<1> QED BY <1>1, <1>2, <1>3, <1>4, <1>5

(* Whatever the tree sends through whatever link, the robot's controller    *)
(* keeps the promises of LegPower, which Firmware keeps as well.            *)
THEOREM RobotImplementsLegPower == RobotSpec => Leg!Spec
<1>1. RobotInit => Leg!Init /\ (stopLatch => ~power)
  BY DEF RobotInit, Leg!Init
<1>2. (stopLatch => ~power) /\ [RobotNext]_rvars
        => [Leg!Next]_<<power, stopLatch, FALSE>> /\ (stopLatch' => ~power')
  BY LegStep
<1> QED BY <1>1, <1>2, PTL DEF RobotSpec, Leg!Spec, Leg!powerVars

(* A line that changes nothing: to the tree, a step it does not see is one. *)
Unseen == Line("ACK", "P", "none")

(* The robot's tree takes the steps of BehaviorTree and no others: every    *)
(* line it is handed is one the controller can send, and what that module   *)
(* promises it promises in the robot.                                       *)
THEOREM RobotImplementsTree == ASSUME LineSet \subseteq ControllerLines PROVE RobotSpec => Spec
<1>1. RobotInit => Init
  BY DEF RobotInit
<1>2. ASSUME LinkTypes, [RobotNext]_rvars PROVE [Next]_vars
  <2>1. CASE RobotTick
    BY <2>1 DEF RobotTick, Next
  <2>2. CASE \E m \in Messages : RobotMessage(m)
    BY <2>2, Zenon DEF RobotMessage, Next
  <2>3. CASE Connect \/ Resume \/ ReadLine
    <3>1. CASE Connected
      BY <3>1 DEF Next
    <3>2. CASE uplink # <<>> /\ SerialLine(Head(uplink))
      <4>1. Head(uplink) \in LineSet
        BY <1>2, <3>2 DEF LinkTypes
      <4>2. Head(uplink) \in ControllerLines
        BY <4>1
      <4> QED BY <3>2, <4>2, Zenon DEF Next
    <3> QED BY <2>3, <3>1, <3>2, Zenon DEF Connect, Resume, ReadLine
  <2>4. CASE Still
    <3>1. Unseen \in LineSet
      BY DEF Unseen, Line, LineSet, Infos, Cmds
    <3>2. Unseen.kind = "ACK" /\ Unseen.cmd = "P"
      BY DEF Unseen, Line
    <3>3. IsUnused(Unseen)
      BY <3>2 DEF IsUnused
    <3>4. /\ UNCHANGED <<estopVars, imuVars, fallVars, legVars>>
          /\ UNCHANGED <<restVars, walkVars, beat, convLeft, postureVars, outboxVars>>
          /\ Quiet
      BY <2>4, Zenon DEF Still, Ignored
    <3>5. SerialLine(Unseen)
      BY <3>3, <3>4, Zenon DEF SerialLine
    <3> QED BY <3>1, <3>5, Zenon DEF Next
  <2>5. CASE UNCHANGED rvars
    BY <2>5, Zenon DEF rvars
  <2> QED BY <1>2, <2>1, <2>2, <2>3, <2>4, <2>5, Zenon DEF RobotNext, SerialTask, Open, WaitLine,
             Take, Timeout, PortFails, Execute, Incident, SelfReset
<1>3. RobotInv => LinkTypes
  BY Zenon DEF RobotInv
<1>4. LinkTypes /\ [RobotNext]_rvars => [Next]_vars
  BY <1>2
<1> QED BY <1>1, <1>3, <1>4, RobotInvariant, PTL DEF RobotSpec, Spec

-----------------------------------------------------------------------------
(* A robot that stands.                                                     *)

(* A line that tells the tree, of a robot that nothing holds down, that the *)
(* legs are off.                                                            *)
TakesDown(l) ==
    \/ l.kind = "READY"
    \/ l.kind = "ACK" /\ l.cmd \in {"O", "E"}
    \/ IsRefusedMove(l)

(* It stands, the tree knows it, and nothing under way changes either.      *)
Keeping == Cmds \ {"O", "E"}
Up ==
    /\ power /\ standing /\ port \in {"idle", "sending"}
    /\ {queue, downlink, outbox} \subseteq Seq(Keeping)
    /\ \A i \in 1..Len(uplink) : ~TakesDown(uplink[i])

(* Only a mishap, or a message or line that holds the robot down, changes   *)
(* that.                                                                    *)
StaysUp ==
    [][Up /\ ~Blocked /\ ~Blocked' /\ ~Incident /\ ~SelfReset /\ ~PortFails => Up']_rvars

(* A tick that may stand the robot up and believes it down counts down to   *)
(* the next S, and then puts it into the queue.                             *)
StandIsAsked ==
    [][RobotTick /\ ~Blocked /\ ~standing
         => IF standWait = 0 THEN "S" \in ToSet(queue') ELSE standWait' = standWait - 1]_rvars

(* What such a tick may add to what is ahead of its branch.                 *)
Moves == {"S", "W", "W0", "G", "R"}

(* What the tick of such a robot sends, and that it leaves the legs alone.  *)
LEMMA FreeSends ==
    ASSUME Tick, ~Blocked, NEW K, Moves \subseteq K, outbox \in Seq(K)
    PROVE  /\ standing' = standing /\ outbox' = <<>> /\ out' \in Seq(K)
           /\ ~standing /\ standWait = 0
                => \E s \in Seq(K) : out' = s \o <<"S">>
           /\ ~standing /\ standWait # 0 => standWait' = standWait - 1
<1>1. Released /\ (ConversationBranch \/ PostureBranch \/ WalkBranch \/ IdleBranch)
  BY Zenon DEF Tick, EStopBranch, Released, Blocked, ImuFaultBranch, FallenBranch, RestBranch
<1>2. outbox' = <<>>
  BY <1>1, Zenon DEF Released
<1>3. standing' = standing /\ StandTimer(~standing)
  BY <1>1, Zenon DEF ConversationBranch, PostureBranch, WalkBranch, IdleBranch, StandStill
<1>4. ~standing /\ standWait # 0 => standWait' = standWait - 1
  BY <1>3 DEF StandTimer, Dec
<1>5. /\ <<>> \in Seq(K) /\ <<"S">> \in Seq(K) /\ <<"W">> \in Seq(K)
      /\ <<"W0">> \in Seq(K) /\ <<"G">> \in Seq(K) /\ <<"R">> \in Seq(K)
  BY DEF Moves
<1>6. Ahead \in Seq(K)
  BY <1>5 DEF Ahead
<1>7. \A s, t \in Seq(K) : s \o t \in Seq(K)
  OBVIOUS
<1> DEFINE w0 == IF walking THEN <<"W0">> ELSE <<>>
           stand == IF standing THEN <<>> ELSE RequestStand
           g == IF alertNew /\ standing THEN <<"G">> ELSE <<>>
           w == IF standing /\ (~walking \/ beat = 0) THEN <<"W">> ELSE stand
<1>8. /\ w0 \in Seq(K) /\ stand \in Seq(K) /\ g \in Seq(K)
      /\ w \in Seq(K)
  BY <1>5 DEF RequestStand
<1>9. ~standing /\ standWait = 0 => stand = <<"S">> /\ w = <<"S">> /\ g = <<>>
  BY DEF RequestStand
<1>10. \/ out' = Ahead \o (w0 \o stand)
       \/ out' = Ahead \o (w0 \o stand) \o g
       \/ out' = Ahead \o w
  BY <1>1, Zenon DEF ConversationBranch, PostureBranch, WalkBranch, IdleBranch, EnsureStanding
<1> HIDE DEF w0, stand, g, w
<1>11. out' \in Seq(K)
  <2>1. w0 \o stand \in Seq(K)
    BY <1>7, <1>8
  <2>2. Ahead \o (w0 \o stand) \in Seq(K) /\ Ahead \o w \in Seq(K)
    BY <1>6, <1>7, <1>8, <2>1
  <2>3. Ahead \o (w0 \o stand) \o g \in Seq(K)
    BY <1>7, <1>8, <2>2
  <2> QED BY <1>10, <2>2, <2>3, Zenon
<1>12. ASSUME ~standing, standWait = 0
       PROVE  \E s \in Seq(K) : out' = s \o <<"S">>
  <2>1. Ahead \o (w0 \o <<"S">>) = (Ahead \o w0) \o <<"S">>
    BY <1>5, <1>6, <1>8, ConcatGroups
  <2>2. Ahead \o (w0 \o <<"S">>) \o <<>> = Ahead \o (w0 \o <<"S">>)
    <3>1. Ahead \o (w0 \o <<"S">>) \in Seq(K)
      BY <1>5, <1>6, <1>7, <1>8
    <3> QED BY <3>1
  <2>3. out' = (Ahead \o w0) \o <<"S">> \/ out' = Ahead \o <<"S">>
    BY <1>9, <1>10, <1>12, <2>1, <2>2
  <2>4. Ahead \o w0 \in Seq(K)
    BY <1>6, <1>7, <1>8
  <2> QED BY <1>6, <2>3, <2>4
<1> QED BY <1>2, <1>3, <1>4, <1>11, <1>12

(* What it does to the queue.                                               *)
LEMMA FreeQueue ==
    ASSUME RobotTick, ~Blocked, NEW K, Moves \subseteq K, "E" \notin K, outbox \in Seq(K)
    PROVE  /\ queue' = Newest(queue \o out')
           /\ queue \in Seq(K) => queue' \in Seq(K)
<1>1. Tick /\ queue' = Offered(queue, out')
  BY DEF RobotTick
<1>2. out' \in Seq(K)
  BY <1>1, FreeSends
<1>3. out' # <<"E">>
  <2> SUFFICES ASSUME out' = <<"E">> PROVE FALSE
    OBVIOUS
  <2>1. <<"E">>[1] \in K
    BY <1>2
  <2> QED BY <2>1
<1>4. queue' = Newest(queue \o out')
  BY <1>1, <1>3, Zenon DEF Offered
<1>5. ASSUME queue \in Seq(K) PROVE queue' \in Seq(K)
  <2>1. queue \o out' \in Seq(K)
    BY <1>2, <1>5
  <2> QED BY <1>4, <2>1, NewestIs
<1> QED BY <1>4, <1>5

(* The newest commands of a queue hold the last one.                        *)
LEMMA LastStays ==
    ASSUME NEW S, NEW s \in Seq(S), NEW e \in S
    PROVE  e \in ToSet(Newest(s \o <<e>>))
<1> DEFINE cmds == s \o <<e>>
<1>1. cmds \in Seq(S) /\ Len(cmds) = Len(s) + 1 /\ cmds[Len(cmds)] = e /\ Len(s) \in Nat
  OBVIOUS
<1> HIDE DEF cmds
<1>2. QueueMax \in Nat \ {0}
  BY EmoRobotAssumption
<1>3. Newest(cmds) \in Seq(S)
  BY <1>1, NewestIs
<1>4. CASE Len(cmds) <= QueueMax
  <2>1. Newest(cmds) = cmds /\ Len(cmds) \in 1..Len(cmds)
    BY <1>1, <1>4 DEF Newest
  <2> QED BY <1>1, <2>1, InToSet DEF cmds
<1>5. CASE Len(cmds) > QueueMax
  <2>1. Newest(cmds) = SubSeq(cmds, Len(cmds) - QueueMax + 1, Len(cmds))
    BY <1>1, <1>2, <1>5 DEF Newest
  <2>2. /\ Len(SubSeq(cmds, Len(cmds) - QueueMax + 1, Len(cmds))) = QueueMax
        /\ SubSeq(cmds, Len(cmds) - QueueMax + 1, Len(cmds))[QueueMax] = cmds[Len(cmds)]
    BY <1>1, <1>2, <1>5
  <2>3. QueueMax \in 1..Len(Newest(cmds)) /\ Newest(cmds)[QueueMax] = e
    BY <1>1, <1>2, <2>1, <2>2
  <2> QED BY <1>3, <2>3, InToSet DEF cmds
<1> QED BY <1>1, <1>2, <1>4, <1>5

(* Standing, walking and a release take no legs down.                       *)
LEMMA MovesKeep == Moves \subseteq Keeping /\ "E" \notin Keeping /\ Moves \cup Tuning \subseteq Cmds
BY DEF Moves, Keeping, Cmds, Commands, Tuning

(* A message that holds nothing down asks for nothing that does.            *)
LEMMA MessageUp ==
    ASSUME NEW m, Message(m), ~Blocked', outbox \in Seq(Keeping)
    PROVE  standing' = standing /\ outbox' \in Seq(Keeping)
<1>1. standing' = standing
  BY MessageLegs
<1>2. /\ <<"G">> \in Seq(Keeping) /\ <<"T">> \in Seq(Keeping) /\ <<"D">> \in Seq(Keeping)
      /\ "K" \in Keeping
  BY DEF Keeping, Cmds, Commands, Tuning
<1>3. CASE QueueRaw(<<"G">>) \/ QueueRaw(<<"T">>) \/ QueueRaw(<<"D">>)
  <2>1. PICK c \in {"G", "T", "D"} : QueueRaw(<<c>>)
    BY <1>3
  <2>2. outbox' = outbox \/ outbox' = outbox \o <<c>>
    BY <2>1, Zenon DEF QueueRaw
  <2>3. <<c>> \in Seq(Keeping)
    BY <1>2, <2>1
  <2>4. outbox \o <<c>> \in Seq(Keeping)
    BY <2>3
  <2> QED BY <1>1, <2>2, <2>4, Zenon
<1>4. CASE Gains
  BY <1>1, <1>2, <1>4 DEF Gains, outboxVars
<1>5. CASE Calibrate
  <2>1. ~resting'
    BY DEF Blocked
  <2>2. outbox' = outbox
    BY <1>5, <2>1, Zenon DEF Calibrate, outboxVars
  <2> QED BY <1>1, <2>2
<1>6. CASE outbox' = outbox
  BY <1>1, <1>6
<1>7. \/ outbox' = outbox \/ Calibrate \/ Gains
      \/ QueueRaw(<<"G">>) \/ QueueRaw(<<"T">>) \/ QueueRaw(<<"D">>)
  BY Zenon DEF Message, Accept, Ignored, Error, Clear, Stand, Rest, Stop, WalkFor, WakeFlag,
     PostureState, outboxVars
<1> QED BY <1>1, <1>3, <1>4, <1>5, <1>6, <1>7

(* A line that holds nothing down and does not take the robot down.         *)
LEMMA LineUp ==
    ASSUME NEW l, SerialLine(l), ~TakesDown(l), standing, ~Blocked'
    PROVE  standing' /\ outbox' = outbox
<1>1. outbox' = outbox
  BY Zenon DEF SerialLine, outboxVars
<1>2. ~Fell /\ ~ImuFailed
  BY Zenon DEF Fell, ImuFailed, Blocked
<1>3. \/ AckStand(l.info) \/ AckImu \/ Watchdog
      \/ UNCHANGED <<estopVars, imuVars, fallVars, legVars>>
  BY <1>2, Zenon DEF SerialLine, TakesDown
<1>4. standing'
  BY <1>3, Zenon DEF AckStand, AckImu, Watchdog, legVars
<1> QED BY <1>1, <1>4

(* What a controller with power answers to a command that does not switch   *)
(* it off: it may refuse a stand for its tilt, which holds the robot down.  *)
LEMMA ExecuteUp ==
    ASSUME Execute, downlink \in Seq(Keeping), uplink \in Seq(LineSet),
           power, power \in BOOLEAN, stopLatch => ~power
    PROVE  power' /\ \E l \in LineSet : uplink' = Append(uplink, l) /\ ~TakesDown(l)
<1> DEFINE c == Head(downlink)
<1>1. c \in Keeping /\ c \in Cmds /\ Obeys(c)
  BY DEF Execute, Keeping
<1> HIDE DEF c
<1>2. \A k \in {"ACK", "NACK"}, i \in {"none", "NOIMU", "ESTOP", "TILTED", "MODE", "REFUSED"} :
        /\ Line(k, c, i) \in LineSet
        /\ (k = "ACK" \/ (i = "TILTED" /\ c = "S") \/ c \notin {"S", "W"})
              => ~TakesDown(Line(k, c, i))
  <2> TAKE k \in {"ACK", "NACK"}, i \in {"none", "NOIMU", "ESTOP", "TILTED", "MODE", "REFUSED"}
  <2>1. /\ Line(k, c, i) \in LineSet
        /\ Line(k, c, i).kind = k /\ Line(k, c, i).cmd = c /\ Line(k, c, i).info = i
    BY <1>1 DEF Line, LineSet, Infos
  <2>2. k = "ACK" => ~TakesDown(Line(k, c, i))
    BY <1>1, <2>1 DEF TakesDown, IsRefusedMove, Keeping
  <2>3. k = "NACK" /\ c \notin {"S", "W"} => ~TakesDown(Line(k, c, i))
    BY <2>1 DEF TakesDown, IsRefusedMove
  <2>4. k = "NACK" /\ c = "S" /\ i = "TILTED" => ~TakesDown(Line(k, c, i))
    BY <2>1 DEF TakesDown, IsRefusedMove, IsFall
  <2> QED BY <2>1, <2>2, <2>3, <2>4
<1>3. CASE c = "S" /\ Stands
  <2>1. power'
    BY <1>3 DEF Stands, ctlVars
  <2>2. \E i \in {"none", "NOIMU"} : uplink' = Append(uplink, Line("ACK", c, i))
    BY <1>3, Zenon DEF Stands, Reply, c
  <2> QED BY <1>2, <2>1, <2>2
<1>4. CASE c = "S" /\ StandRefused
  <2>1. power' = power /\ uplink' = Append(uplink, Line("NACK", c, "TILTED"))
    BY <1>4, Zenon DEF StandRefused, Reply, c
  <2> QED BY <1>2, <1>4, <2>1
<1>5. CASE c = "R" /\ Leg!Release /\ Reply("ACK", "none")
  <2>1. power' = power /\ uplink' = Append(uplink, Line("ACK", c, "none"))
    BY <1>5 DEF Leg!Release, Reply, c
  <2> QED BY <1>2, <2>1
<1>6. CASE c = "I" /\ ProbesImu
  <2>1. power' = power
    BY <1>6 DEF ProbesImu
  <2>2. \E k \in {"ACK", "NACK"}, i \in {"none", "MODE", "NOIMU"} :
           uplink' = Append(uplink, Line(k, c, i))
    BY <1>6, Zenon DEF ProbesImu, Reply, c
  <2> QED BY <1>2, <1>6, <2>1, <2>2
<1>7. CASE c \in {"P", "G", "T", "D", "K", "C"} /\ Serves(c)
  <2>1. power' = power
    BY <1>7 DEF Serves, ctlVars
  <2>2. \E k \in {"ACK", "NACK"}, i \in {"none", "REFUSED"} :
           uplink' = Append(uplink, Line(k, c, i))
    BY <1>7, Zenon DEF Serves, Reply, c
  <2> QED BY <1>2, <1>7, <2>1, <2>2
<1> QED BY <1>1, <1>3, <1>4, <1>5, <1>6, <1>7 DEF Obeys, Keeping

(* The step lemma of StaysUp, one case per action that touches Up.          *)
LEMMA UpStep ==
    ASSUME LinkTypes, stopLatch => ~power, [RobotNext]_rvars, Up, ~Blocked, ~Blocked',
           ~Incident, ~SelfReset, ~PortFails
    PROVE  Up'
<1>1. /\ power /\ standing /\ port \in {"idle", "sending"}
      /\ queue \in Seq(Keeping) /\ downlink \in Seq(Keeping) /\ outbox \in Seq(Keeping)
      /\ \A i \in 1..Len(uplink) : ~TakesDown(uplink[i])
      /\ uplink \in Seq(LineSet) /\ queue \in Seq(Cmds)
  BY DEF Up, LinkTypes
<1>2. ASSUME power', standing', port' \in {"idle", "sending"}, queue' \in Seq(Keeping),
             downlink' \in Seq(Keeping), outbox' \in Seq(Keeping),
             \A i \in 1..Len(uplink') : ~TakesDown(uplink'[i])
      PROVE  Up'
  BY <1>2 DEF Up
<1>3. CASE RobotTick
  <2>1. Tick /\ UNCHANGED <<port, downlink, uplink, power>>
    BY <1>3, Zenon DEF RobotTick, ctlVars
  <2>2. standing' = standing /\ outbox' = <<>>
    BY <1>1, <2>1, MovesKeep, FreeSends, Zenon
  <2>3. queue' \in Seq(Keeping)
    BY <1>1, <1>3, MovesKeep, FreeQueue
  <2>4. <<>> \in Seq(Keeping)
    OBVIOUS
  <2> QED BY <1>1, <1>2, <2>1, <2>2, <2>3, <2>4
<1>4. CASE \E m \in Messages : RobotMessage(m)
  <2>1. PICK m \in Messages : RobotMessage(m)
    BY <1>4
  <2>2. Message(m) /\ UNCHANGED <<queue, port, downlink, uplink, power>>
    BY <2>1, Zenon DEF RobotMessage, linkVars, ctlVars
  <2>3. standing' = standing /\ outbox' \in Seq(Keeping)
    BY <1>1, <2>2, MessageUp
  <2> QED BY <1>1, <1>2, <2>2, <2>3
<1>5. CASE Take
  <2>1. standing' = standing /\ outbox' = outbox
    BY <1>5, Zenon DEF Take, Still, Ignored, legVars, outboxVars
  <2>2. UNCHANGED <<uplink, power>> /\ port' = "sending" /\ downlink' = Append(downlink, sent')
    BY <1>5, Zenon DEF Take, ctlVars
  <2>3. sent' \in Keeping /\ queue' \in Seq(Keeping)
    <3>1. CASE queue = <<>>
      BY <1>1, <1>5, <3>1 DEF Take, Keeping, Cmds
    <3>2. CASE queue # <<>>
      <4>1. Head(queue) \in Keeping /\ Tail(queue) \in Seq(Keeping)
        BY <1>1, <3>2
      <4> QED BY <1>5, <3>2, <4>1 DEF Take
    <3> QED BY <3>1, <3>2
  <2>4. downlink' \in Seq(Keeping)
    BY <1>1, <2>2, <2>3
  <2> QED BY <1>1, <1>2, <2>1, <2>2, <2>3, <2>4
<1>6. CASE ReadLine
  <2>1. /\ uplink # <<>> /\ uplink' = Tail(uplink) /\ SerialLine(Head(uplink))
        /\ UNCHANGED <<queue, downlink, power>>
    BY <1>6, Zenon DEF ReadLine, ctlVars
  <2>2. ~TakesDown(Head(uplink))
    BY <1>1, <2>1
  <2>3. standing' /\ outbox' = outbox
    BY <1>1, <2>1, <2>2, LineUp
  <2>4. port' \in {"idle", "sending"}
    BY <1>6, <2>2 DEF ReadLine, TakesDown, IsBanner
  <2>5. \A i \in 1..Len(uplink') : ~TakesDown(uplink'[i])
    <3>1. \A i \in 1..Len(Tail(uplink)) :
             i + 1 \in 1..Len(uplink) /\ Tail(uplink)[i] = uplink[i + 1]
      BY <1>1, <2>1
    <3> QED BY <1>1, <2>1, <3>1
  <2> QED BY <1>1, <1>2, <2>1, <2>3, <2>4, <2>5
<1>7. CASE Timeout
  <2>1. standing' = standing /\ outbox' = outbox
    BY <1>7, Zenon DEF Timeout, Still, Ignored, legVars, outboxVars
  <2>2. UNCHANGED <<queue, downlink, uplink, power>> /\ port' = "idle"
    BY <1>7, Zenon DEF Timeout, ctlVars
  <2> QED BY <1>1, <1>2, <2>1, <2>2
<1>8. CASE Execute
  <2>1. standing' = standing /\ outbox' = outbox
    BY <1>8, Zenon DEF Execute, Still, Ignored, legVars, outboxVars
  <2>2. UNCHANGED <<queue, port>> /\ downlink # <<>> /\ downlink' = Tail(downlink)
    BY <1>8, Zenon DEF Execute
  <2>3. power' /\ \E l \in LineSet : uplink' = Append(uplink, l) /\ ~TakesDown(l)
    BY <1>1, <1>8, ExecuteUp DEF LinkTypes
  <2>4. PICK l \in LineSet : uplink' = Append(uplink, l) /\ ~TakesDown(l)
    BY <2>3
  <2>5. /\ Len(uplink') = Len(uplink) + 1 /\ Len(uplink) \in Nat
        /\ \A i \in 1..Len(uplink) : uplink'[i] = uplink[i]
        /\ uplink'[Len(uplink) + 1] = l
    BY <1>1, <2>4
  <2>6. \A i \in 1..Len(uplink') : ~TakesDown(uplink'[i])
    <3> TAKE i \in 1..Len(uplink')
    <3>1. i \in 1..Len(uplink) \/ i = Len(uplink) + 1
      BY <2>5
    <3> QED BY <1>1, <2>4, <2>5, <3>1
  <2>7. downlink' \in Seq(Keeping)
    BY <1>1, <2>2
  <2> QED BY <1>1, <1>2, <2>1, <2>2, <2>3, <2>6, <2>7
<1>9. CASE UNCHANGED rvars
  BY <1>1, <1>2, <1>9, Zenon DEF rvars, vars, legVars, outboxVars, linkVars, ctlVars
<1>10. ~Open /\ ~WaitLine /\ ~Connect /\ ~Resume
  BY <1>1 DEF Open, WaitLine, Connect, Resume
<1> QED BY <1>3, <1>4, <1>5, <1>6, <1>7, <1>8, <1>9, <1>10, Zenon DEF RobotNext, SerialTask

(* A closed latch always means servos off.                                  *)
LEMMA LatchMeansOff == RobotSpec => [](stopLatch => ~power)
<1>1. RobotInit => (stopLatch => ~power)
  BY DEF RobotInit, Leg!Init
<1>2. (stopLatch => ~power) /\ [RobotNext]_rvars => (stopLatch' => ~power')
  BY LegStep
<1> QED BY <1>1, <1>2, PTL DEF RobotSpec

(* A robot that stands with nothing under way against it goes on standing,  *)
(* whatever is queued, written, answered late or asked for, as long as the  *)
(* link holds and nothing holds it down.                                    *)
THEOREM StandingStaysUp == RobotSpec => StaysUp
<1>1. LinkTypes /\ (stopLatch => ~power) /\ [RobotNext]_rvars
        => [Up /\ ~Blocked /\ ~Blocked' /\ ~Incident /\ ~SelfReset /\ ~PortFails => Up']_rvars
  BY UpStep
<1>2. RobotInv => LinkTypes
  BY Zenon DEF RobotInv
<1> QED BY <1>1, <1>2, RobotInvariant, LatchMeansOff, PTL DEF RobotSpec, StaysUp

(* A robot that may stand and does not is told to, within the retry time,   *)
(* whatever fills the queue: the command goes in last, so it is not the one *)
(* that gives way.                                                          *)
THEOREM StandAlwaysAsked == RobotSpec => StandIsAsked
<1>1. ASSUME LinkTypes, OutboxTuning, RobotTick, ~Blocked, ~standing
      PROVE  IF standWait = 0 THEN "S" \in ToSet(queue') ELSE standWait' = standWait - 1
  <2> DEFINE K == Moves \cup Tuning
  <2>1. Moves \subseteq K /\ "E" \notin K /\ K \subseteq Cmds
    BY MovesKeep DEF Moves, Tuning
  <2>2. \A i \in 1..Len(outbox) : outbox[i] \in K
    BY <1>1 DEF OutboxTuning
  <2>3. outbox \in Seq(K)
    BY <1>1, <2>2 DEF OutboxTuning
  <2> HIDE DEF K
  <2>4. Tick
    BY <1>1 DEF RobotTick
  <2>5. standWait # 0 => standWait' = standWait - 1
    BY <1>1, <2>1, <2>3, <2>4, FreeSends
  <2>6. ASSUME standWait = 0 PROVE "S" \in ToSet(queue')
    <3>1. PICK s \in Seq(K) : out' = s \o <<"S">>
      BY <1>1, <2>1, <2>3, <2>4, <2>6, FreeSends
    <3>2. queue' = Newest(queue \o out')
      BY <1>1, <2>1, <2>3, FreeQueue
    <3>3. /\ queue \in Seq(Cmds) /\ s \in Seq(Cmds) /\ "S" \in Cmds
          /\ <<"S">> \in Seq(Cmds)
      <4>1. \A i \in 1..Len(s) : s[i] \in Cmds
        BY <2>1
      <4>2. s \in Seq(Cmds)
        BY <4>1
      <4> QED BY <1>1, <4>2 DEF LinkTypes, Cmds, Commands
    <3>4. queue \o out' = (queue \o s) \o <<"S">> /\ queue \o s \in Seq(Cmds)
      BY <3>1, <3>3, ConcatGroups
    <3> QED BY <3>2, <3>3, <3>4, LastStays
  <2> QED BY <2>5, <2>6
<1>2. RobotInv => LinkTypes /\ OutboxTuning
  BY Zenon DEF RobotInv, TreeInv
<1>3. LinkTypes /\ OutboxTuning
      => [RobotTick /\ ~Blocked /\ ~standing
            => IF standWait = 0 THEN "S" \in ToSet(queue') ELSE standWait' = standWait - 1]_rvars
  BY <1>1
<1> QED BY <1>2, <1>3, RobotInvariant, PTL DEF RobotSpec, StandIsAsked

=============================================================================
