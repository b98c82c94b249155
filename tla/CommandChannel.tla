--------------------------- MODULE CommandChannel ---------------------------
(***************************************************************************)
(* What the serial link promises about the commands of the behavior tree:  *)
(* each is executed at most once, in the order in which they were asked    *)
(* for.  Commands that wait may be dropped - by a full queue, an E-stop, a *)
(* reset, an unplugged cable or the shutdown - but none overtakes another, *)
(* none runs twice, and no other comes up by itself.  The legs are powered *)
(* only by an S whose turn it is.  SerialLink implements it.               *)
(***************************************************************************)
EXTENDS Naturals, Sequences

CONSTANT Commands

VARIABLES
    pending,  \* the commands that wait, the next one first
    powered   \* the legs

channelVars == <<pending, powered>>

Init == pending = <<>> /\ powered = FALSE

(* s without n neighbours after the i-th; without a run of neighbours.      *)
Cut(s, i, n) == SubSeq(s, 1, i) \o SubSeq(s, i + n + 1, Len(s))

Cuts(s) == {Cut(s, i, n) : i, n \in 0..Len(s)}

Drop == pending' \in Cuts(pending) /\ UNCHANGED powered

(* A new command is the last, and others may make room for it.              *)
Ask ==
    /\ \E c \in Commands, kept \in Cuts(pending) : pending' = Append(kept, c)
    /\ UNCHANGED powered

Execute ==
    /\ pending # <<>>
    /\ pending' = Tail(pending)
    /\ powered' \in CASE Head(pending) = "S" -> {powered, TRUE}
                      [] Head(pending) \in {"O", "E"} -> {FALSE}
                      [] OTHER -> {powered}

(* The controller boots and forgets what it had received.                   *)
Boot == pending' \in Cuts(pending) /\ powered' = FALSE

Next == Drop \/ Ask \/ Execute \/ Boot

Spec == Init /\ [][Next]_channelVars

=============================================================================
