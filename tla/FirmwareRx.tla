----------------------------- MODULE FirmwareRx -----------------------------
(***************************************************************************)
(* The receiver of the leg controller (handleSerialInput in               *)
(* emo_esp32.ino): bytes become lines, a line that does not fit the        *)
(* buffer is refused as a whole.  What a line says is left to Firmware;    *)
(* here it is a sequence of characters, and the controller may reset in    *)
(* the middle of one.                                                      *)
(***************************************************************************)
EXTENDS Integers, Sequences

CONSTANTS
    Chars,    \* what a line is made of: any byte but "\r" and "\n"
    BufSize   \* RX_BUF_SIZE, one place of which holds the terminator

VARIABLES
    rxBuf,         \* rxBuf[0 .. rxLen - 1]
    rxDiscarding,
    ran,           \* the line the last byte made processCommand run, or <<>>
    refused,       \* the last byte was answered with NACK,?,OVERFLOW
    heard,         \* what the Pi has sent of the present line since it began or,
                   \* if that was later, since the controller booted
    cutOff         \* what it had sent of that line before the controller booted

vars == <<rxBuf, rxDiscarding, ran, refused, heard, cutOff>>

(* The present line as the Pi sends it, "\r" left out.                      *)
Line == cutOff \o heard

Init ==
    /\ rxBuf = <<>> /\ rxDiscarding = FALSE /\ ran = <<>> /\ refused = FALSE
    /\ heard = <<>> /\ cutOff = <<>>

EndOfLine ==
    /\ ran' = IF rxDiscarding THEN <<>> ELSE rxBuf
    /\ rxBuf' = <<>> /\ rxDiscarding' = FALSE
    /\ refused' = FALSE /\ heard' = <<>> /\ cutOff' = <<>>

CarriageReturn ==
    ran' = <<>> /\ refused' = FALSE /\ UNCHANGED <<rxBuf, rxDiscarding, heard, cutOff>>

Receive(c) ==
    /\ heard' = Append(heard, c) /\ ran' = <<>> /\ UNCHANGED cutOff
    /\ \/ rxDiscarding /\ refused' = FALSE /\ UNCHANGED <<rxBuf, rxDiscarding>>
       \/ /\ ~rxDiscarding /\ Len(rxBuf) < BufSize - 1
          /\ rxBuf' = Append(rxBuf, c) /\ refused' = FALSE /\ UNCHANGED rxDiscarding
       \/ /\ ~rxDiscarding /\ Len(rxBuf) >= BufSize - 1
          /\ rxBuf' = <<>> /\ rxDiscarding' = TRUE /\ refused' = TRUE

(* A reset: what came before it is gone.  The Pi knows nothing of it and    *)
(* goes on with the line it was sending.                                    *)
Reset ==
    /\ rxBuf' = <<>> /\ rxDiscarding' = FALSE
    /\ ran' = <<>> /\ refused' = FALSE
    /\ cutOff' = Line /\ heard' = <<>>

Next == EndOfLine \/ CarriageReturn \/ (\E c \in Chars : Receive(c)) \/ Reset

Spec == Init /\ [][Next]_vars

-----------------------------------------------------------------------------
(* The buffer holds what was heard of the line, as long as that fits; it is *)
(* never written past its end.                                              *)
IsFlag == rxDiscarding \in BOOLEAN
Contents ==
    /\ heard \in Seq(Chars)
    /\ rxBuf = IF rxDiscarding THEN <<>> ELSE heard
    /\ rxDiscarding <=> Len(heard) > BufSize - 1
Buffered == IsFlag /\ Contents

(* What runs is the line that ends there - no tail of a long one, no prefix,*)
(* no two that ran together - but for what a reset in the middle of it took *)
(* away (cutOff, empty otherwise); and what fits is never dropped.          *)
WholeLinesRun == [][/\ ran' # <<>> => Line = cutOff \o ran'
                    /\ EndOfLine /\ Len(heard) < BufSize => Line = cutOff \o ran']_vars

(* A line that does not fit is refused, exactly at its first byte too many. *)
RefusedOnce == [][refused' <=> Len(heard) < BufSize /\ Len(heard') >= BufSize]_vars

=============================================================================
