----------------------------- MODULE FrameReader -----------------------------
(***************************************************************************)
(* The framing of the serial line: src/src/serial_framing.rs.  A frame is  *)
(* START1, START2, a length in two bytes and the payload; frame_payload    *)
(* writes one, and struct FrameReader finds frames in the bytes it is fed. *)
(***************************************************************************)
EXTENDS Integers, Sequences

CONSTANTS
    Base,           \* values of a byte, 256 in the program
    START1, START2, \* 0x94 and 0xC3
    MaxPacketSize   \* MAX_PACKET_SIZE, 512 in the program

Byte == 0..(Base - 1)

ASSUME FramingAssumption ==
    /\ Base \in Nat \ {0}
    /\ START1 \in Byte /\ START2 \in Byte /\ START1 # START2
    /\ MaxPacketSize \in Nat /\ MaxPacketSize < Base * Base

VARIABLES
    state,      \* self.state: where it is, and the number it carries there
    buf,        \* self.buf
    frames      \* every frame feed has returned so far, oldest first

readerVars == <<state, buf, frames>>

At(label, n) == [at |-> label, n |-> n]

NewReader == state = At("WaitStart1", 0) /\ buf = <<>> /\ frames = <<>>

-----------------------------------------------------------------------------
(* feed, state by state. *)

OnStart1(b) ==
    /\ state' = IF b = START1 THEN At("WaitStart2", 0) ELSE state
    /\ UNCHANGED <<buf, frames>>

\* Variant: a second START1 is taken for garbage.
OnStart2Restarts(b) ==
    /\ state' = IF b = START2 THEN At("ReadLenHigh", 0) ELSE At("WaitStart1", 0)
    /\ UNCHANGED <<buf, frames>>

OnStart2(b) ==
    /\ state' = CASE b = START2 -> At("ReadLenHigh", 0)
                  [] b = START1 -> state
                  [] OTHER -> At("WaitStart1", 0)
    /\ UNCHANGED <<buf, frames>>

OnLenHigh(b) == state' = At("ReadLenLow", b) /\ UNCHANGED <<buf, frames>>

\* Variant: a frame of the largest size is refused.
OnLenLowRejectsMax(b) ==
    LET len == state.n * Base + b
        wanted == len > 0 /\ len < MaxPacketSize IN
    /\ state' = IF wanted THEN At("ReadPayload", len) ELSE At("WaitStart1", 0)
    /\ buf' = IF wanted THEN <<>> ELSE buf
    /\ frames' = IF len = 0 THEN Append(frames, <<>>) ELSE frames

\* A length over the limit restarts the search behind the header; an empty
\* payload is a frame at once.
OnLenLow(b) ==
    LET len == state.n * Base + b
        wanted == len > 0 /\ len <= MaxPacketSize IN
    /\ state' = IF wanted THEN At("ReadPayload", len) ELSE At("WaitStart1", 0)
    /\ buf' = IF wanted THEN <<>> ELSE buf
    /\ frames' = IF len = 0 THEN Append(frames, <<>>) ELSE frames

\* Variant: the payload is given up one byte late.
OnPayloadLate(b) ==
    LET done == Len(buf) >= state.n IN
    /\ state' = IF done THEN At("WaitStart1", 0) ELSE state
    /\ buf' = IF done THEN <<>> ELSE Append(buf, b)
    /\ frames' = IF done THEN Append(frames, Append(buf, b)) ELSE frames

OnPayload(b) ==
    LET done == Len(buf) + 1 >= state.n IN
    /\ state' = IF done THEN At("WaitStart1", 0) ELSE state
    /\ buf' = IF done THEN <<>> ELSE Append(buf, b)
    /\ frames' = IF done THEN Append(frames, Append(buf, b)) ELSE frames

Feed(b) ==
    \/ state.at = "WaitStart1" /\ OnStart1(b)
    \/ state.at = "WaitStart2" /\ OnStart2(b)
    \/ state.at = "ReadLenHigh" /\ OnLenHigh(b)
    \/ state.at = "ReadLenLow" /\ OnLenLow(b)
    \/ state.at = "ReadPayload" /\ OnPayload(b)

-----------------------------------------------------------------------------
(* frame_payload: the length goes out in two bytes, whatever it is. *)

LenHigh(n) == (n \div Base) % Base
LenLow(n) == n % Base

FramePayload(p) == <<START1, START2, LenHigh(Len(p)), LenLow(Len(p))>> \o p

-----------------------------------------------------------------------------
\* Types of the reader; a payload under way is always incomplete and never
\* larger than the limit (serial_framing.rs:55-74).
ReaderTypeOK ==
    /\ state \in [at : {"WaitStart1", "WaitStart2", "ReadLenHigh", "ReadLenLow", "ReadPayload"},
                  n : Nat]
    /\ buf \in Seq(Byte) /\ frames \in Seq(Seq(Byte))
    /\ state.at = "ReadLenLow" => state.n \in Byte
    /\ state.at = "ReadPayload" => Len(buf) < state.n /\ state.n <= MaxPacketSize
=============================================================================
