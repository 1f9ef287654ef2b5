------------------------------ MODULE FrameLine ------------------------------
(***************************************************************************)
(* A frame reader at the end of a serial line, on which frame_payload puts *)
(* frames and which carries other bytes between them (the log lines of the *)
(* radio's console).  Bytes are neither lost nor changed, and between two  *)
(* frames START1 is never followed by START2.                              *)
(***************************************************************************)
EXTENDS FrameReader

CONSTANT MaxFrames  \* bound: frames written

ASSUME MaxFramesAssumption == MaxFrames \in Nat

VARIABLES
    sent,       \* the payloads framed so far, oldest first
    position,   \* the next byte of the last frame to go on the line, 0 if none
    open        \* the last byte of the noise since the last frame is START1

vars == <<state, buf, frames, sent, position, open>>

Payload == UNION {[1..n -> Byte] : n \in 0..MaxPacketSize}

Init == NewReader /\ sent = <<>> /\ position = 0 /\ open = FALSE

\* One end of the line writes a frame.
Begin(p) ==
    /\ position = 0 /\ Len(sent) < MaxFrames
    /\ sent' = Append(sent, p) /\ position' = 1
    /\ UNCHANGED <<state, buf, frames, open>>

\* The next byte of the frame reaches the reader.
Transmit ==
    LET frame == FramePayload(sent[Len(sent)]) IN
    /\ position # 0
    /\ Feed(frame[position])
    /\ position' = IF position = Len(frame) THEN 0 ELSE position + 1
    /\ open' = FALSE
    /\ UNCHANGED sent

\* A byte that belongs to no frame reaches the reader.
Noise(b) ==
    /\ position = 0
    /\ ~(open /\ b = START2)
    /\ Feed(b)
    /\ open' = (b = START1)
    /\ UNCHANGED <<sent, position>>

Next == Transmit \/ (\E p \in Payload : Begin(p)) \/ (\E b \in Byte : Noise(b))

Spec == Init /\ [][Next]_vars

-----------------------------------------------------------------------------
\* Types of the line.
TypeOK ==
    /\ ReaderTypeOK
    /\ sent \in Seq(Payload) /\ position \in Nat /\ open \in BOOLEAN
    /\ position # 0 => Len(sent) > 0 /\ position <= 4 + Len(sent[Len(sent)])

\* Where the reader is in the frame on the line: it follows the header byte
\* by byte, whatever noise came before, and collects the payload.
InStep ==
    LET p == sent[Len(sent)] IN
    /\ position \in {0, 1} => state.at = IF open THEN "WaitStart2" ELSE "WaitStart1"
    /\ position = 2 => state.at = "WaitStart2"
    /\ position = 3 => state.at = "ReadLenHigh"
    /\ position = 4 => state.at = "ReadLenLow" /\ state.n = LenHigh(Len(p))
    /\ position > 4 => /\ state.at = "ReadPayload" /\ state.n = Len(p)
                       /\ Len(buf) = position - 5
                       /\ \A i \in 1..Len(buf) : buf[i] = p[i]

\* Every frame that was completely on the line came out, unchanged and in
\* order, and the noise brought none (serial_framing.rs:29-76 against 91-100).
Delivered ==
    /\ Len(frames) = IF position = 0 THEN Len(sent) ELSE Len(sent) - 1
    /\ \A i \in 1..Len(frames) : frames[i] = sent[i]

\* The inductive invariant.
IInv == TypeOK /\ InStep /\ Delivered

\* The line implements the queue of payloads.
Fifo == INSTANCE FrameFifo WITH sent <- sent, frames <- frames
ImplementsFifo == Fifo!Spec
=============================================================================
