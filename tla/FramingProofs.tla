---------------------------- MODULE FramingProofs ----------------------------
(***************************************************************************)
(* Framing is correct for every byte width, every limit and every stream   *)
(* of payloads and noise: IInv of module FrameLine is inductive, and the   *)
(* line implements the queue of payloads of module FrameFifo.  And on any  *)
(* bytes at all the reader finds the frames of module FrameBytes.          *)
(***************************************************************************)
EXTENDS FrameLine, FrameBytes, TLAPS

(* The line. *)

\* The two length bytes of frame_payload are bytes, and together they give
\* the length back to the reader (serial_framing.rs:51-52 and 95-96).
LEMMA LengthBytes ==
    ASSUME NEW n \in 0..MaxPacketSize
    PROVE  /\ LenHigh(n) \in Byte /\ LenLow(n) \in Byte
           /\ LenHigh(n) * Base + LenLow(n) = n
<1>1. Base \in Nat /\ Base > 0 /\ n \in Nat /\ n < Base * Base
  BY FramingAssumption, SMT
<1>2. n = Base * (n \div Base) + (n % Base) /\ n % Base \in 0..(Base - 1) /\ n \div Base \in Nat
  BY <1>1, SMT
<1>3. n \div Base < Base
  <2>1. SUFFICES ASSUME n \div Base >= Base PROVE FALSE
    BY <1>1, <1>2, SMT
  <2>2. Base * (n \div Base) >= Base * Base
    BY <1>1, <1>2, <2>1, SMT
  <2> QED BY <1>1, <1>2, <2>2, SMT
<1>4. (n \div Base) % Base = n \div Base
  BY <1>1, <1>2, <1>3, SMT
<1> QED BY <1>1, <1>2, <1>3, <1>4, SMT DEF LenHigh, LenLow, Byte
\* A payload is a sequence of bytes within the limit.
LEMMA PayloadType ==
    ASSUME NEW p \in Payload
    PROVE  p \in Seq(Byte) /\ Len(p) \in 0..MaxPacketSize
<1>1. PICK n \in 0..MaxPacketSize : p \in [1..n -> Byte]
  BY DEF Payload
<1>2. n \in Nat
  BY FramingAssumption, SMT
<1> QED BY <1>1, <1>2

\* What frame_payload puts on the line (serial_framing.rs:91-100).
LEMMA FrameShape ==
    ASSUME NEW p \in Payload
    PROVE  /\ Len(FramePayload(p)) = 4 + Len(p)
           /\ FramePayload(p)[1] = START1
           /\ FramePayload(p)[2] = START2
           /\ FramePayload(p)[3] = LenHigh(Len(p))
           /\ FramePayload(p)[4] = LenLow(Len(p))
           /\ \A i \in 1..Len(p) : FramePayload(p)[4 + i] = p[i]
<1>1. p \in Seq(Byte)
  BY PayloadType
<1> QED BY <1>1 DEF FramePayload

THEOREM InitIInv == Init => IInv
<1> SUFFICES ASSUME Init PROVE IInv
  OBVIOUS
<1> USE DEF Init, NewReader, At
<1>1. TypeOK
  <2>1. ReaderTypeOK
    BY DEF ReaderTypeOK
  <2>2. sent \in Seq(Payload) /\ position \in Nat
    OBVIOUS
  <2>3. open \in BOOLEAN
    BY Zenon
  <2> QED BY <2>1, <2>2, <2>3 DEF TypeOK
<1>2. InStep
  BY DEF InStep
<1>3. Delivered
  BY DEF Delivered
<1> QED BY <1>1, <1>2, <1>3 DEF IInv

LEMMA BeginStep ==
    ASSUME IInv, NEW p \in Payload, Begin(p)
    PROVE  IInv'
<1> USE DEF IInv, Begin, TypeOK
<1>1. sent' \in Seq(Payload) /\ Len(sent') = Len(sent) + 1 /\ sent'[Len(sent')] = p
  OBVIOUS
<1>2. \A i \in 1..Len(sent) : sent'[i] = sent[i]
  OBVIOUS
<1>3. Len(p) \in Nat
  BY PayloadType, FramingAssumption
<1>4. TypeOK'
  BY <1>1, <1>3 DEF ReaderTypeOK
<1>5. InStep'
  BY DEF InStep
<1>6. Delivered'
  BY <1>1, <1>2 DEF Delivered, ReaderTypeOK
<1> QED BY <1>4, <1>5, <1>6

LEMMA NoiseStep ==
    ASSUME IInv, NEW b \in Byte, Noise(b)
    PROVE  IInv'
<1> USE DEF IInv, Noise, At
<1>1. /\ state.at = IF open THEN "WaitStart2" ELSE "WaitStart1"
      /\ open \in BOOLEAN
  BY DEF InStep, TypeOK
<1>2. /\ UNCHANGED <<buf, frames>>
      /\ state' \in [at : {"WaitStart1", "WaitStart2"}, n : Nat]
      /\ state'.at = IF b = START1 THEN "WaitStart2" ELSE "WaitStart1"
  <2>1. CASE open
    <3>1. OnStart2(b) /\ b # START2
      BY <1>1, <2>1 DEF Feed
    <3> QED BY <1>1, <2>1, <3>1 DEF OnStart2, TypeOK, ReaderTypeOK
  <2>2. CASE ~open
    <3>1. OnStart1(b)
      BY <1>1, <2>2 DEF Feed
    <3> QED BY <1>1, <2>2, <3>1 DEF OnStart1, TypeOK, ReaderTypeOK
  <2> QED BY <2>1, <2>2
<1>3. TypeOK'
  BY <1>2 DEF TypeOK, ReaderTypeOK
<1>4. InStep'
  BY <1>2 DEF InStep
<1>5. Delivered'
  BY <1>2 DEF Delivered
<1> QED BY <1>3, <1>4, <1>5

\* A complete frame added to the ones before it.
LEMMA AppendFrame ==
    ASSUME NEW q \in Seq(Byte), frames \in Seq(Seq(Byte)),
           Len(sent) \in Nat, Len(frames) = Len(sent) - 1, q = sent[Len(sent)],
           \A i \in 1..Len(frames) : frames[i] = sent[i]
    PROVE  /\ Append(frames, q) \in Seq(Seq(Byte))
           /\ Len(Append(frames, q)) = Len(sent)
           /\ \A i \in 1..Len(sent) : Append(frames, q)[i] = sent[i]
<1> DEFINE W == Seq(Byte)
<1>1. q \in W /\ frames \in Seq(W)
  OBVIOUS
<1> HIDE DEF W
<1>2. Append(frames, q) \in Seq(W) /\ Len(Append(frames, q)) = Len(sent)
  BY <1>1
<1>3. ASSUME NEW i \in 1..Len(sent) PROVE Append(frames, q)[i] = sent[i]
  BY <1>1
<1> QED BY <1>2, <1>3 DEF W

LEMMA TransmitStep ==
    ASSUME IInv, Transmit
    PROVE  /\ IInv'
           /\ \/ frames' = frames
              \/ Len(frames) < Len(sent) /\ frames' = Append(frames, sent[Len(frames) + 1])
<1> DEFINE p == sent[Len(sent)]
           frame == FramePayload(p)
<1> USE DEF IInv
<1>1. /\ sent \in Seq(Payload) /\ Len(sent) > 0
      /\ position \in 1..(4 + Len(p)) /\ p \in Payload
  BY DEF TypeOK, Transmit
<1>2. p \in Seq(Byte) /\ Len(p) \in 0..MaxPacketSize /\ Len(p) \in Nat /\ Len(frame) = 4 + Len(p)
  BY <1>1, PayloadType, FrameShape, FramingAssumption
<1>3. /\ Feed(frame[position]) /\ UNCHANGED sent
      /\ position' = IF position = 4 + Len(p) THEN 0 ELSE position + 1
  BY <1>2 DEF Transmit
<1>4. open' \in BOOLEAN
  BY Zenon DEF Transmit
<1>5. ~open'
  BY Zenon DEF Transmit
<1>6. Len(frames) = Len(sent) - 1 /\ frames \in Seq(Seq(Byte))
  BY <1>1 DEF Delivered, TypeOK, ReaderTypeOK
\* The step that completes the frame.
<1>7. ASSUME state' = [at |-> "WaitStart1", n |-> 0], buf' \in Seq(Byte),
             frames' = Append(frames, p), position' = 0
      PROVE  /\ IInv'
             /\ Len(frames) < Len(sent) /\ frames' = Append(frames, sent[Len(frames) + 1])
  <2>1. /\ Append(frames, p) \in Seq(Seq(Byte)) /\ Len(Append(frames, p)) = Len(sent)
        /\ \A i \in 1..Len(sent) : Append(frames, p)[i] = sent[i]
    BY <1>1, <1>2, <1>6, AppendFrame DEF Delivered
  <2>2. frames' \in Seq(Seq(Byte)) /\ Len(frames') = Len(sent) /\ \A i \in 1..Len(sent) : frames'[i] = sent[i]
    BY <1>7, <2>1
  <2>3. ReaderTypeOK'
    BY <1>7, <2>2 DEF ReaderTypeOK
  <2>4. TypeOK'
    BY <1>4, <1>1, <1>3, <1>7, <2>3 DEF TypeOK
  <2>5. InStep'
    BY <1>5, <1>3, <1>7 DEF InStep
  <2>6. Delivered'
    BY <1>3, <1>7, <2>2 DEF Delivered
  <2> QED BY <1>1, <1>6, <1>7, <2>4, <2>5, <2>6
<1>8. Base \in Nat /\ MaxPacketSize \in Nat /\ START1 \in Byte /\ START2 \in Byte /\ START1 # START2
  BY FramingAssumption
<1> USE DEF At
\* What each part of the frame does to the reader.
<1>9. CASE position \in {1, 2, 3}
  <2>1. /\ state' \in [at : {"WaitStart2", "ReadLenHigh", "ReadLenLow"}, n : Nat]
        /\ UNCHANGED <<buf, frames>>
        /\ position = 1 => state'.at = "WaitStart2"
        /\ position = 2 => state'.at = "ReadLenHigh"
        /\ position = 3 => state'.at = "ReadLenLow" /\ state'.n = LenHigh(Len(p))
    <3>1. CASE position = 1
      <4>1. frame[position] = START1
        BY <1>1, <3>1, FrameShape
      <4>2. state.at \in {"WaitStart1", "WaitStart2"}
        BY <3>1 DEF InStep
      <4>3. OnStart1(START1) \/ (state.at = "WaitStart2" /\ OnStart2(START1))
        BY <1>3, <4>1, <4>2 DEF Feed
      <4> QED BY <1>8, <3>1, <4>2, <4>3 DEF OnStart1, OnStart2, TypeOK, ReaderTypeOK
    <3>2. CASE position = 2
      <4>1. frame[position] = START2
        BY <1>1, <3>2, FrameShape
      <4>2. OnStart2(START2)
        <5>1. state.at = "WaitStart2"
          BY <3>2 DEF InStep
        <5> QED BY <1>3, <4>1, <5>1 DEF Feed
      <4> QED BY <1>8, <3>2, <4>2 DEF OnStart2
    <3>3. CASE position = 3
      <4>1. frame[position] = LenHigh(Len(p)) /\ LenHigh(Len(p)) \in Nat
        BY <1>1, <1>2, <3>3, FrameShape, LengthBytes DEF Byte
      <4>2. OnLenHigh(LenHigh(Len(p)))
        <5>1. state.at = "ReadLenHigh"
          BY <3>3 DEF InStep
        <5> QED BY <1>3, <4>1, <5>1 DEF Feed
      <4> QED BY <3>3, <4>1, <4>2 DEF OnLenHigh
    <3> QED BY <1>9, <3>1, <3>2, <3>3
  <2>2. position' = position + 1 /\ position' \in 2..4
    BY <1>2, <1>3, <1>9
  <2>3. LenHigh(Len(p)) \in Byte
    BY <1>2, LengthBytes
  <2>4. TypeOK'
    <3>1. /\ sent' \in Seq(Payload) /\ Len(sent') > 0 /\ position' \in Nat
          /\ position' \in 0..(4 + Len(p)) /\ sent' = sent
      BY <1>1, <1>2, <1>3, <2>2
    <3>2. state'.at = "ReadLenLow" => state'.n \in Byte
      BY <1>9, <2>1, <2>3
    <3>3. buf' \in Seq(Byte) /\ frames' \in Seq(Seq(Byte))
      BY <2>1 DEF TypeOK, ReaderTypeOK
    <3>4. ReaderTypeOK'
      BY <2>1, <3>2, <3>3 DEF ReaderTypeOK
    <3> QED BY <1>4, <3>1, <3>4 DEF TypeOK
  <2>5. InStep'
    <3>1. /\ position' \notin {0, 1} /\ ~(position' > 4)
          /\ position' = 2 => position = 1
          /\ position' = 3 => position = 2
          /\ position' = 4 => position = 3
      BY <1>9, <2>2
    <3> QED BY <1>3, <1>9, <2>1, <3>1 DEF InStep
  <2>6. Delivered'
    BY <1>1, <1>3, <2>1, <2>2 DEF Delivered
  <2> QED BY <2>1, <2>4, <2>5, <2>6
<1>10. CASE position = 4
  <2>1. frame[position] = LenLow(Len(p)) /\ state.n = LenHigh(Len(p)) /\ state.at = "ReadLenLow"
    BY <1>1, <1>10, FrameShape DEF InStep
  <2>2. OnLenLow(LenLow(Len(p)))
    BY <1>3, <2>1 DEF Feed
  <2>3. state.n * Base + LenLow(Len(p)) = Len(p)
    BY <1>2, <2>1, LengthBytes
  <2>4. CASE Len(p) = 0
    <3>0. position' = 0 /\ p = <<>>
      BY <1>2, <1>3, <1>10, <2>4
    <3>1. state' = At("WaitStart1", 0) /\ buf' = buf /\ frames' = Append(frames, p)
      BY <2>2, <2>3, <2>4, <3>0 DEF OnLenLow
    <3>2. buf' \in Seq(Byte)
      BY <3>1 DEF TypeOK, ReaderTypeOK
    <3> QED BY <1>7, <3>0, <3>1, <3>2
  <2>5. CASE Len(p) # 0
    <3>1. state' = At("ReadPayload", Len(p)) /\ buf' = <<>> /\ frames' = frames
      BY <1>2, <2>2, <2>3, <2>5 DEF OnLenLow
    <3>2. position' = 5 /\ 4 + Len(p) >= 5
      BY <1>2, <1>3, <1>10, <2>5
    <3>3. TypeOK'
      BY <1>4, <1>1, <1>2, <1>3, <1>6, <3>1, <3>2 DEF TypeOK, ReaderTypeOK
    <3>4. InStep'
      <4>1. /\ position' \notin {0, 1, 2, 3, 4} /\ sent' = sent
            /\ Len(buf') = position' - 5 /\ \A i \in 1..Len(buf') : buf'[i] = p[i]
        BY <1>3, <3>1, <3>2
      <4> QED BY <3>1, <4>1 DEF InStep
    <3>5. Delivered'
      <4>1. position # 0 /\ position' # 0 /\ frames' = frames /\ sent' = sent
        BY <1>3, <1>10, <3>1, <3>2
      <4> QED BY <4>1, Zenon DEF Delivered
    <3> QED BY <3>1, <3>3, <3>4, <3>5
  <2> QED BY <2>4, <2>5
<1>11. CASE position > 4
  <2> DEFINE b == p[position - 4]
  <2>1. /\ state.at = "ReadPayload" /\ state.n = Len(p) /\ Len(buf) = position - 5
        /\ \A i \in 1..Len(buf) : buf[i] = p[i]
        /\ buf \in Seq(Byte)
    BY <1>11 DEF InStep, TypeOK, ReaderTypeOK
  <2>2. position - 4 \in 1..Len(p) /\ b \in Byte
    BY <1>1, <1>2, <1>11
  <2>3. frame[position] = b
    <3>1. frame[4 + (position - 4)] = p[position - 4]
      BY <1>1, <2>2, FrameShape
    <3> QED BY <1>1, <1>2, <3>1
  <2>4. OnPayload(b)
    BY <1>3, <2>1, <2>3 DEF Feed
  <2>5. /\ Append(buf, b) \in Seq(Byte) /\ Len(Append(buf, b)) = position - 4
        /\ \A i \in 1..(position - 4) : Append(buf, b)[i] = p[i]
    <3>1. Len(buf) = position - 5 /\ Len(buf) \in Nat /\ buf \in Seq(Byte) /\ b \in Byte
      BY <2>1, <2>2
    <3>2. /\ Append(buf, b) \in Seq(Byte) /\ Len(Append(buf, b)) = Len(buf) + 1
          /\ Append(buf, b)[Len(buf) + 1] = b
          /\ \A i \in 1..Len(buf) : Append(buf, b)[i] = buf[i]
      BY <3>1
    <3>3. Len(buf) + 1 = position - 4
      BY <1>1, <1>2, <3>1
    <3>4. ASSUME NEW i \in 1..(position - 4) PROVE Append(buf, b)[i] = p[i]
      <4>1. i \in 1..Len(buf) \/ i = position - 4
        BY <3>1, <3>3
      <4>2. CASE i \in 1..Len(buf)
        BY <2>1, <3>2, <4>2, Zenon
      <4>3. CASE i = position - 4
        BY <3>2, <3>3, <4>3
      <4> QED BY <4>1, <4>2, <4>3
    <3> QED BY <3>2, <3>3, <3>4
  <2>6. CASE position = 4 + Len(p)
    <3>1. Append(buf, b) = p
      <4> DEFINE q == Append(buf, b)
      <4>1. /\ q \in Seq(Byte) /\ p \in Seq(Byte) /\ Len(q) = Len(p)
            /\ \A i \in 1..Len(p) : q[i] = p[i]
        BY <1>2, <2>5, <2>6
      <4> HIDE DEF p, q
      <4>2. q = p
        BY <4>1
      <4> QED BY <4>2 DEF q
    <3>2. Len(buf) + 1 >= state.n
      BY <1>2, <2>1, <2>6
    <3>3. state' = At("WaitStart1", 0) /\ buf' = <<>> /\ frames' = Append(frames, p) /\ position' = 0
      BY <1>3, <2>4, <2>6, <3>1, <3>2 DEF OnPayload
    <3>4. buf' \in Seq(Byte)
      BY <3>3
    <3> QED BY <1>7, <3>3, <3>4
  <2>7. CASE position # 4 + Len(p)
    <3>1. ~(Len(buf) + 1 >= state.n)
      BY <1>1, <1>2, <2>1, <2>7
    <3>2. /\ state' = state /\ buf' = Append(buf, b) /\ frames' = frames
          /\ position' = position + 1 /\ position' > 5 /\ position' <= 4 + Len(p)
      BY <1>1, <1>2, <1>3, <1>11, <2>4, <2>7, <3>1 DEF OnPayload
    <3>3. Len(buf') = position' - 5 /\ Len(buf') < Len(p)
      BY <1>1, <1>2, <2>5, <3>2
    <3>4. TypeOK'
      <4>1. /\ state' \in [at : {"WaitStart1", "WaitStart2", "ReadLenHigh", "ReadLenLow", "ReadPayload"},
                           n : Nat]
            /\ state'.at = "ReadPayload" /\ state'.n = Len(p)
        BY <2>1, <3>2 DEF TypeOK, ReaderTypeOK
      <4>2. frames' \in Seq(Seq(Byte)) /\ buf' \in Seq(Byte)
        BY <1>6, <2>5, <3>2
      <4>3. ReaderTypeOK'
        BY <1>2, <3>3, <4>1, <4>2 DEF ReaderTypeOK
      <4>4. position' \in Nat /\ position' <= 4 + Len(p)
        BY <1>1, <1>2, <1>3, <3>2
      <4> QED BY <1>4, <1>1, <1>3, <4>3, <4>4 DEF TypeOK
    <3>5. InStep'
      BY <1>5, <1>1, <1>3, <2>1, <2>5, <3>2, <3>3 DEF InStep
    <3>6. Delivered'
      BY <1>1, <1>3, <1>6, <1>11, <3>2 DEF Delivered
    <3> QED BY <3>2, <3>4, <3>5, <3>6
  <2> QED BY <2>6, <2>7
<1> QED BY <1>1, <1>9, <1>10, <1>11

LEMMA StepIInv == IInv /\ [Next]_vars => IInv'
<1> SUFFICES ASSUME IInv, [Next]_vars PROVE IInv'
  OBVIOUS
<1>1. CASE Transmit
  BY <1>1, TransmitStep
<1>2. ASSUME NEW p \in Payload, Begin(p) PROVE IInv'
  BY <1>2, BeginStep
<1>3. ASSUME NEW b \in Byte, Noise(b) PROVE IInv'
  BY <1>3, NoiseStep
<1>4. CASE UNCHANGED vars
  BY <1>4 DEF IInv, TypeOK, ReaderTypeOK, InStep, Delivered, vars
<1> QED BY <1>1, <1>2, <1>3, <1>4 DEF Next

\* IInv holds throughout (serial_framing.rs:29-100).
THEOREM AlwaysIInv == Spec => []IInv
<1> QED BY InitIInv, StepIInv, PTL DEF Spec

\* Every frame written comes out, whole and in order, and noise brings none.
THEOREM FramesDelivered == Spec => []Delivered
<1>1. IInv => Delivered
  BY DEF IInv
<1> QED BY AlwaysIInv, <1>1, PTL

\* Every step of the line is a step of the queue of payloads, or none.
LEMMA StepFifo == IInv /\ [Next]_vars => [Fifo!Next]_<<sent, frames>>
<1> SUFFICES ASSUME IInv, [Next]_vars PROVE [Fifo!Next]_<<sent, frames>>
  OBVIOUS
<1>1. CASE Transmit
  BY <1>1, TransmitStep DEF Fifo!Next, Fifo!Receive, Transmit
<1>2. ASSUME NEW p \in Payload, Begin(p) PROVE Fifo!Next
  BY <1>2 DEF Begin, Fifo!Next, Fifo!Send
<1>3. ASSUME NEW b \in Byte, Noise(b) PROVE UNCHANGED <<sent, frames>>
  <2>1. state.at \in {"WaitStart1", "WaitStart2"}
    BY <1>3 DEF Noise, IInv, InStep
  <2> QED BY <1>3, <2>1 DEF Noise, Feed, OnStart1, OnStart2
<1>4. CASE UNCHANGED vars
  BY <1>4 DEF vars
<1> QED BY <1>1, <1>2, <1>3, <1>4 DEF Next

\* The serial framing implements the queue of payloads.
THEOREM Refinement == Spec => ImplementsFifo
<1>1. Init => Fifo!Init
  BY DEF Init, NewReader, Fifo!Init
<1> QED BY <1>1, AlwaysIInv, StepFifo, PTL DEF Spec, ImplementsFifo, Fifo!Spec

-----------------------------------------------------------------------------
(* Any bytes. *)

\* A header may start at p, of which the last bytes fed are the first ones.
Started(p, H) ==
    /\ p \in (Len(input) - 2)..Len(input) /\ p > 0
    /\ input[p] = START1 /\ (p < Len(input) => input[p + 1] = START2)
    /\ \A h \in H : After(h) <= p

\* Where the reader is among the headers met so far.
Placed(H) ==
    LET last == Len(input) IN
    /\ state.at \in {"WaitStart1", "WaitStart2", "ReadLenHigh"} => ~Started(last - 2, H)
    /\ state.at \in {"WaitStart1", "WaitStart2"} => ~Started(last - 1, H)
    /\ state.at = "WaitStart1" => ~Started(last, H)
    /\ state.at = "WaitStart2" => Started(last, H)
    /\ state.at = "ReadLenHigh" => Started(last - 1, H)
    /\ state.at = "ReadLenLow" => Started(last - 2, H) /\ input[last] = state.n
    /\ IF state.at = "ReadPayload"
       THEN \E h \in H : /\ Length(h) = state.n /\ \A g \in H : g <= h
                         /\ h + 3 + Len(buf) = last /\ buf = SubSeq(input, h + 4, last)
       ELSE \A h \in H : After(h) <= last + 1

Found(H) == MetHeaders(H) /\ \E starts \in [1..Len(frames) -> H] : FramesAt(starts, H)

BytesIInv ==
    /\ ReaderTypeOK /\ input \in Seq(Byte)
    /\ \E H \in SUBSET Headers : Placed(H) /\ Found(H)

\* A part of the input does not change when more comes.
LEMMA PartStays ==
    ASSUME NEW s \in Seq(Byte), NEW b \in Byte, NEW i \in 1..(Len(s) + 1), NEW j \in Nat, j <= Len(s)
    PROVE  SubSeq(Append(s, b), i, j) = SubSeq(s, i, j) /\ SubSeq(s, i, j) \in Seq(Byte)
  OBVIOUS

\* The part at the end grows.
LEMMA PartGrows ==
    ASSUME NEW s \in Seq(Byte), NEW b \in Byte, NEW i \in 1..(Len(s) + 1)
    PROVE  SubSeq(Append(s, b), i, Len(s) + 1) = Append(SubSeq(s, i, Len(s)), b)
  OBVIOUS

LEMMA ByteFacts == Byte \subseteq Nat /\ Base \in Nat /\ MaxPacketSize \in Nat /\ START1 # START2
  BY FramingAssumption DEF Byte

\* The two bytes of a length are the digits of a number.
LEMMA TwoDigits ==
    ASSUME NEW x \in Nat, NEW y \in Nat, NEW z \in Nat
    PROVE  x * z + y \in Nat
<1>1. x * z \in Nat
  OBVIOUS
<1> QED BY <1>1

LEMMA HeaderFacts ==
    ASSUME input \in Seq(Byte), NEW h \in Headers
    PROVE  /\ h \in Nat /\ h > 0 /\ h + 3 <= Len(input)
           /\ Length(h) \in Nat /\ After(h) \in Nat /\ After(h) >= h + 4
           /\ After(h) = IF Length(h) <= MaxPacketSize THEN h + 4 + Length(h) ELSE h + 4
<1>1. h \in Nat /\ h > 0 /\ h + 3 <= Len(input) /\ Len(input) \in Nat
  BY DEF Headers
<1>2. input[h + 2] \in Nat /\ input[h + 3] \in Nat
  <2>1. input[h + 2] \in Byte /\ input[h + 3] \in Byte
    BY <1>1
  <2> QED BY <2>1, ByteFacts
<1>3. Length(h) \in Nat
  <2> PICK x, y : x = input[h + 2] /\ y = input[h + 3]
    OBVIOUS
  <2>1. x \in Nat /\ y \in Nat /\ Base \in Nat
    BY <1>2, ByteFacts
  <2>2. x * Base + y \in Nat
    BY <2>1, TwoDigits
  <2> QED BY <2>2 DEF Length
<1>4. CASE Length(h) <= MaxPacketSize
  <2>1. After(h) = h + 4 + Length(h)
    BY <1>4 DEF After
  <2> QED BY <1>1, <1>3, <1>4, <2>1
<1>5. CASE ~(Length(h) <= MaxPacketSize)
  <2>1. After(h) = h + 4 + 0
    BY <1>5, Zenon DEF After
  <2> QED BY <1>1, <1>3, <1>5, <2>1
<1> QED BY <1>4, <1>5

\* One more byte leaves the headers what they are, and may complete one.
LEMMA InputGrows ==
    ASSUME input \in Seq(Byte), NEW b \in Byte, input' = Append(input, b)
    PROVE  /\ input' \in Seq(Byte) /\ Len(input) \in Nat /\ Len(input') = Len(input) + 1
           /\ input'[Len(input')] = b /\ \A k \in 1..Len(input) : input'[k] = input[k]
           /\ \A h \in Headers : /\ h \in Headers' /\ Length(h)' = Length(h)
                                 /\ After(h)' = After(h)
           /\ \A j \in Headers' :
                  \/ j \in Headers
                  \/ /\ j = Len(input) - 2 /\ j > 0
                     /\ input[j] = START1 /\ input[j + 1] = START2
           /\ \A j : /\ j = Len(input) - 2 /\ j > 0
                     /\ input[j] = START1 /\ input[j + 1] = START2
                     => j \in Headers' /\ j \notin Headers
<1>1. /\ input' \in Seq(Byte) /\ Len(input) \in Nat /\ Len(input') = Len(input) + 1
      /\ input'[Len(input')] = b /\ \A k \in 1..Len(input) : input'[k] = input[k]
  OBVIOUS
<1>2. ASSUME NEW h \in Headers
      PROVE  h \in Headers' /\ Length(h)' = Length(h) /\ After(h)' = After(h)
  <2>1. h \in 1..(Len(input) - 3) /\ input[h] = START1 /\ input[h + 1] = START2
    BY DEF Headers
  <2>2. /\ input'[h] = input[h] /\ input'[h + 1] = input[h + 1]
        /\ input'[h + 2] = input[h + 2] /\ input'[h + 3] = input[h + 3]
    BY <1>1, <2>1
  <2> QED BY <1>1, <2>1, <2>2 DEF Headers, Length, After
<1>3. ASSUME NEW j \in Headers', j \notin Headers
      PROVE  j = Len(input) - 2 /\ j > 0 /\ input[j] = START1 /\ input[j + 1] = START2
  <2>1. j \in 1..(Len(input) - 2) /\ input'[j] = START1 /\ input'[j + 1] = START2
    BY <1>1 DEF Headers
  <2>2. input[j] = START1 /\ input[j + 1] = START2
    BY <1>1, <2>1
  <2>3. j \notin 1..(Len(input) - 3)
    BY <1>3, <2>2 DEF Headers
  <2> QED BY <1>1, <2>1, <2>2, <2>3
<1>4. ASSUME NEW j, j = Len(input) - 2, j > 0, input[j] = START1, input[j + 1] = START2
      PROVE  j \in Headers' /\ j \notin Headers
  <2>1. j \in 1..Len(input) /\ j + 1 \in 1..Len(input) /\ j \in 1..(Len(input') - 3)
    BY <1>1, <1>4
  <2>2. input'[j] = START1 /\ input'[j + 1] = START2
    BY <1>1, <1>4, <2>1
  <2> QED BY <1>1, <1>4, <2>1, <2>2 DEF Headers
<1> QED BY <1>1, <1>2, <1>3, <1>4

\* The payload behind a complete header stays what it is.
LEMMA PartOfInput ==
    ASSUME input \in Seq(Byte), NEW b \in Byte, input' = Append(input, b),
           NEW H \in SUBSET Headers, NEW h \in Complete(H)
    PROVE  SubSeq(input', h + 4, After(h)' - 1) = SubSeq(input, h + 4, After(h) - 1)
<1>1. h \in Headers /\ After(h) <= Len(input) + 1
  BY DEF Complete
<1>2. After(h)' = After(h)
  BY <1>1, InputGrows
<1>3. PICK i, j : i = h + 4 /\ j = After(h) - 1
  OBVIOUS
<1>4. h \in Nat /\ After(h) \in Nat /\ After(h) >= h + 4
  BY <1>1, HeaderFacts
<1>5. Len(input) \in Nat
  OBVIOUS
<1>6. i \in 1..(Len(input) + 1) /\ j \in Nat /\ j <= Len(input)
  <2> DEFINE n == Len(input)
             a == After(h)
  <2>1. n \in Nat /\ a \in Nat /\ h \in Nat /\ a >= h + 4 /\ a <= n + 1 /\ i = h + 4 /\ j = a - 1
    BY <1>1, <1>3, <1>4, <1>5
  <2> HIDE DEF n, a
  <2>2. i \in 1..(n + 1) /\ j \in Nat /\ j <= n
    BY <2>1
  <2> QED BY <2>2 DEF n
<1>7. SubSeq(Append(input, b), i, j) = SubSeq(input, i, j)
  BY <1>6, PartStays, Zenon
<1> QED BY <1>2, <1>3, <1>7, Zenon

\* A header that is met no more than the ones before is not met.
LEMMA NoneMet ==
    ASSUME input \in Seq(Byte), NEW b \in Byte, input' = Append(input, b),
           NEW H \in SUBSET Headers, MetHeaders(H), ~Started(Len(input) - 2, H)
    PROVE  H \in SUBSET Headers' /\ MetHeaders(H)'
<1>1. /\ Len(input) \in Nat /\ \A h \in H : h \in Headers /\ h \in Headers' /\ After(h)' = After(h)
  BY InputGrows
<1>2. ASSUME NEW j \in Headers'
      PROVE  j \in H <=> \A h \in H : h < j => After(h) <= j
  <2>1. CASE j \in Headers
    BY <2>1 DEF MetHeaders
  <2>2. CASE j \notin Headers
    <3>1. j = Len(input) - 2 /\ j > 0 /\ input[j] = START1 /\ input[j + 1] = START2 /\ j \in Nat
      BY <1>1, <2>2, InputGrows
    <3>2. PICK g \in H : ~(After(g) <= j)
      BY <1>1, <3>1 DEF Started
    <3>3. g < j
      BY <1>1, <3>1, HeaderFacts
    <3> QED BY <1>1, <2>2, <3>2, <3>3
  <2> QED BY <2>1, <2>2
<1> QED BY <1>1, <1>2 DEF MetHeaders

\* The header that was started is met: it is the last one.
LEMMA OneMet ==
    ASSUME input \in Seq(Byte), NEW b \in Byte, input' = Append(input, b),
           NEW H \in SUBSET Headers, MetHeaders(H), NEW top, top = Len(input) - 2, Started(top, H),
           NEW K, K = H \cup {top}
    PROVE  /\ top \in Headers'
           /\ \A h \in H : h < top /\ After(h) <= top
           /\ MetHeaders(K)'
<1>1. /\ Len(input) \in Nat /\ \A h \in H : h \in Headers /\ h \in Headers' /\ After(h)' = After(h)
  BY InputGrows
<1>2. /\ top \in Nat /\ top > 0 /\ input[top] = START1 /\ input[top + 1] = START2
      /\ \A h \in H : After(h) <= top
  BY <1>1 DEF Started
<1>3. top \in Headers' /\ top \notin Headers
  BY <1>2, InputGrows
<1>4. \A h \in Headers : h \in Nat /\ h < top
  BY <1>1, <1>2, HeaderFacts
<1>5. ASSUME NEW j \in Headers'
      PROVE  j \in K <=> \A h \in K : h < j => After(h)' <= j
  <2>1. CASE j \in Headers
    <3>1. j # top /\ ~(top < j)
      BY <1>2, <1>4, <2>1
    <3> QED BY <1>1, <2>1, <3>1 DEF MetHeaders
  <2>2. CASE j \notin Headers
    <3>1. j = top
      BY <2>2, InputGrows
    <3> QED BY <1>1, <1>2, <3>1
  <2> QED BY <2>1, <2>2
<1> QED BY <1>1, <1>2, <1>3, <1>4, <1>5 DEF MetHeaders

\* What has been started goes on with the next byte, or ends.
LEMMA StartedLater ==
    ASSUME input \in Seq(Byte), NEW b \in Byte, input' = Append(input, b),
           NEW H \in SUBSET Headers, NEW p
    PROVE  LET last == Len(input) IN
           /\ Started(p, H)' => /\ p \in (last - 1)..(last + 1)
                                /\ p # last + 1 => Started(p, H)
                                /\ p = last => b = START2
                                /\ p = last + 1 => b = START1
           /\ p = last - 1 /\ Started(p, H) => Started(p, H)'
           /\ p = last /\ Started(p, H) /\ b = START2 => Started(p, H)'
           /\ p = last + 1 /\ b = START1 /\ (\A h \in H : After(h) <= p) => Started(p, H)'
<1> DEFINE last == Len(input)
<1>1. /\ last \in Nat /\ Len(input') = last + 1 /\ input'[last + 1] = b
      /\ \A k \in 1..last : input'[k] = input[k]
      /\ \A h \in H : After(h)' = After(h)
  BY InputGrows
<1>2. Started(p, H)' <=> /\ p \in (last - 1)..(last + 1) /\ p > 0
                         /\ input'[p] = START1 /\ (p < last + 1 => input'[p + 1] = START2)
                         /\ \A h \in H : After(h) <= p
  BY <1>1 DEF Started
<1>3. Started(p, H) <=> /\ p \in (last - 2)..last /\ p > 0
                        /\ input[p] = START1 /\ (p < last => input[p + 1] = START2)
                        /\ \A h \in H : After(h) <= p
  BY DEF Started
<1> HIDE DEF last
<1>4. ASSUME Started(p, H)'
      PROVE  /\ p \in (last - 1)..(last + 1)
             /\ p # last + 1 => Started(p, H)
             /\ p = last => b = START2
             /\ p = last + 1 => b = START1
  <2>1. p = last + 1 \/ (p \in 1..last /\ p \in (last - 2)..last)
    BY <1>1, <1>2, <1>4
  <2>2. CASE p = last + 1
    BY <1>1, <1>2, <1>4, <2>2
  <2>3. CASE p \in 1..last /\ p \in (last - 2)..last
    <3>1. input'[p] = input[p] /\ (p < last => input'[p + 1] = input[p + 1])
      BY <1>1, <2>3
    <3>2. p \in (last - 1)..(last + 1) /\ p # last + 1 /\ p > 0
      BY <1>1, <1>2, <1>4, <2>3
    <3>3. p = last => b = START2
      BY <1>1, <1>2, <1>4
    <3>4. /\ input[p] = START1 /\ (p < last => input[p + 1] = START2)
          /\ \A h \in H : After(h) <= p
      <4>1. /\ input'[p] = START1 /\ (p < last + 1 => input'[p + 1] = START2)
            /\ \A h \in H : After(h) <= p
        BY <1>2, <1>4, Zenon
      <4>2. p < last => p < last + 1
        BY <1>1, <2>3
      <4> QED BY <3>1, <4>1, <4>2, Zenon
    <3>5. Started(p, H)
      BY <1>3, <2>3, <3>2, <3>4, Zenon
    <3> QED BY <3>2, <3>3, <3>5, Zenon
  <2> QED BY <2>1, <2>2, <2>3
<1>5. ASSUME p = last - 1, Started(p, H) PROVE Started(p, H)'
  <2>1. p \in 1..last /\ p + 1 \in 1..last
    BY <1>1, <1>3, <1>5
  <2> QED BY <1>1, <1>2, <1>3, <1>5, <2>1
<1>6. ASSUME p = last, Started(p, H), b = START2 PROVE Started(p, H)'
  BY <1>1, <1>2, <1>3, <1>6
<1>7. ASSUME p = last + 1, b = START1, \A h \in H : After(h) <= p PROVE Started(p, H)'
  BY <1>1, <1>2, <1>7
<1> QED BY <1>4, <1>5, <1>6, <1>7 DEF last

LEMMA OneMoreFrame ==
    ASSUME NEW s \in Seq(Seq(Byte)), NEW p \in Seq(Byte)
    PROVE  /\ Append(s, p) \in Seq(Seq(Byte)) /\ Len(s) \in Nat /\ Len(Append(s, p)) = Len(s) + 1
           /\ Append(s, p)[Len(s) + 1] = p /\ \A n \in 1..Len(s) : Append(s, p)[n] = s[n]
<1> DEFINE W == Seq(Byte)
<1>1. s \in Seq(W) /\ p \in W
  OBVIOUS
<1> HIDE DEF W
<1>2. /\ Append(s, p) \in Seq(W) /\ Len(s) \in Nat /\ Len(Append(s, p)) = Len(s) + 1
      /\ Append(s, p)[Len(s) + 1] = p /\ \A n \in 1..Len(s) : Append(s, p)[n] = s[n]
  BY <1>1
<1> QED BY <1>2 DEF W

\* With no payload completed, the frames are what they were.
LEMMA FramesKept ==
    ASSUME input \in Seq(Byte), NEW b \in Byte, input' = Append(input, b), UNCHANGED frames,
           NEW H \in SUBSET Headers, Found(H), NEW K \in SUBSET Headers', H \subseteq K,
           Complete(K)' = Complete(H), MetHeaders(K)'
    PROVE  Found(K)'
<1>1. PICK starts \in [1..Len(frames) -> H] : FramesAt(starts, H)
  BY DEF Found
<1>2. ASSUME NEW n \in DOMAIN starts
      PROVE  /\ starts[n] \in Complete(K)'
             /\ SubSeq(input', starts[n] + 4, After(starts[n])' - 1)
                = SubSeq(input, starts[n] + 4, After(starts[n]) - 1)
  <2>1. starts[n] \in Complete(H)
    BY <1>1, Zenon DEF FramesAt
  <2>2. SubSeq(input', starts[n] + 4, After(starts[n])' - 1)
        = SubSeq(input, starts[n] + 4, After(starts[n]) - 1)
    BY <2>1, PartOfInput, Zenon
  <2> QED BY <2>1, <2>2, Zenon
<1>3. FramesAt(starts, K)'
  BY <1>1, <1>2 DEF FramesAt
<1>4. starts \in [1..Len(frames') -> K]
  BY <1>1
<1> QED BY <1>3, <1>4 DEF Found

\* A payload completed behind the last header is one more frame.
LEMMA FramesGrow ==
    ASSUME input \in Seq(Byte), NEW b \in Byte, input' = Append(input, b), frames \in Seq(Seq(Byte)),
           NEW H \in SUBSET Headers, Found(H), NEW K \in SUBSET Headers', H \subseteq K, NEW h \in K,
           Complete(K)' = Complete(H) \cup {h}, MetHeaders(K)', \A g \in Complete(H) : g < h,
           NEW p \in Seq(Byte), p = SubSeq(input', h + 4, After(h)' - 1), frames' = Append(frames, p)
    PROVE  Found(K)'
<1>0. PICK m : m = Len(frames)
  OBVIOUS
<1>1. PICK starts \in [1..m -> H] : FramesAt(starts, H)
  BY <1>0 DEF Found
<1>2. m \in Nat /\ Len(frames') = m + 1 /\ frames'[m + 1] = p /\ \A n \in 1..m : frames'[n] = frames[n]
  <2>1. /\ Len(frames) \in Nat /\ Len(Append(frames, p)) = Len(frames) + 1
        /\ Append(frames, p)[Len(frames) + 1] = p
        /\ \A n \in 1..Len(frames) : Append(frames, p)[n] = frames[n]
    BY OneMoreFrame, Zenon
  <2> QED BY <1>0, <2>1, Zenon
<1>3. PICK more \in [1..(m + 1) -> K] :
          more[m + 1] = h /\ \A n \in 1..m : more[n] = starts[n] /\ n \in DOMAIN starts
  <2> DEFINE f == [n \in 1..(m + 1) |-> IF n = m + 1 THEN h ELSE starts[n]]
  <2>1. f \in [1..(m + 1) -> K] /\ f[m + 1] = h /\ \A n \in 1..m : f[n] = starts[n] /\ n \in DOMAIN starts
    BY <1>1, <1>2
  <2> QED BY <2>1
<1>10. /\ DOMAIN more = 1..(m + 1) /\ m + 1 \in DOMAIN more
       /\ \A n \in DOMAIN more : n \in 1..m \/ n = m + 1
  BY <1>2, <1>3
<1>4. ASSUME NEW n \in 1..m
      PROVE  /\ starts[n] \in Complete(H)
             /\ SubSeq(input', starts[n] + 4, After(starts[n])' - 1)
                = SubSeq(input, starts[n] + 4, After(starts[n]) - 1)
  <2>1. starts[n] \in Complete(H)
    BY <1>1, Zenon DEF FramesAt
  <2>2. SubSeq(input', starts[n] + 4, After(starts[n])' - 1)
        = SubSeq(input, starts[n] + 4, After(starts[n]) - 1)
    BY <2>1, PartOfInput, Zenon
  <2> QED BY <2>1, <2>2, Zenon
<1>5. \A k, n \in DOMAIN more : k < n => more[k] < more[n]
  <2> SUFFICES ASSUME NEW k \in 1..(m + 1), NEW n \in 1..(m + 1), k < n PROVE more[k] < more[n]
    BY <1>3
  <2>1. CASE n = m + 1
    <3>1. k \in 1..m
      BY <1>2, <2>1
    <3> QED BY <1>3, <1>4, <2>1, <3>1
  <2>2. CASE n # m + 1
    <3>1. k \in 1..m /\ n \in 1..m
      BY <1>2, <2>2
    <3> QED BY <1>1, <1>3, <3>1 DEF FramesAt
  <2> QED BY <2>1, <2>2
<1>6. ASSUME NEW g \in Complete(K)' PROVE \E n \in DOMAIN more : more[n] = g
  <2>1. CASE g = h
    BY <1>3, <1>10, <2>1
  <2>2. CASE g \in Complete(H)
    <3>1. PICK n \in DOMAIN starts : starts[n] = g
      BY <1>1, <2>2 DEF FramesAt
    <3>2. n \in 1..m /\ n \in DOMAIN more
      BY <1>1, <1>2, <1>3, <3>1
    <3> QED BY <1>3, <3>1, <3>2
  <2> QED BY <2>1, <2>2
<1>7. ASSUME NEW n \in DOMAIN more
      PROVE  more[n] \in Complete(K)' /\ frames'[n] = SubSeq(input', more[n] + 4, After(more[n])' - 1)
  <2>1. CASE n = m + 1
    BY <1>2, <1>3, <2>1
  <2>2. CASE n \in 1..m
    <3>1. frames'[n] = frames[n] /\ frames[n] = SubSeq(input, starts[n] + 4, After(starts[n]) - 1)
      BY <1>1, <1>2, <1>3, <2>2 DEF FramesAt
    <3>2. more[n] = starts[n]
      BY <1>3, <2>2
    <3>3. starts[n] \in Complete(K)'
      BY <1>4, <2>2
    <3>4. frames'[n] = SubSeq(input', starts[n] + 4, After(starts[n])' - 1)
      BY <1>4, <2>2, <3>1
    <3> QED BY <3>2, <3>3, <3>4
  <2> QED BY <1>10, <2>1, <2>2
<1>8. FramesAt(more, K)'
  BY <1>5, <1>6, <1>7 DEF FramesAt
<1>9. more \in [1..Len(frames') -> K]
  BY <1>2, <1>3
<1> QED BY <1>8, <1>9 DEF Found

LEMMA CompleteStays ==
    ASSUME input \in Seq(Byte), NEW b \in Byte, input' = Append(input, b), NEW H \in SUBSET Headers,
           \A h \in H : Length(h) <= MaxPacketSize => After(h) # Len(input) + 2
    PROVE  Complete(H)' = Complete(H)
<1>1. /\ Len(input) \in Nat /\ Len(input') = Len(input) + 1
      /\ \A h \in H : Length(h)' = Length(h) /\ After(h)' = After(h)
  BY InputGrows
<1>2. ASSUME NEW h \in H, Length(h) <= MaxPacketSize
      PROVE  After(h) <= Len(input) + 2 <=> After(h) <= Len(input) + 1
  <2>1. After(h) \in Nat
    BY HeaderFacts
  <2> QED BY <1>1, <1>2, <2>1
<1>3. Complete(H)' = {h \in H : Length(h) <= MaxPacketSize /\ After(h) <= Len(input) + 2}
  BY <1>1 DEF Complete
<1> QED BY <1>2, <1>3 DEF Complete

\* A byte on which the search for a header goes on.
LEMMA SearchStep ==
    ASSUME BytesIInv, NEW b \in Byte, Feed(b), input' = Append(input, b),
           state.at \in {"WaitStart1", "WaitStart2", "ReadLenHigh"}
    PROVE  BytesIInv'
<1> DEFINE last == Len(input)
<1>1. PICK H \in SUBSET Headers : Placed(H) /\ Found(H)
  BY DEF BytesIInv
<1>2. /\ input \in Seq(Byte) /\ ReaderTypeOK /\ last \in Nat /\ last - 1 \in Int /\ last - 2 \in Int
      /\ input' \in Seq(Byte) /\ Len(input') = last + 1 /\ input'[last + 1] = b
  BY InputGrows DEF BytesIInv
<1>3. /\ UNCHANGED <<buf, frames>>
      /\ state' \in [at : {"WaitStart1", "WaitStart2", "ReadLenHigh", "ReadLenLow"}, n : Nat]
      /\ state.at = "WaitStart1" => state'.at = IF b = START1 THEN "WaitStart2" ELSE "WaitStart1"
      /\ state.at = "WaitStart2" =>
             state'.at = IF b = START2 THEN "ReadLenHigh"
                         ELSE IF b = START1 THEN "WaitStart2" ELSE "WaitStart1"
      /\ state.at = "ReadLenHigh" => state'.at = "ReadLenLow" /\ state'.n = b
  <2>1. CASE state.at = "WaitStart1"
    <3>1. OnStart1(b)
      BY <2>1 DEF Feed
    <3> QED BY <1>2, <2>1, <3>1 DEF OnStart1, At, ReaderTypeOK
  <2>2. CASE state.at = "WaitStart2"
    <3>1. OnStart2(b)
      BY <2>2 DEF Feed
    <3>2. /\ UNCHANGED <<buf, frames>>
          /\ b = START2 => state' = At("ReadLenHigh", 0)
          /\ b = START1 => state' = state
          /\ b # START1 /\ b # START2 => state' = At("WaitStart1", 0)
      BY <3>1, ByteFacts DEF OnStart2
    <3> QED BY <1>2, <2>2, <3>2, ByteFacts DEF At, ReaderTypeOK
  <2>3. CASE state.at = "ReadLenHigh"
    <3>1. OnLenHigh(b)
      BY <2>3 DEF Feed
    <3> QED BY <2>3, <3>1, ByteFacts DEF OnLenHigh, At
  <2> QED BY <2>1, <2>2, <2>3
<1>4. ReaderTypeOK'
  BY <1>2, <1>3 DEF ReaderTypeOK
<1>5. (\A h \in H : After(h) <= last + 1) /\ ~Started(last - 2, H) /\ \A h \in H : After(h) \in Nat
  BY <1>1, <1>2, HeaderFacts DEF Placed
<1>6. H \in SUBSET Headers' /\ MetHeaders(H)'
  BY <1>1, <1>2, <1>5, NoneMet DEF Found
<1>7. Complete(H)' = Complete(H)
  BY <1>2, <1>5, CompleteStays
<1>8. Found(H)'
  BY <1>1, <1>2, <1>3, <1>6, <1>7, FramesKept
<1>9. Placed(H)'
  <2>1. /\ \A p : Started(p, H)' => /\ p \in (last - 1)..(last + 1)
                                    /\ p # last + 1 => Started(p, H)
                                    /\ p = last => b = START2
                                    /\ p = last + 1 => b = START1
        /\ \A p : p = last - 1 /\ Started(p, H) => Started(p, H)'
        /\ \A p : p = last /\ Started(p, H) /\ b = START2 => Started(p, H)'
        /\ \A p : p = last + 1 /\ b = START1 => Started(p, H)'
    BY <1>2, <1>5, StartedLater
  <2>2. /\ state.at \in {"WaitStart1", "WaitStart2"} => ~Started(last - 1, H)
        /\ state.at = "WaitStart1" => ~Started(last, H)
        /\ state.at = "WaitStart2" => Started(last, H)
        /\ state.at = "ReadLenHigh" => Started(last - 1, H)
    BY <1>1 DEF Placed
  <2>3. \A p : p = last - 1 => (Started(p, H)' <=> state'.at = "ReadLenLow")
    BY <1>2, <1>3, <2>1, <2>2
  <2>4. \A p : p = last => (Started(p, H)' <=> (state.at = "WaitStart2" /\ state'.at = "ReadLenHigh"))
               \/ state'.at = "ReadLenLow"
    BY <1>2, <1>3, <2>1, <2>2, ByteFacts
  <2>5. \A p : p = last + 1 => (Started(p, H)' <=> state'.at = "WaitStart2")
               \/ state'.at = "ReadLenLow"
    BY <1>2, <1>3, <2>1, <2>2, ByteFacts
  <2>6. \A h \in H : After(h)' <= Len(input') + 1
    BY <1>2, <1>5, InputGrows
  <2>7. PICK p0, p1, p2 : p0 = last + 1 /\ p1 = last /\ p2 = last - 1
    OBVIOUS
  <2>8. p0 = Len(input') /\ p1 = Len(input') - 1 /\ p2 = Len(input') - 2
    BY <1>2, <2>7
  <2>9. /\ state'.at \in {"WaitStart1", "WaitStart2", "ReadLenHigh"} => ~Started(p2, H)'
        /\ state'.at \in {"WaitStart1", "WaitStart2"} => ~Started(p1, H)'
        /\ state'.at = "WaitStart1" => ~Started(p0, H)'
        /\ state'.at = "WaitStart2" => Started(p0, H)'
        /\ state'.at = "ReadLenHigh" => Started(p1, H)'
        /\ state'.at = "ReadLenLow" => Started(p2, H)' /\ input'[p0] = state'.n
    BY <1>2, <1>3, <2>3, <2>4, <2>5, <2>7
  <2> QED BY <1>3, <2>6, <2>8, <2>9 DEF Placed
<1> QED BY <1>2, <1>4, <1>6, <1>8, <1>9 DEF BytesIInv

\* The byte that completes a header: it is met, and its payload follows unless
\* it has none or one over the limit.
LEMMA HeaderStep ==
    ASSUME BytesIInv, NEW b \in Byte, Feed(b), input' = Append(input, b), state.at = "ReadLenLow"
    PROVE  BytesIInv'
<1>1. PICK H \in SUBSET Headers : Placed(H) /\ Found(H)
  BY DEF BytesIInv
<1>2. PICK last, top, len : last = Len(input) /\ top = last - 2 /\ len = state.n * Base + b
  OBVIOUS
<1>3. /\ input \in Seq(Byte) /\ ReaderTypeOK /\ last \in Nat
      /\ input' \in Seq(Byte) /\ Len(input') = last + 1 /\ input'[last + 1] = b
      /\ \A k \in 1..last : input'[k] = input[k]
      /\ state.n \in Byte /\ state.n \in Nat /\ b \in Nat /\ len \in Nat
  BY <1>2, InputGrows, ByteFacts DEF BytesIInv, ReaderTypeOK
<1>17. frames \in Seq(Seq(Byte))
  BY DEF BytesIInv, ReaderTypeOK
<1>4. Started(top, H) /\ input[last] = state.n /\ top \in Nat /\ top > 0
  BY <1>1, <1>2, <1>3 DEF Placed, Started
<1>0. PICK K : K = H \cup {top}
  OBVIOUS
<1>5. /\ top \in Headers' /\ (\A h \in H : h \in Nat /\ h < top /\ After(h) <= top)
      /\ K \in SUBSET Headers' /\ MetHeaders(K)' /\ H \subseteq K /\ top \in K
      /\ \A h \in K : h \in H \/ h = top
  <2>1. top = Len(input) - 2 /\ MetHeaders(H)
    BY <1>1, <1>2 DEF Found
  <2>2. /\ top \in Headers' /\ (\A h \in H : h < top /\ After(h) <= top)
        /\ K \in SUBSET Headers' /\ MetHeaders(K)'
    <3>1. input \in Seq(Byte) /\ MetHeaders(H) /\ top = Len(input) - 2 /\ Started(top, H)
      BY <1>3, <1>4, <2>1
    <3>2. K = H \cup {top}
      BY <1>0
    <3>3. top \in Headers'
      BY <3>1, <3>2, OneMet
    <3>4. \A h \in H : h < top /\ After(h) <= top
      BY <3>1, <3>2, OneMet
    <3>5. K \in SUBSET Headers'
      <4>1. \A h \in H : h \in Headers'
        BY <3>1, InputGrows
      <4> QED BY <3>2, <3>3, <4>1
    <3>6. MetHeaders(K)'
      BY <3>1, <3>2, OneMet
    <3> QED BY <3>3, <3>4, <3>5, <3>6
  <2>3. \A h \in H : h \in Nat
    BY <1>3, HeaderFacts
  <2> QED BY <1>0, <2>2, <2>3
<1>6. Length(top)' = len
  <2>1. top + 2 = last /\ top + 3 = last + 1
    BY <1>2, <1>3
  <2>2. input'[top + 2] = state.n /\ input'[top + 3] = b
    BY <1>3, <1>4, <2>1
  <2> QED BY <1>2, <2>2 DEF Length
<1>7. After(top)' = last + 2 + (IF len <= MaxPacketSize THEN len ELSE 0)
  BY <1>2, <1>3, <1>6 DEF After
<1>8. Complete(H)' = Complete(H)
  <2>1. \A h \in H : After(h) # last + 2
    BY <1>2, <1>3, <1>5, HeaderFacts
  <2> QED BY <1>2, <1>3, <2>1, CompleteStays
<1>9. /\ len = 0 => Complete(K)' = Complete(H) \cup {top}
      /\ len # 0 => Complete(K)' = Complete(H)
  <2>1. /\ Complete(K)' = {h \in K : Length(h)' <= MaxPacketSize /\ After(h)' <= last + 2}
        /\ Complete(H)' = {h \in H : Length(h)' <= MaxPacketSize /\ After(h)' <= last + 2}
    BY <1>3 DEF Complete
  <2>2. Length(top)' <= MaxPacketSize /\ After(top)' <= last + 2 <=> len = 0
    BY <1>3, <1>6, <1>7, ByteFacts
  <2>3. CASE len = 0
    BY <1>0, <1>8, <2>1, <2>2, <2>3
  <2>4. CASE len # 0
    BY <1>0, <1>8, <2>1, <2>2, <2>4
  <2> QED BY <2>3, <2>4
<1>10. \A h \in K : After(h)' <= last + 2 \/ h = top
  <2>1. \A h \in H : After(h)' = After(h) /\ After(h) \in Nat
    BY <1>3, InputGrows, HeaderFacts
  <2> QED BY <1>2, <1>3, <1>5, <2>1
<1>11. OnLenLow(b)
  BY DEF Feed
\* No header can start before the place behind this one.
<1>12. \A p : ~Started(p, K)'
  <2>1. After(top)' \in Nat /\ After(top)' > last + 1
    BY <1>3, <1>7, ByteFacts
  <2>2. ASSUME NEW p, Started(p, K)' PROVE p \in Int /\ p <= last + 1 /\ After(top)' <= p
    BY <1>3, <1>5, <2>2 DEF Started
  <2> QED BY <1>3, <2>1, <2>2
<1>13. ASSUME state' = At("WaitStart1", 0), After(top)' = last + 2 PROVE Placed(K)'
  <2>1. PICK p0, p1, p2 : p0 = Len(input') /\ p1 = Len(input') - 1 /\ p2 = Len(input') - 2
    OBVIOUS
  <2>2. ~Started(p0, K)' /\ ~Started(p1, K)' /\ ~Started(p2, K)'
    BY <1>12
  <2>3. \A h \in K : After(h)' <= Len(input') + 1
    BY <1>3, <1>10, <1>13
  <2> QED BY <1>13, <2>1, <2>2, <2>3 DEF Placed, At
<1>14. CASE len = 0
  <2>1. state' = At("WaitStart1", 0) /\ buf' = buf /\ frames' = Append(frames, <<>>)
    BY <1>2, <1>11, <1>14 DEF OnLenLow
  <2>2. After(top)' = last + 2
    BY <1>3, <1>7, <1>14, ByteFacts
  <2>3. <<>> \in Seq(Byte) /\ <<>> = SubSeq(input', top + 4, After(top)' - 1)
    BY <1>2, <1>3, <1>4, <2>2
  <2>4. \A g \in Complete(H) : g < top
    BY <1>5 DEF Complete
  <2>5. Found(K)'
    BY <1>1, <1>3, <1>5, <1>9, <1>14, <1>17, <2>1, <2>3, <2>4, FramesGrow
  <2>6. frames' \in Seq(Seq(Byte))
    BY <1>17, <2>1, <2>3, OneMoreFrame
  <2>7. ReaderTypeOK'
    BY <1>3, <2>1, <2>6 DEF ReaderTypeOK, At
  <2> QED BY <1>3, <1>5, <1>13, <2>1, <2>2, <2>5, <2>7 DEF BytesIInv
<1>15. CASE len > MaxPacketSize
  <2>1. state' = At("WaitStart1", 0) /\ buf' = buf /\ frames' = frames
    BY <1>2, <1>11, <1>15, ByteFacts DEF OnLenLow
  <2>2. After(top)' = last + 2
    BY <1>3, <1>7, <1>15, ByteFacts
  <2>3. Complete(K)' = Complete(H)
    BY <1>9, <1>15, ByteFacts
  <2>4. Found(K)'
    BY <1>1, <1>3, <1>5, <2>1, <2>3, FramesKept
  <2>5. ReaderTypeOK'
    BY <1>3, <1>17, <2>1 DEF ReaderTypeOK, At
  <2> QED BY <1>3, <1>5, <1>13, <2>1, <2>2, <2>4, <2>5 DEF BytesIInv
<1>16. CASE len > 0 /\ len <= MaxPacketSize
  <2>1. state' = At("ReadPayload", len) /\ buf' = <<>> /\ frames' = frames
    BY <1>2, <1>11, <1>16, ByteFacts DEF OnLenLow
  <2>2. Complete(K)' = Complete(H)
    BY <1>9, <1>16
  <2>3. Found(K)'
    BY <1>1, <1>3, <1>5, <2>1, <2>2, FramesKept
  <2>4. ReaderTypeOK'
    BY <1>3, <1>16, <1>17, <2>1 DEF ReaderTypeOK, At
  <2>5. top + 3 + Len(buf') = last + 1 /\ buf' = SubSeq(input', top + 4, last + 1)
    BY <1>2, <1>3, <1>4, <2>1
  <2>6. \A g \in K : g <= top
    BY <1>4, <1>5
  <2>7. Placed(K)'
    BY <1>3, <1>5, <1>6, <2>1, <2>5, <2>6 DEF Placed, At
  <2> QED BY <1>3, <1>5, <2>3, <2>4, <2>7 DEF BytesIInv
<1> QED BY <1>3, <1>14, <1>15, <1>16, ByteFacts

\* A byte of a payload.
LEMMA PayloadStep ==
    ASSUME BytesIInv, NEW b \in Byte, Feed(b), input' = Append(input, b), state.at = "ReadPayload"
    PROVE  BytesIInv'
<1>1. PICK H \in SUBSET Headers : Placed(H) /\ Found(H)
  BY DEF BytesIInv
<1>2. PICK last : last = Len(input)
  OBVIOUS
<1>3. /\ input \in Seq(Byte) /\ ReaderTypeOK /\ last \in Nat
      /\ input' \in Seq(Byte) /\ Len(input') = last + 1 /\ input'[last + 1] = b
      /\ state.n \in Nat /\ state.n <= MaxPacketSize
      /\ buf \in Seq(Byte) /\ Len(buf) \in Nat /\ Len(buf) < state.n
  BY <1>2, InputGrows DEF BytesIInv, ReaderTypeOK
<1>13. frames \in Seq(Seq(Byte))
  BY DEF BytesIInv, ReaderTypeOK
<1>14. Len(buf) \in Nat /\ Len(buf) < state.n /\ state.n \in Nat /\ last \in Nat
  BY <1>3
<1>4. PICK h \in H : /\ Length(h) = state.n /\ \A g \in H : g <= h
                     /\ h + 3 + Len(buf) = last /\ buf = SubSeq(input, h + 4, last)
  BY <1>1, <1>2 DEF Placed
<1>5. /\ h \in Nat /\ h > 0 /\ After(h) = h + 4 + state.n /\ After(h) > last
      /\ h \in Headers /\ Length(h)' = state.n /\ After(h)' = After(h)
  <2>1. h \in Headers /\ Length(h) = state.n /\ h + 3 + Len(buf) = last
    BY <1>4
  <2>2. h \in Nat /\ h > 0 /\ After(h) = h + 4 + state.n
    BY <1>3, <2>1, HeaderFacts
  <2>3. After(h) > last
    BY <1>3, <2>1, <2>2
  <2>4. Length(h)' = state.n /\ After(h)' = After(h)
    BY <1>3, <2>1, InputGrows
  <2> QED BY <2>1, <2>2, <2>3, <2>4
<1>6. \A g \in H : g # h => After(g) <= h /\ After(g) \in Nat
  <2>1. ASSUME NEW g \in H, g # h PROVE After(g) <= h /\ After(g) \in Nat
    <3>1. g \in Nat /\ g < h /\ After(g) \in Nat
      BY <1>3, <1>4, <1>5, <2>1, HeaderFacts
    <3> QED BY <1>1, <1>5, <3>1 DEF Found, MetHeaders
  <2> QED BY <2>1
<1>7. H \in SUBSET Headers' /\ MetHeaders(H)'
  <2>1. ~Started(last - 2, H)
    <3>1. ~(After(h) <= last - 2)
      BY <1>3, <1>5, HeaderFacts
    <3> QED BY <3>1 DEF Started
  <2> QED BY <1>1, <1>2, <1>3, <2>1, NoneMet DEF Found
<1>8. \A p : ~Started(p, H)' \/ p > last + 1 \/ After(h) <= p
  BY <1>5 DEF Started
<1>9. OnPayload(b)
  BY DEF Feed
<1> DEFINE part == Append(buf, b)
<1>10. part = SubSeq(input', h + 4, last + 1) /\ part \in Seq(Byte) /\ Len(part) = Len(buf) + 1
  <2>1. h + 4 \in 1..(Len(input) + 1)
    <3>1. h + 3 + Len(buf) = last
      BY <1>4
    <3> QED BY <1>2, <1>3, <1>5, <3>1
  <2>2. Append(SubSeq(input, h + 4, last), b) = SubSeq(Append(input, b), h + 4, last + 1)
    <3>1. input \in Seq(Byte) /\ b \in Byte /\ last = Len(input)
      BY <1>2, <1>3
    <3> QED BY <2>1, <3>1, PartGrows, Zenon
  <2>3. part \in Seq(Byte) /\ Len(part) = Len(buf) + 1
    BY <1>3
  <2>4. part = SubSeq(input', h + 4, last + 1)
    BY <1>4, <2>2, Zenon
  <2> QED BY <2>3, <2>4
<1> HIDE DEF part
<1>11. CASE Len(buf) + 1 >= state.n
  <2>1. state' = At("WaitStart1", 0) /\ buf' = <<>> /\ frames' = Append(frames, part)
    BY <1>9, <1>11, Zenon DEF OnPayload, part
  <2>2. After(h) = last + 2
    <3>1. h + 3 + Len(buf) = last
      BY <1>4
    <3> QED BY <1>14, <1>5, <1>11, <3>1
  <2>3. Complete(H)' = Complete(H) \cup {h}
    <3>1. /\ Complete(H)' = {g \in H : Length(g)' <= MaxPacketSize /\ After(g)' <= last + 2}
          /\ Complete(H) = {g \in H : Length(g) <= MaxPacketSize /\ After(g) <= last + 1}
      BY <1>2, <1>3 DEF Complete
    <3>2. \A g \in H : Length(g)' = Length(g) /\ After(g)' = After(g)
      BY <1>3, InputGrows
    <3>3. \A g \in H : g # h => After(g) <= last + 1 /\ After(g) <= last + 2
      BY <1>3, <1>5, <1>6, <2>2
    <3>4. /\ Length(h) <= MaxPacketSize /\ After(h)' <= last + 2 /\ ~(After(h) <= last + 1)
          /\ Length(h)' <= MaxPacketSize
      BY <1>3, <1>4, <1>5, <2>2
    <3> QED BY <3>1, <3>2, <3>3, <3>4
  <2>4. \A g \in Complete(H) : g < h
    <3>1. SUFFICES ASSUME NEW g \in Complete(H) PROVE g < h
      OBVIOUS
    <3>2. g \in H /\ After(g) <= Len(input) + 1
      BY DEF Complete
    <3>3. g # h
      BY <1>2, <1>14, <2>2, <3>2
    <3>4. g \in Nat /\ g <= h
      BY <1>3, <1>4, <3>2, HeaderFacts
    <3>5. h \in Nat
      BY <1>5
    <3> QED BY <3>3, <3>4, <3>5
  <2>5. part = SubSeq(input', h + 4, After(h)' - 1)
    <3>1. After(h)' - 1 = last + 1
      BY <1>3, <1>5, <2>2
    <3> QED BY <1>10, <3>1
  <2>6. Found(H)'
    BY <1>1, <1>3, <1>7, <1>10, <1>13, <2>1, <2>3, <2>4, <2>5, FramesGrow
  <2>7. frames' \in Seq(Seq(Byte))
    BY <1>10, <1>13, <2>1, OneMoreFrame
  <2>8. ReaderTypeOK'
    BY <2>1, <2>7 DEF ReaderTypeOK, At
  <2>9. \A g \in H : After(g)' <= last + 2
    <3>1. \A g \in H : After(g)' = After(g)
      BY <1>3, InputGrows
    <3> QED BY <1>3, <1>4, <1>5, <1>6, <2>2, <3>1
  <2>10. \A p : p <= last + 1 => ~Started(p, H)'
    <3>1. \A p : Started(p, H)' => p \in Int /\ p <= last + 1
      BY <1>3 DEF Started
    <3>2. \A p : p \in Int /\ p <= last + 1 => ~(p > last + 1) /\ ~(After(h) <= p)
      BY <1>3, <2>2
    <3> QED BY <1>8, <3>1, <3>2
  <2>11. Placed(H)'
    BY <1>3, <2>1, <2>9, <2>10 DEF Placed, At
  <2> QED BY <1>3, <1>7, <2>6, <2>8, <2>11 DEF BytesIInv
<1>12. CASE ~(Len(buf) + 1 >= state.n)
  <2>1. state' = state /\ buf' = part /\ frames' = frames
    BY <1>9, <1>12 DEF OnPayload, part
  <2>2. After(h) # last + 2
    BY <1>3, <1>4, <1>5, <1>12
  <2>3. Complete(H)' = Complete(H)
    <3>1. \A g \in H : After(g) # last + 2
      BY <1>3, <1>4, <1>5, <1>6, <2>2
    <3> QED BY <1>2, <1>3, <3>1, CompleteStays
  <2>4. Found(H)'
    BY <1>1, <1>3, <1>7, <2>1, <2>3, FramesKept
  <2>5. ReaderTypeOK'
    <3>1. PICK grown, had, limit : grown = Len(part) /\ had = Len(buf) /\ limit = state.n
      OBVIOUS
    <3>2. grown = had + 1 /\ had \in Nat /\ limit \in Nat /\ ~(had + 1 >= limit)
      BY <1>10, <1>12, <1>14, <3>1
    <3>3. grown < limit
      BY <3>2
    <3>4. Len(part) < state.n /\ part \in Seq(Byte)
      BY <1>10, <3>1, <3>3
    <3>5. buf' \in Seq(Byte) /\ Len(buf') < state'.n
      BY <2>1, <3>4
    <3> QED BY <1>3, <1>13, <2>1, <3>5 DEF ReaderTypeOK
  <2>6. h + 3 + Len(buf') = last + 1 /\ buf' = SubSeq(input', h + 4, last + 1)
    BY <1>3, <1>4, <1>5, <1>10, <2>1
  <2>7. Placed(H)'
    BY <1>3, <1>4, <1>5, <2>1, <2>6 DEF Placed
  <2> QED BY <1>3, <1>7, <2>4, <2>5, <2>7 DEF BytesIInv
<1> QED BY <1>11, <1>12

LEMMA BytesInitIInv == BytesInit => BytesIInv
<1> SUFFICES ASSUME BytesInit PROVE BytesIInv
  OBVIOUS
<1>1. /\ ReaderTypeOK /\ input \in Seq(Byte) /\ input = <<>> /\ frames = <<>> /\ state.at = "WaitStart1"
  BY DEF BytesInit, NewReader, At, ReaderTypeOK
<1>2. {} \in SUBSET Headers /\ Headers = {}
  BY <1>1 DEF Headers
<1>3. Placed({})
  BY <1>1 DEF Placed, Started
<1>4. Found({})
  <2>1. <<>> \in [1..Len(frames) -> {}] /\ DOMAIN <<>> = {}
    BY <1>1
  <2>2. FramesAt(<<>>, {})
    BY <2>1 DEF FramesAt, Complete
  <2> QED BY <1>2, <2>1, <2>2 DEF Found, MetHeaders
<1> QED BY <1>1, <1>2, <1>3, <1>4 DEF BytesIInv

LEMMA BytesStepIInv == BytesIInv /\ [BytesNext]_bytesVars => BytesIInv'
<1> SUFFICES ASSUME BytesIInv, [BytesNext]_bytesVars PROVE BytesIInv'
  OBVIOUS
<1>1. ASSUME NEW b \in Byte, FeedByte(b) PROVE BytesIInv'
  <2>1. Feed(b) /\ input' = Append(input, b)
    BY <1>1 DEF FeedByte
  <2> QED BY <2>1, SearchStep, HeaderStep, PayloadStep DEF Feed
<1>2. CASE UNCHANGED bytesVars
  <2>1. UNCHANGED <<state, buf, frames, input>>
    BY <1>2 DEF bytesVars
  <2>2. PICK H \in SUBSET Headers : Placed(H) /\ Found(H)
    BY DEF BytesIInv
  <2>3. H \in SUBSET Headers'
    BY <2>1 DEF Headers
  <2>4. Placed(H)'
    BY <2>1, <2>2 DEF Placed, Started, After, Length
  <2>5. Found(H)'
    BY <2>1, <2>2 DEF Found, MetHeaders, FramesAt, Complete, Headers, After, Length
  <2> QED BY <2>1, <2>3, <2>4, <2>5 DEF BytesIInv, ReaderTypeOK
<1> QED BY <1>1, <1>2 DEF BytesNext

\* On any bytes the reader finds the frames a reader of the whole input would
\* (serial_framing.rs:29-87).
THEOREM EveryFrameRead == BytesSpec => []ReadsEveryFrame
<1>1. BytesIInv => ReadsEveryFrame
  BY DEF BytesIInv, ReadsEveryFrame, Found
<1> QED BY BytesInitIInv, BytesStepIInv, <1>1, PTL DEF BytesSpec
=============================================================================
