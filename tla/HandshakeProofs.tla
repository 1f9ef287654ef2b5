--------------------------- MODULE HandshakeProofs ---------------------------
(***************************************************************************)
(* For any configurations, timeouts and numbers of reboots: a handshake    *)
(* never waits for what nobody is going to send, ends in time, and if it   *)
(* succeeds it has one whole configuration.                                *)
(***************************************************************************)
EXTENDS Handshake, SequenceTheorems, TLAPS

-----------------------------------------------------------------------------
(* Frames and the line. *)

\* The answer, the news of a reboot and noise are no part of a configuration.
Part == {"myInfo", "channel", "lora", "mqtt"}

\* A configuration is made of frames of these kinds, all its own
\* (serial.rs:188-244).
LEMMA SettingsFrames ==
    ASSUME NEW v \in Version
    PROVE  /\ Settings(v) \in Seq(Frame)
           /\ \A f \in ToSet(Settings(v)) :
                  /\ f \in Frame /\ f.kind \in Part /\ f.of = v
                  /\ \/ f \in {MyInfo(v), Lora(v), Mqtt(v)}
                     \/ \E i \in 1..Slots : f = Channel(v, i)
           /\ ToSet(Settings(v)) = {MyInfo(v), Lora(v), Mqtt(v)} \cup {Channel(v, i) : i \in 1..Slots}
<1> DEFINE S == {MyInfo(v), Lora(v), Mqtt(v)} \cup {Channel(v, i) : i \in 1..Slots}
           channels == [i \in 1..Slots |-> Channel(v, i)]
<1>1. <<MyInfo(v)>> \in Seq(S) /\ <<Lora(v), Mqtt(v)>> \in Seq(S)
  OBVIOUS
<1>2. channels \in Seq(S)
  BY HandshakeAssumption
<1> HIDE DEF channels
<1>3. <<MyInfo(v)>> \o channels \in Seq(S)
  BY <1>1, <1>2, ConcatProperties
<1>4. Settings(v) \in Seq(S)
  BY <1>1, <1>3, ConcatProperties DEF Settings, channels
<1>5. \A f \in S : f.kind \in Part /\ f.of = v
  BY DEF MyInfo, Lora, Mqtt, Channel, Part
<1> HIDE DEF S
<1>6. \A f \in ToSet(Settings(v)) : f \in S
  BY <1>4 DEF ToSet
<1>7. \A f \in ToSet(Settings(v)) : f \in Frame
  BY DEF Frame
<1>8. Settings(v) \in Seq(Frame)
  <2>1. \A i \in 1..Len(Settings(v)) : Settings(v)[i] \in Frame
    BY <1>4, <1>7 DEF ToSet
  <2> QED BY <1>4, <2>1
<1>9. ASSUME NEW f \in S PROVE f \in ToSet(Settings(v))
  <2> DEFINE head == <<MyInfo(v)>> \o channels
             tail == <<Lora(v), Mqtt(v)>>
  <2>1. /\ Len(head) = 1 + Slots /\ head[1] = MyInfo(v)
        /\ \A i \in 1..Slots : head[i + 1] = Channel(v, i)
    <3>1. Len(<<MyInfo(v)>>) = 1 /\ <<MyInfo(v)>>[1] = MyInfo(v) /\ Slots \in Nat
      BY HandshakeAssumption
    <3>2. Len(channels) = Slots /\ \A i \in 1..Slots : channels[i] = Channel(v, i)
      BY HandshakeAssumption DEF channels
    <3>3. /\ Len(head) = 1 + Slots
          /\ \A i \in 1..(1 + Slots) : head[i] = IF i <= 1 THEN <<MyInfo(v)>>[i] ELSE channels[i - 1]
      BY <1>1, <1>2, <3>1, <3>2, ConcatProperties
    <3> QED BY <3>1, <3>2, <3>3
  <2>2. /\ Len(tail) = 2 /\ tail[1] = Lora(v) /\ tail[2] = Mqtt(v)
    OBVIOUS
  <2>3. Settings(v) = head \o tail
    BY DEF Settings, channels
  <2> HIDE DEF head, tail
  <2>4. /\ Len(Settings(v)) = Slots + 3 /\ Slots \in Nat
        /\ \A i \in 1..(Slots + 3) :
               Settings(v)[i] = IF i <= 1 + Slots THEN head[i] ELSE tail[i - (1 + Slots)]
    BY <1>1, <1>3, <2>1, <2>2, <2>3, ConcatProperties, HandshakeAssumption DEF head, tail
  <2>5. \E n \in 1..Len(Settings(v)) : Settings(v)[n] = f
    <3>1. CASE f = MyInfo(v)
      BY <2>1, <2>4, <3>1
    <3>2. CASE f = Lora(v)
      <4>1. Slots + 2 \in 1..(Slots + 3) /\ Slots + 2 - (1 + Slots) = 1 /\ ~(Slots + 2 <= 1 + Slots)
        BY <2>4
      <4> QED BY <2>2, <2>4, <3>2, <4>1
    <3>3. CASE f = Mqtt(v)
      <4>1. Slots + 3 \in 1..(Slots + 3) /\ Slots + 3 - (1 + Slots) = 2 /\ ~(Slots + 3 <= 1 + Slots)
        BY <2>4
      <4> QED BY <2>2, <2>4, <3>3, <4>1
    <3>4. ASSUME NEW i \in 1..Slots, f = Channel(v, i) PROVE \E n \in 1..Len(Settings(v)) : Settings(v)[n] = f
      <4>1. i + 1 \in 1..(Slots + 3) /\ i + 1 <= 1 + Slots
        BY <2>4
      <4> QED BY <2>1, <2>4, <3>4, <4>1
    <3> QED BY <1>9, <3>1, <3>2, <3>3, <3>4 DEF S
  <2> QED BY <2>4, <2>5, <1>8 DEF ToSet
<1>10. ToSet(Settings(v)) = S
  BY <1>6, <1>9
<1> QED BY <1>5, <1>7, <1>8, <1>10 DEF S

\* No frame of a configuration is one of the others.
LEMMA FramesDiffer ==
    /\ Complete \in Frame /\ OtherComplete \in Frame /\ Rebooted \in Frame
    /\ Noise \in Frame /\ Packet \in Frame
    /\ Complete # Rebooted /\ Complete # OtherComplete /\ Complete # Noise /\ Complete # Packet
    /\ Rebooted # OtherComplete /\ Rebooted # Noise /\ Rebooted # Packet
    /\ \A v \in Version : \A f \in ToSet(Settings(v)) :
           f \notin {Complete, Rebooted, Noise, Packet, OtherComplete}
<1>1. /\ Complete.kind \notin Part /\ Rebooted.kind \notin Part /\ Noise.kind \notin Part
      /\ Packet.kind \notin Part /\ OtherComplete.kind \notin Part
  BY DEF Part, Complete, Rebooted, Noise, Packet, OtherComplete
<1>2. /\ Complete.kind # Rebooted.kind /\ Complete.kind # OtherComplete.kind
      /\ Complete.kind # Noise.kind /\ Complete.kind # Packet.kind
      /\ Rebooted.kind # OtherComplete.kind /\ Rebooted.kind # Noise.kind
      /\ Rebooted.kind # Packet.kind
  BY DEF Complete, Rebooted, Noise, Packet, OtherComplete
<1>3. /\ Complete \in Frame /\ OtherComplete \in Frame /\ Rebooted \in Frame
      /\ Noise \in Frame /\ Packet \in Frame
  BY DEF Frame
<1> QED BY <1>1, <1>2, <1>3, SettingsFrames

\* What is read leaves the rest of the line.
LEMMA LineRest ==
    ASSUME line \in Seq(Frame), NEW f, Reads(f)
    PROVE  /\ line' \in Seq(Frame) /\ f \in Frame /\ pc = "read"
           /\ Len(line) \in Nat \ {0} /\ Len(line') = Len(line) - 1 /\ line[1] = f
           /\ \A n \in 1..Len(line') : line'[n] = line[n + 1]
           /\ \A g : g \in ToSet(line) /\ g # f => g \in ToSet(line')
<1>1. line # <<>> /\ line' = Tail(line) /\ f = Head(line) /\ pc = "read"
  BY DEF Reads
<1>2. /\ line' \in Seq(Frame) /\ f \in Frame /\ Len(line) \in Nat \ {0}
      /\ Len(line') = Len(line) - 1 /\ line[1] = f
      /\ \A n \in 1..Len(line') : line'[n] = line[n + 1]
  BY <1>1, HeadTailProperties, EmptySeq
<1>3. ASSUME NEW g, g \in ToSet(line), g # f PROVE g \in ToSet(line')
  <2>1. PICK n \in 1..Len(line) : line[n] = g
    BY <1>3 DEF ToSet
  <2>2. n # 1 /\ n - 1 \in 1..Len(line') /\ line'[n - 1] = g
    BY <1>2, <1>3, <2>1
  <2> QED BY <1>2, <2>2 DEF ToSet
<1> QED BY <1>1, <1>2, <1>3

\* What a sequence gains at its end it has gained.
LEMMA AppendSet ==
    ASSUME NEW S, NEW s \in Seq(S), NEW f \in S
    PROVE  ToSet(Append(s, f)) = ToSet(s) \cup {f}
<1>1. /\ Append(s, f) \in Seq(S) /\ Len(Append(s, f)) = Len(s) + 1 /\ Len(s) \in Nat
      /\ Append(s, f)[Len(s) + 1] = f /\ \A n \in 1..Len(s) : Append(s, f)[n] = s[n]
  OBVIOUS
<1>2. DOMAIN s = 1..Len(s) /\ DOMAIN Append(s, f) = 1..(Len(s) + 1)
  BY <1>1
<1> QED BY <1>1, <1>2 DEF ToSet

\* A frame that is sent joins the line.
LEMMA LineGrows ==
    ASSUME line \in Seq(Frame), NEW f \in Frame, line' = Append(line, f)
    PROVE  /\ line' \in Seq(Frame) /\ Len(line') = Len(line) + 1 /\ line'[Len(line) + 1] = f
           /\ \A n \in 1..Len(line) : line'[n] = line[n]
           /\ ToSet(line') = ToSet(line) \cup {f}
<1>1. /\ line' \in Seq(Frame) /\ Len(line') = Len(line) + 1 /\ line'[Len(line) + 1] = f
      /\ \A n \in 1..Len(line) : line'[n] = line[n] /\ Len(line) \in Nat
  OBVIOUS
<1> QED BY <1>1, AppendSet

-----------------------------------------------------------------------------
(* Types. *)

\* What a radio still has to send when the handshake begins (serial.rs:141-146).
LEMMA LeftoverFrames ==
    ASSUME NEW v \in Version, NEW s \in Leftover(v)
    PROVE  /\ s \in Seq(Frame)
           /\ \A n \in 1..Len(s) : s[n] \in ToSet(Settings(v)) \cup {OtherComplete}
<1> DEFINE whole == Append(Settings(v), OtherComplete)
<1>1. /\ whole \in Seq(Frame) /\ Len(whole) \in Nat
      /\ \A n \in 1..Len(whole) : whole[n] \in ToSet(Settings(v)) \cup {OtherComplete}
  <2>1. Settings(v) \in Seq(Frame) /\ OtherComplete \in Frame
    BY SettingsFrames, FramesDiffer
  <2>2. /\ whole \in Seq(Frame) /\ Len(whole) = Len(Settings(v)) + 1 /\ Len(Settings(v)) \in Nat
        /\ whole[Len(Settings(v)) + 1] = OtherComplete
        /\ \A n \in 1..Len(Settings(v)) : whole[n] = Settings(v)[n]
    BY <2>1
  <2> HIDE DEF whole
  <2> QED BY <2>1, <2>2 DEF ToSet
<1>2. PICK k \in 1..(Len(whole) + 1) : s = SubSeq(whole, k, Len(whole))
  BY DEF Leftover
<1> HIDE DEF whole
<1>3. /\ s \in Seq(Frame) /\ Len(s) = IF k <= Len(whole) THEN Len(whole) - k + 1 ELSE 0
      /\ \A i \in 1..(Len(whole) - k + 1) : s[i] = whole[k + i - 1]
  <2>1. \A i \in k..Len(whole) : whole[i] \in Frame
    BY <1>1
  <2>2. /\ SubSeq(whole, k, Len(whole)) \in Seq(Frame)
        /\ Len(SubSeq(whole, k, Len(whole))) = IF k <= Len(whole) THEN Len(whole) - k + 1 ELSE 0
        /\ \A i \in 1..(Len(whole) - k + 1) : SubSeq(whole, k, Len(whole))[i] = whole[k + i - 1]
    BY <1>1, <2>1, SubSeqProperties
  <2> QED BY <1>2, <2>2
<1>4. ASSUME NEW n \in 1..Len(s) PROVE k + n - 1 \in 1..Len(whole) /\ s[n] = whole[k + n - 1]
  <2>1. k <= Len(whole) /\ Len(s) = Len(whole) - k + 1
    BY <1>1, <1>3
  <2>2. n \in 1..(Len(whole) - k + 1)
    BY <2>1
  <2> QED BY <1>1, <1>3, <2>1, <2>2
<1> QED BY <1>1, <1>3, <1>4

\* A handshake begins as IInv says.
LEMMA Starts == Init => IInv
<1> SUFFICES ASSUME Init PROVE IInv
  OBVIOUS
<1> USE HandshakeAssumption
<1>1. TypeOK
  <2>1. dump \in Seq(Frame)
    <3>1. CASE isRadio
      <4>1. dump \in Leftover(version) /\ version \in Version
        BY <3>1 DEF Init
      <4> QED BY <4>1, LeftoverFrames
    <3>2. CASE ~isRadio
      <4>1. dump = <<>>
        BY <3>2 DEF Init
      <4> QED BY <4>1
    <3> QED BY <3>1, <3>2
  <2>2. /\ probing \in BOOLEAN /\ heard \in BOOLEAN /\ (~probing => heard)
        /\ ticked \in BOOLEAN /\ isRadio \in BOOLEAN
    BY Zenon DEF Init
  <2> QED BY <2>1, <2>2 DEF Init, TypeOK, NoInfo
<1>2. NotForgotten
  BY DEF Init, NotForgotten, Running
<1>3. \A limit \in Nat : InPass(limit)
  BY DEF Init, InPass
<1>4. ~isRadio => Silent
  <2> SUFFICES ASSUME ~isRadio PROVE Silent
    OBVIOUS
  <2>1. dump = <<>> /\ line = <<>>
    BY DEF Init
  <2>2. probing => ~heard
    BY Zenon DEF Init
  <2> QED BY <2>1, <2>2 DEF Silent
<1>5. Sending
  <2>1. CASE isRadio
    <3>1. dump \in Leftover(version) /\ version \in Version /\ line = <<>>
      BY <2>1 DEF Init
    <3>2. /\ \A n \in 1..Len(dump) : dump[n] \in ToSet(Settings(version)) \cup {OtherComplete}
      BY <3>1, LeftoverFrames
    <3>3. ASSUME NEW n \in 1..Len(dump), NEW v \in Version, dump[n] \in ToSet(Settings(v))
          PROVE  version = v
      <4>1. dump[n] \in ToSet(Settings(version))
        BY <3>2, <3>3, FramesDiffer
      <4> QED BY <3>1, <3>3, <4>1, SettingsFrames
    <3>4. \A n \in 1..Len(dump) : dump[n] \notin {Complete, Rebooted}
      BY <3>1, <3>2, FramesDiffer
    <3> QED BY <3>3, <3>4 DEF Sending
  <2>2. CASE ~isRadio
    <3>1. dump = <<>>
      BY <2>2 DEF Init
    <3> QED BY <3>1 DEF Sending
  <2> QED BY <2>1, <2>2
<1>6. Labelled
  <2>1. line = <<>> /\ info = NoInfo /\ version \in Version
    BY DEF Init
  <2>2. PICK V : V = [n \in 0..0 |-> version]
    OBVIOUS
  <2>3. V \in [0..Len(line) -> Version] /\ V[0] = version /\ Len(line) = 0
    BY <2>1, <2>2
  <2>4. InfoOf(version)
    BY <2>1 DEF InfoOf, NoInfo, ToSet
  <2>5. Labels(V)
    BY <2>3, <2>4 DEF Labels
  <2> QED BY <2>3, <2>5 DEF Labelled
<1>7. OneConfig /\ KnowsNode
  BY DEF Init, OneConfig, KnowsNode
<1> QED BY <1>1, <1>2, <1>3, <1>4, <1>5, <1>6, <1>7 DEF IInv

\* What a frame adds to the configuration so far (serial.rs:188-244).
LEMMA CapturedInfo ==
    ASSUME TypeOK, NEW v \in Version, NEW f \in ToSet(Settings(v))
    PROVE  Captured(f) \in [node : SUBSET Version, lora : SUBSET Version,
                             mqtt : SUBSET Version, channels : Seq(Frame)]
<1>1. f \in Frame /\ f.of \in Version
  BY SettingsFrames
<1>2. Append(info.channels, f) \in Seq(Frame)
  BY <1>1 DEF TypeOK
<1> QED BY <1>1, <1>2 DEF TypeOK, Captured

\* Every step keeps the types.
LEMMA TypesStep == TypeOK /\ [Next]_vars => TypeOK'
<1> SUFFICES ASSUME TypeOK, [Next]_vars PROVE TypeOK'
  OBVIOUS
<1> USE HandshakeAssumption
<1> DEFINE Infos == [node : SUBSET Version, lora : SUBSET Version,
                     mqtt : SUBSET Version, channels : Seq(Frame)]
           Places == {"start", "top", "read", "ok", "timedOut", "noReply", "noNode", "portError"}
           Call == /\ pc' \in Places /\ info' \in Infos /\ nextResend' \in Nat
                   /\ now' \in Nat /\ ticked' \in BOOLEAN
           Answers == heard' \in BOOLEAN /\ (~probing' => heard') /\ probing' \in BOOLEAN
           Far == /\ isRadio' \in BOOLEAN /\ version' \in Version
                  /\ requests' \in Nat /\ reboots' \in 0..MaxReboots /\ dump' \in Seq(Frame)
           Line == line' \in Seq(Frame) /\ Len(line') <= MaxQueue
<1>0. SUFFICES Call /\ Answers /\ Far /\ Line
  BY DEF TypeOK
<1>a. NoInfo \in Infos
  BY DEF NoInfo
<1>b. ASSUME NEW f, Reads(f) PROVE Line /\ f \in Frame
  <2>1. line \in Seq(Frame) /\ Len(line) <= MaxQueue
    BY DEF TypeOK
  <2>2. line' \in Seq(Frame) /\ Len(line') = Len(line) - 1 /\ f \in Frame /\ Len(line) \in Nat
    BY <1>b, <2>1, LineRest
  <2> QED BY <2>1, <2>2
<1>c. ASSUME NEW f \in Frame, line' = Append(line, f), Room PROVE Line
  <2>1. line \in Seq(Frame) /\ Len(line) < MaxQueue /\ Len(line) \in Nat
    BY <1>c DEF TypeOK, Room
  <2>2. line' \in Seq(Frame) /\ Len(line') = Len(line) + 1
    BY <1>c, <2>1, LineGrows
  <2> QED BY <2>1, <2>2
<1>d. ASSUME UNCHANGED <<heard, probing>> PROVE Answers
  <2>1. heard' = heard /\ probing' = probing
    BY <1>d
  <2> QED BY <2>1, Zenon DEF TypeOK
<1>e. heard' = TRUE /\ probing' = probing => Answers
  BY Zenon DEF TypeOK
<1>1. CASE Start
  BY <1>1, <1>d DEF Start, Write, PortError, TypeOK, timeVars
<1>2. CASE TimeOut \/ GiveUp \/ NothingDue
  BY <1>2, <1>d DEF TimeOut, GiveUp, NothingDue, TypeOK, timeVars, deviceVars
<1>3. CASE ResendRequest
  BY <1>3, <1>d DEF ResendRequest, Write, PortError, TypeOK, timeVars
<1>4. CASE ReadNothing
  BY <1>4, <1>d DEF ReadNothing, Again, TypeOK, timeVars, deviceVars
<1>5. CASE ReadIgnored
  <2>1. PICK f \in {Noise, Packet, OtherComplete} :
          /\ Reads(f) /\ heard' = Hears(f) /\ Again
          /\ UNCHANGED <<probing, info, nextResend, isRadio, version, dump, requests, reboots>>
    BY <1>5 DEF ReadIgnored
  <2>2. Answers
    BY <2>1, Zenon DEF Hears, TypeOK
  <2> QED BY <1>b, <2>1, <2>2 DEF Again, TypeOK
<1>6. CASE ReadSettings
  <2>1. PICK v \in Version : \E f \in ToSet(Settings(v)) :
          /\ Reads(f) /\ heard' = TRUE /\ info' = Captured(f) /\ Again
          /\ UNCHANGED <<probing, nextResend, isRadio, version, dump, requests, reboots>>
    BY <1>6 DEF ReadSettings
  <2>2. PICK f \in ToSet(Settings(v)) :
          /\ Reads(f) /\ heard' = TRUE /\ info' = Captured(f) /\ Again
          /\ UNCHANGED <<probing, nextResend, isRadio, version, dump, requests, reboots>>
    BY <2>1
  <2>3. info' \in Infos
    BY <2>2, CapturedInfo
  <2> QED BY <1>b, <1>e, <2>2, <2>3 DEF Again, TypeOK
<1>7. CASE ReadRebooted
  <2>1. Line /\ Answers
    BY <1>7, <1>b, <1>e DEF ReadRebooted
  <2>2. pc' \in Places /\ requests' \in Nat /\ ticked' = FALSE
    BY <1>7 DEF ReadRebooted, Write, PortError, TypeOK
  <2>3. info' \in Infos
    BY <1>7, <1>a DEF ReadRebooted
  <2> QED BY <1>7, <2>1, <2>2, <2>3 DEF ReadRebooted, TypeOK
<1>8. CASE ReadComplete
  BY <1>8, <1>b, <1>e DEF ReadComplete, TypeOK, timeVars
<1>9. CASE Tick
  BY <1>9, <1>d DEF Tick, callVars, deviceVars, TypeOK
<1>10. CASE Chatters
  <2>1. \E f \in Frame : line' = Append(line, f)
    BY <1>10, FramesDiffer DEF Chatters
  <2> QED BY <1>10, <1>c, <1>d, <2>1 DEF Chatters, callVars, timeVars, TypeOK
<1>11. CASE TakesRequest
  <2>1. Append(Settings(version), Complete) \in Seq(Frame) /\ <<>> \in Seq(Frame)
    BY SettingsFrames, FramesDiffer DEF TypeOK
  <2> QED BY <1>11, <1>d, <2>1 DEF TakesRequest, callVars, timeVars, TypeOK
<1>12. CASE Dumps
  <2>1. Head(dump) \in Frame /\ Tail(dump) \in Seq(Frame)
    BY <1>12, HeadTailProperties DEF Dumps, TypeOK
  <2> QED BY <1>12, <1>c, <1>d, <2>1 DEF Dumps, callVars, timeVars, TypeOK
<1>13. CASE Reboots
  <2>1. Rebooted \in Frame
    BY FramesDiffer
  <2> QED BY <1>13, <1>c, <1>d, <2>1 DEF Reboots, callVars, timeVars, TypeOK
<1>14. CASE UNCHANGED vars
  BY <1>14, <1>d DEF vars, callVars, timeVars, deviceVars, TypeOK
<1> QED
  BY <1>1, <1>2, <1>3, <1>4, <1>5, <1>6, <1>7, <1>8, <1>9, <1>10, <1>11, <1>12, <1>13, <1>14
  DEF Next, Pass, Device, Ended

-----------------------------------------------------------------------------
(* Time. *)

\* A pass of the loop takes less than a tick, and one that begins too late
\* is the last (serial.rs:150-164).
LEMMA PassStep ==
    ASSUME TypeOK, NEW limit \in Nat, InPass(limit), [Next]_vars,
           pc = "top" /\ pc' = "read" => now <= limit
    PROVE  InPass(limit)'
<1> USE DEF InPass
<1>1. CASE Start
  BY <1>1 DEF Start, Write, PortError, timeVars
<1>2. CASE TimeOut \/ GiveUp
  BY <1>2 DEF TimeOut, GiveUp, timeVars
<1>3. CASE NothingDue
  BY <1>3 DEF NothingDue, timeVars, TypeOK
<1>4. CASE ResendRequest
  BY <1>4 DEF ResendRequest, Write, PortError, timeVars, TypeOK
<1>5. CASE ReadNothing
  BY <1>5 DEF ReadNothing, Again, timeVars, TypeOK
<1>6. CASE ReadIgnored
  <2>1. pc = "read" /\ pc' = "top" /\ now' = now /\ ticked' = FALSE
    BY <1>6 DEF ReadIgnored, Reads, Again
  <2> QED BY <2>1 DEF TypeOK
<1>7. CASE ReadSettings
  <2>1. pc = "read" /\ pc' = "top" /\ now' = now /\ ticked' = FALSE
    BY <1>7 DEF ReadSettings, Reads, Again
  <2> QED BY <2>1 DEF TypeOK
<1>8. CASE ReadRebooted
  <2>1. pc = "read" /\ pc' \in {"top", "portError"} /\ now' = now /\ ticked' = FALSE
    BY <1>8 DEF ReadRebooted, Reads, Write, PortError
  <2> QED BY <2>1 DEF TypeOK
<1>9. CASE ReadComplete
  BY <1>9 DEF ReadComplete
<1>10. CASE Tick
  BY <1>10 DEF Tick, callVars, Running, TypeOK
<1>11. CASE Device
  BY <1>11 DEF Device, Chatters, TakesRequest, Dumps, Reboots, callVars, timeVars
<1>12. CASE UNCHANGED vars
  BY <1>12 DEF vars, callVars, timeVars
<1> QED
  BY <1>1, <1>2, <1>3, <1>4, <1>5, <1>6, <1>7, <1>8, <1>9, <1>10, <1>11, <1>12
  DEF Next, Pass, Ended

\* Only a pass that is in time reads, and in a probe that has heard nothing
\* only one within first_frame (serial.rs:151-164).
LEMMA ReadsInTime ==
    ASSUME TypeOK, [Next]_vars, pc = "top", pc' = "read"
    PROVE  now <= Timeout /\ (~heard => now <= FirstFrame)
<1>1. ResendRequest \/ NothingDue
  BY DEF Next, Pass, Device, Ended, vars, callVars, Start, TimeOut, GiveUp, ReadNothing,
         ReadIgnored, ReadSettings, ReadRebooted, ReadComplete, Reads, Tick, Chatters,
         TakesRequest, Dumps, Reboots
<1>2. ~TooLate /\ ~NoReply
  BY <1>1 DEF ResendRequest, NothingDue
<1> QED BY <1>2, HandshakeAssumption DEF TooLate, NoReply, TypeOK

\* What is no radio stays silent: all a read can give is noise, which is not
\* heard (serial.rs:174-186).
LEMMA SilentStep ==
    ASSUME TypeOK, ~isRadio, Silent, [Next]_vars
    PROVE  ~isRadio' /\ Silent'
<1>0. /\ dump = <<>> /\ line \in Seq(Frame)
      /\ \A n \in 1..Len(line) : line[n] = Noise
      /\ Len(line) \in Nat
  BY DEF Silent, TypeOK
<1>a. ASSUME NEW f, Reads(f)
      PROVE  f = Noise /\ (\A n \in 1..Len(line') : line'[n] = Noise)
  <2>1. /\ Len(line) \in Nat \ {0} /\ Len(line') = Len(line) - 1 /\ line[1] = f
        /\ \A n \in 1..Len(line') : line'[n] = line[n + 1]
    BY <1>0, <1>a, LineRest
  <2> QED BY <1>0, <2>1
<1>1. CASE ReadIgnored
  <2>1. PICK f \in {Noise, Packet, OtherComplete} :
          /\ Reads(f) /\ heard' = Hears(f) /\ UNCHANGED <<probing, isRadio, dump>>
    BY <1>1 DEF ReadIgnored
  <2>2. f = Noise
    BY <1>a, <2>1
  <2>3. (probing' => ~heard') /\ ~isRadio'
    BY <2>1, <2>2, Zenon DEF Hears, Silent
  <2> QED BY <1>0, <1>a, <2>1, <2>3 DEF Silent
<1>2. ~ReadSettings /\ ~ReadRebooted /\ ~ReadComplete
  <2>1. \A f : Reads(f) => f = Noise
    BY <1>a
  <2>2. ~ReadSettings
    BY <2>1, FramesDiffer DEF ReadSettings
  <2>3. ~ReadRebooted
    BY <2>1, FramesDiffer DEF ReadRebooted
  <2>4. ~ReadComplete
    BY <2>1, FramesDiffer DEF ReadComplete, Ends
  <2> QED BY <2>2, <2>3, <2>4
<1>3. CASE Chatters
  <2>1. line' = Append(line, Noise)
    BY <1>3 DEF Chatters
  <2>2. Len(line') = Len(line) + 1 /\ line'[Len(line) + 1] = Noise
        /\ \A n \in 1..Len(line) : line'[n] = line[n]
    BY <1>0, <2>1, LineGrows, FramesDiffer
  <2>3. \A n \in 1..Len(line') : line'[n] = Noise
    BY <1>0, <2>2
  <2>4. UNCHANGED <<probing, heard, isRadio, dump>>
    BY <1>3 DEF Chatters, callVars
  <2> QED BY <2>3, <2>4, Zenon DEF Silent
<1>4. CASE TakesRequest
  <2>1. UNCHANGED <<probing, heard, isRadio, line>> /\ dump' = <<>>
    BY <1>4 DEF TakesRequest, callVars
  <2> QED BY <2>1, Zenon DEF Silent
<1>5. ~Dumps /\ ~Reboots
  BY <1>0 DEF Dumps, Reboots
<1>6. ASSUME UNCHANGED <<probing, heard, isRadio, dump, line>> PROVE ~isRadio' /\ Silent'
  BY <1>6, Zenon DEF Silent
<1> QED
  BY <1>1, <1>2, <1>3, <1>4, <1>5, <1>6
  DEF Next, Pass, Device, Ended, Start, TimeOut, GiveUp, ResendRequest, NothingDue, ReadNothing,
      Tick, vars, callVars, timeVars, deviceVars

-----------------------------------------------------------------------------
(* What is under way. *)

\* A request, the end of its dump or the news of a reboot is always under way
\* (serial.rs:165-169, 245-253).
LEMMA NotForgottenStep == TypeOK /\ NotForgotten /\ [Next]_vars => NotForgotten'
<1> SUFFICES ASSUME TypeOK, NotForgotten, [Next]_vars, Running', isRadio'
             PROVE  \/ requests' > 0
                    \/ Complete \in ToSet(dump') \cup ToSet(line')
                    \/ Rebooted \in ToSet(line')
  BY DEF NotForgotten
<1>0. line \in Seq(Frame) /\ dump \in Seq(Frame) /\ requests \in Nat
  BY DEF TypeOK
<1>1. CASE Start \/ ResendRequest
  <2>1. PICK where \in {"top", "read"} : Write(where)
    BY <1>1 DEF Start, ResendRequest
  <2>2. pc' \in {"top", "read"}
    BY DEF Running
  <2>3. requests' = requests + 1
    BY <2>1, <2>2 DEF Write, PortError
  <2> QED BY <1>0, <2>3
<1>2. CASE ReadIgnored \/ ReadSettings
  <2>1. PICK f : /\ Reads(f) /\ f # Complete /\ f # Rebooted
                 /\ UNCHANGED <<isRadio, dump, requests>>
    BY <1>2, FramesDiffer DEF ReadIgnored, ReadSettings
  <2>2. Running
    BY <2>1 DEF Reads, Running
  <2>3. \A g : g \in ToSet(line) /\ g # f => g \in ToSet(line')
    BY <1>0, <2>1, LineRest
  <2> QED BY <2>1, <2>2, <2>3 DEF NotForgotten
<1>3. CASE ReadRebooted
  <2>1. pc' \in {"top", "read"}
    BY DEF Running
  <2>2. requests' = requests + 1
    BY <1>3, <2>1 DEF ReadRebooted, Write, PortError
  <2> QED BY <1>0, <2>2
<1>4. CASE ReadComplete \/ TimeOut \/ GiveUp
  BY <1>4 DEF ReadComplete, TimeOut, GiveUp, Running
<1>5. CASE Chatters
  <2>1. PICK f \in Frame : line' = Append(line, f)
    BY <1>5, FramesDiffer DEF Chatters
  <2>2. ToSet(line') = ToSet(line) \cup {f}
    BY <1>0, <2>1, LineGrows
  <2> QED BY <1>5, <2>2 DEF Chatters, NotForgotten, Room
<1>6. CASE TakesRequest
  <2>1. /\ dump' = Append(Settings(version), Complete) /\ version \in Version
    BY <1>6 DEF TakesRequest, TypeOK
  <2>2. Settings(version) \in Seq(Frame) /\ Complete \in Frame
    BY <2>1, SettingsFrames, FramesDiffer
  <2>3. /\ dump' \in Seq(Frame) /\ Len(dump') = Len(Settings(version)) + 1
        /\ Len(Settings(version)) \in Nat /\ dump'[Len(Settings(version)) + 1] = Complete
    BY <2>1, <2>2
  <2> QED BY <2>3 DEF ToSet
<1>7. CASE Dumps
  <2>1. line' = Append(line, Head(dump)) /\ dump' = Tail(dump) /\ dump # <<>>
    BY <1>7 DEF Dumps
  <2>2. /\ Head(dump) \in Frame /\ Head(dump) = dump[1] /\ Len(dump) \in Nat \ {0}
        /\ dump' \in Seq(Frame) /\ Len(dump') = Len(dump) - 1
        /\ \A n \in 1..Len(dump') : dump'[n] = dump[n + 1]
    BY <1>0, <2>1, HeadTailProperties, EmptySeq
  <2>3. ToSet(line') = ToSet(line) \cup {Head(dump)}
    BY <1>0, <2>1, <2>2, LineGrows
  <2>4. ASSUME NEW g \in ToSet(dump), g # Head(dump) PROVE g \in ToSet(dump')
    <3>1. PICK n \in 1..Len(dump) : dump[n] = g
      BY <1>0 DEF ToSet
    <3>2. n # 1 /\ n - 1 \in 1..Len(dump') /\ dump'[n - 1] = g
      BY <2>2, <2>4, <3>1
    <3> QED BY <2>2, <3>2 DEF ToSet
  <2>5. Running /\ isRadio /\ requests' = requests
    BY <1>7 DEF Dumps, Room
  <2> QED BY <2>3, <2>4, <2>5 DEF NotForgotten
<1>8. CASE Reboots
  <2>1. ToSet(line') = ToSet(line) \cup {Rebooted}
    BY <1>0, <1>8, LineGrows, FramesDiffer DEF Reboots
  <2> QED BY <2>1
<1>9. ASSUME Running, UNCHANGED <<isRadio, requests, dump, line>>
      PROVE  \/ requests' > 0
             \/ Complete \in ToSet(dump') \cup ToSet(line')
             \/ Rebooted \in ToSet(line')
  BY <1>9 DEF NotForgotten
<1> QED
  BY <1>1, <1>2, <1>3, <1>4, <1>5, <1>6, <1>7, <1>8, <1>9
  DEF Next, Pass, Device, Ended, NothingDue, ReadNothing, Running,
      Tick, vars, callVars, timeVars, deviceVars

-----------------------------------------------------------------------------
(* One configuration. *)

\* A captured frame is there, nothing captured before is gone, and info stays
\* with its configuration (serial.rs:188-244).
LEMMA CapturedKeeps ==
    ASSUME TypeOK, NEW v \in Version, NEW f \in ToSet(Settings(v)), InfoOf(v),
           info' = Captured(f)
    PROVE  /\ InfoOf(v)' /\ Has(f)'
           /\ \A g \in ToSet(Settings(v)) : Has(g) => Has(g)'
<1> USE SettingsFrames
<1>0. info.channels \in Seq(Frame) /\ f \in Frame
  BY DEF TypeOK
<1>1. CASE f = MyInfo(v)
  <2>1. info' = [info EXCEPT !.node = {v}]
    BY <1>1 DEF Captured, MyInfo
  <2>2. info'.node = {v} /\ info'.lora = info.lora /\ info'.mqtt = info.mqtt
        /\ info'.channels = info.channels
    BY <2>1 DEF TypeOK
  <2> HIDE DEF Captured
  <2> QED BY <1>1, <2>2 DEF InfoOf, Has, MyInfo, Part
<1>2. CASE f = Lora(v)
  <2>1. info' = [info EXCEPT !.lora = {v}]
    BY <1>2 DEF Captured, Lora
  <2>2. info'.lora = {v} /\ info'.node = info.node /\ info'.mqtt = info.mqtt
        /\ info'.channels = info.channels
    BY <2>1 DEF TypeOK
  <2> QED BY <1>2, <2>2 DEF InfoOf, Has, Lora, Part
<1>3. CASE f = Mqtt(v)
  <2>1. info' = [info EXCEPT !.mqtt = {v}]
    BY <1>3 DEF Captured, Mqtt
  <2>2. info'.mqtt = {v} /\ info'.node = info.node /\ info'.lora = info.lora
        /\ info'.channels = info.channels
    BY <2>1 DEF TypeOK
  <2> QED BY <1>3, <2>2 DEF InfoOf, Has, Mqtt, Part
<1>4. ASSUME NEW i \in 1..Slots, f = Channel(v, i), i \in Active[v]
      PROVE  InfoOf(v)' /\ Has(f)' /\ \A g \in ToSet(Settings(v)) : Has(g) => Has(g)'
  <2>1. info' = [info EXCEPT !.channels = Append(@, f)]
    BY <1>4 DEF Captured, Channel
  <2>2. info'.node = info.node /\ info'.lora = info.lora /\ info'.mqtt = info.mqtt
        /\ info'.channels = Append(info.channels, f)
    BY <2>1 DEF TypeOK
  <2>3. ToSet(info'.channels) = ToSet(info.channels) \cup {f}
    BY <1>0, <2>2, AppendSet
  <2> QED BY <1>4, <2>2, <2>3 DEF InfoOf, Has, Channel, Part
<1>5. ASSUME NEW i \in 1..Slots, f = Channel(v, i), i \notin Active[v]
      PROVE  InfoOf(v)' /\ Has(f)' /\ \A g \in ToSet(Settings(v)) : Has(g) => Has(g)'
  <2>1. info' = info
    BY <1>5 DEF Captured, Channel
  <2> QED BY <1>5, <2>1 DEF InfoOf, Has, Channel, Part
<1> QED BY <1>1, <1>2, <1>3, <1>4, <1>5

\* What was delivered before the n-th frame is so when the first is read.
LEMMA DeliveredRead ==
    ASSUME line \in Seq(Frame), NEW f, Reads(f), NEW g, NEW n \in 1..Len(line),
           Delivered(g, n),
           (\A k \in 1..n : line[k] # Rebooted) /\ (Has(g) \/ g = f) => Has(g)'
    PROVE  Delivered(g, n - 1)'
<1>0. /\ Len(line) \in Nat /\ Len(line') = Len(line) - 1 /\ line[1] = f
      /\ \A k \in 1..Len(line') : line'[k] = line[k + 1]
  BY LineRest
<1>1. ASSUME NEW m \in 1..n, \A k \in m..n : line[k] # Rebooted
      PROVE  \A k \in 1..(n - 1) : k >= m - 1 => line'[k] # Rebooted
  <2> SUFFICES ASSUME NEW k \in 1..(n - 1), k >= m - 1 PROVE line'[k] # Rebooted
    OBVIOUS
  <2>1. k + 1 \in m..n /\ k \in 1..Len(line') /\ line'[k] = line[k + 1]
    BY <1>0
  <2> QED BY <1>1, <2>1
<1>2. ASSUME NEW m \in 2..n, line[m] = g, \A k \in m..n : line[k] # Rebooted
      PROVE  Delivered(g, n - 1)'
  <2>1. m - 1 \in 1..(n - 1) /\ line'[m - 1] = g /\ m \in 1..n
    BY <1>0, <1>2
  <2>2. \A k \in (m - 1)..(n - 1) : line'[k] # Rebooted
    <3>1. \A k \in (m - 1)..(n - 1) : k \in 1..(n - 1) /\ k >= m - 1
      BY <2>1
    <3> QED BY <1>1, <1>2, <2>1, <3>1
  <2> QED BY <2>1, <2>2 DEF Delivered
<1>3. ASSUME \A k \in 1..n : line[k] # Rebooted, Has(g)'
      PROVE  Delivered(g, n - 1)'
  <2>1. \A k \in 1..(n - 1) : line'[k] # Rebooted
    <3>1. 1 \in 1..n /\ \A k \in 1..(n - 1) : k >= 1 - 1
      BY <1>0
    <3> QED BY <1>1, <1>3, <3>1
  <2> QED BY <1>3, <2>1 DEF Delivered
<1>4. CASE \E m \in 1..n : line[m] = g /\ \A k \in m..n : line[k] # Rebooted
  <2>1. PICK m \in 1..n : line[m] = g /\ \A k \in m..n : line[k] # Rebooted
    BY <1>4
  <2>2. CASE m = 1
    BY <1>0, <1>3, <2>1, <2>2
  <2>3. CASE m # 1
    <3>1. m \in 2..n
      BY <2>3
    <3> QED BY <1>2, <2>1, <3>1
  <2> QED BY <2>2, <2>3
<1>5. CASE Has(g) /\ \A k \in 1..n : line[k] # Rebooted
  BY <1>3, <1>5
<1> QED BY <1>4, <1>5 DEF Delivered

\* Nothing delivered is lost by a frame that joins the line; nor for the new
\* frame, if it is no news of a reboot; and that frame itself is delivered.
LEMMA DeliveredGrows ==
    ASSUME line \in Seq(Frame), NEW f \in Frame, line' = Append(line, f), info' = info, NEW g
    PROVE  /\ \A n \in 0..Len(line) : Delivered(g, n) => Delivered(g, n)'
           /\ f # Rebooted /\ (g = f \/ Delivered(g, Len(line)))
                  => Delivered(g, Len(line))'
<1>0. /\ Len(line) \in Nat /\ line'[Len(line) + 1] = f /\ Len(line') = Len(line) + 1
      /\ \A n \in 1..Len(line) : line'[n] = line[n]
  BY LineGrows
<1>1. Has(g)' <=> Has(g)
  BY DEF Has
<1>2. ASSUME NEW n \in 0..Len(line), Delivered(g, n) PROVE Delivered(g, n)'
  <2>1. \A k \in 1..n : line'[k] = line[k]
    BY <1>0
  <2>2. \A m \in 1..n : \A k \in m..n : k \in 1..n
    OBVIOUS
  <2> QED BY <1>1, <1>2, <2>1, <2>2 DEF Delivered
<1>l. PICK L : L = Len(line) + 1
  OBVIOUS
<1>3. ASSUME f # Rebooted, g = f PROVE Delivered(g, L)'
  <2>1. L \in 1..L /\ line'[L] = g /\ \A k \in L..L : line'[k] # Rebooted
    BY <1>0, <1>3, <1>l
  <2> QED BY <2>1 DEF Delivered
<1>4. ASSUME f # Rebooted, Delivered(g, Len(line)) PROVE Delivered(g, L)'
  <2>1. \A k \in 1..L : line'[k] = IF k = L THEN f ELSE line[k]
    BY <1>0, <1>l
  <2>2. CASE Has(g) /\ \A k \in 1..Len(line) : line[k] # Rebooted
    <3>1. \A k \in 1..L : line'[k] # Rebooted
      BY <1>0, <1>4, <1>l, <2>1, <2>2
    <3> QED BY <1>1, <2>2, <3>1 DEF Delivered
  <2>3. CASE \E m \in 1..Len(line) : line[m] = g /\ \A k \in m..Len(line) : line[k] # Rebooted
    <3>1. PICK m \in 1..Len(line) : line[m] = g /\ \A k \in m..Len(line) : line[k] # Rebooted
      BY <2>3
    <3>2. m \in 1..L /\ line'[m] = g /\ \A k \in m..L : line'[k] # Rebooted
      BY <1>0, <1>4, <1>l, <2>1, <3>1
    <3> QED BY <3>2 DEF Delivered
  <2> QED BY <1>4, <2>2, <2>3 DEF Delivered
<1>5. L = Len(line')
  BY <1>0, <1>l
<1> QED BY <1>2, <1>3, <1>4, <1>5 DEF Delivered

\* Reading the first frame leaves the labels of the others and what is to be
\* sent as they are.
LEMMA ReadKeeps ==
    ASSUME TypeOK, Sending, NEW V \in [0..Len(line) -> Version], Labels(V),
           NEW f, Reads(f), UNCHANGED <<version, dump>>, InfoOf(V[1])',
           f # Rebooted =>
               \A g \in ToSet(Settings(V[1])) : Has(g) \/ g = f => Has(g)'
    PROVE  Labelled' /\ Sending'
<1>0. /\ line \in Seq(Frame) /\ Len(line) \in Nat \ {0} /\ Len(line') = Len(line) - 1
      /\ line[1] = f /\ (\A k \in 1..Len(line') : line'[k] = line[k + 1])
  BY LineRest DEF TypeOK
<1>1. ASSUME NEW n \in 1..Len(line), NEW g \in ToSet(Settings(V[n])), Delivered(g, n)
      PROVE  Delivered(g, n - 1)'
  <2>1. ASSUME \A k \in 1..n : line[k] # Rebooted, Has(g) \/ g = f PROVE Has(g)'
    <3>1. 1 \in 0..n /\ \A k \in (1 + 1)..n : line[k] # Rebooted
      BY <1>0, <2>1
    <3>2. V[1] = V[n]
      BY <3>1 DEF Labels
    <3>3. f # Rebooted
      BY <1>0, <2>1
    <3> QED BY <1>1, <2>1, <3>2, <3>3
  <2> QED BY <1>0, <1>1, <2>1, DeliveredRead
<1>2. PICK W : W = [n \in 0..(Len(line) - 1) |-> V[n + 1]]
  OBVIOUS
<1>3. W \in [0..(Len(line) - 1) -> Version] /\ \A n \in 0..(Len(line) - 1) : W[n] = V[n + 1]
  BY <1>0, <1>2
<1>4. Labels(W)'
  <2>1. InfoOf(W[0])' /\ W[Len(line')] = version'
    <3>1. W[0] = V[1] /\ W[Len(line')] = V[Len(line)]
      BY <1>0, <1>3
    <3> QED BY <3>1 DEF Labels
  <2>2. ASSUME NEW n \in 1..Len(line'), NEW m \in 0..n, \A k \in (m + 1)..n : line'[k] # Rebooted
        PROVE  W[m] = W[n]
    <3>1. \A k \in ((m + 1) + 1)..(n + 1) : line[k] # Rebooted
      <4> SUFFICES ASSUME NEW k \in ((m + 1) + 1)..(n + 1) PROVE line[k] # Rebooted
        OBVIOUS
      <4>1. k - 1 \in (m + 1)..n /\ k - 1 \in 1..Len(line') /\ line'[k - 1] = line[k]
        BY <1>0
      <4> QED BY <2>2, <4>1
    <3>2. n + 1 \in 1..Len(line) /\ m + 1 \in 0..(n + 1)
      BY <1>0
    <3>3. V[m + 1] = V[n + 1]
      BY <3>1, <3>2 DEF Labels
    <3> QED BY <1>0, <1>3, <3>3
  <2>3. ASSUME NEW n \in 1..Len(line')
        PROVE  /\ n + 1 \in 1..Len(line) /\ line'[n] = line[n + 1] /\ W[n] = V[n + 1]
    BY <1>0, <1>3
  <2>4. ASSUME NEW n \in 1..Len(line'), NEW v \in Version, line'[n] \in ToSet(Settings(v))
        PROVE  W[n] = v
    BY <2>3, <2>4 DEF Labels
  <2>5. ASSUME NEW n \in 1..Len(line'), line'[n] = Complete, NEW g \in ToSet(Settings(W[n]))
        PROVE  Delivered(g, n)'
    <3>1. n + 1 \in 1..Len(line) /\ g \in ToSet(Settings(V[n + 1])) /\ line[n + 1] = Complete
      BY <2>3, <2>5
    <3>2. Delivered(g, n + 1)
      BY <3>1 DEF Labels
    <3>3. PICK i \in 1..Len(line) : i = n + 1
      BY <3>1
    <3>4. Delivered(g, i - 1)' /\ i - 1 = n
      BY <1>1, <3>1, <3>2, <3>3
    <3> QED BY <3>4
  <2> QED BY <2>1, <2>2, <2>4, <2>5 DEF Labels
<1>5. Labelled'
  BY <1>0, <1>3, <1>4 DEF Labelled
<1>6. Sending'
  <2>1. ASSUME NEW g \in ToSet(Settings(version)), Delivered(g, Len(line))
        PROVE  Delivered(g, Len(line))'
    <3>1. PICK i \in 1..Len(line) : i = Len(line)
      BY <1>0
    <3>2. V[i] = version
      BY <3>1 DEF Labels
    <3>3. Delivered(g, i - 1)'
      BY <1>1, <2>1, <3>1, <3>2
    <3>4. i - 1 = Len(line')
      BY <1>0, <3>1
    <3> QED BY <3>3, <3>4 DEF Delivered
  <2> QED BY <2>1 DEF Sending
<1> QED BY <1>5, <1>6

\* A frame that joins the line is labelled with the radio's configuration.
LEMMA GrowKeeps ==
    ASSUME TypeOK, NEW V \in [0..Len(line) -> Version], Labels(V),
           NEW f \in Frame, line' = Append(line, f), info' = info, version' \in Version,
           f # Rebooted => version' = version,
           \A v \in Version : f \in ToSet(Settings(v)) => version = v /\ f # Rebooted,
           f = Complete => \A g \in ToSet(Settings(version)) : Delivered(g, Len(line))
    PROVE  Labelled'
<1>0. /\ line \in Seq(Frame) /\ Len(line) \in Nat /\ Len(line') = Len(line) + 1
      /\ line'[Len(line) + 1] = f /\ \A n \in 1..Len(line) : line'[n] = line[n]
  BY LineGrows DEF TypeOK
<1> DEFINE L == Len(line) + 1
<1>1. PICK W : W = [n \in 0..L |-> IF n = L THEN version' ELSE V[n]]
  OBVIOUS
<1>2. /\ W \in [0..L -> Version] /\ W[L] = version'
      /\ \A n \in 0..Len(line) : W[n] = V[n]
  BY <1>0, <1>1
<1>3. InfoOf(W[0])' /\ W[Len(line')] = version'
  BY <1>0, <1>2 DEF Labels, InfoOf
<1>4. ASSUME NEW n \in 1..Len(line'), NEW m \in 0..n, \A k \in (m + 1)..n : line'[k] # Rebooted
      PROVE  W[m] = W[n]
  <2>1. CASE n # L
    <3>1. n \in 1..Len(line) /\ \A k \in (m + 1)..n : line'[k] = line[k]
      BY <1>0, <2>1
    <3>2. V[m] = V[n]
      BY <1>4, <3>1 DEF Labels
    <3> QED BY <1>0, <1>2, <3>1, <3>2
  <2>2. CASE n = L /\ m # L
    <3>1. f # Rebooted
      BY <1>0, <1>4, <2>2
    <3>2. m \in 0..Len(line) /\ \A k \in (m + 1)..Len(line) : line[k] # Rebooted
      BY <1>0, <1>4, <2>2
    <3>3. V[m] = V[Len(line)]
      <4>1. CASE Len(line) = 0
        BY <3>2, <4>1
      <4>2. CASE Len(line) # 0
        <5>1. Len(line) \in 1..Len(line)
          BY <1>0, <4>2
        <5> QED BY <3>2, <5>1 DEF Labels
      <4> QED BY <4>1, <4>2
    <3> QED BY <1>2, <2>2, <3>1, <3>2, <3>3 DEF Labels
  <2> QED BY <2>1, <2>2
<1>5. ASSUME NEW n \in 1..Len(line'), NEW v \in Version, line'[n] \in ToSet(Settings(v))
      PROVE  W[n] = v
  <2>1. CASE n = L
    BY <1>0, <1>2, <1>5, <2>1
  <2>2. CASE n # L
    BY <1>0, <1>2, <1>5, <2>2 DEF Labels
  <2> QED BY <2>1, <2>2
<1>6. ASSUME NEW n \in 1..Len(line'), line'[n] = Complete, NEW g \in ToSet(Settings(W[n]))
      PROVE  Delivered(g, n)'
  <2>1. CASE n = L
    <3>1. f = Complete /\ f # Rebooted /\ W[n] = version
      BY <1>0, <1>2, <1>6, <2>1, FramesDiffer
    <3>2. Delivered(g, Len(line))
      BY <1>6, <3>1
    <3>3. Delivered(g, Len(line))' /\ n = Len(line')
      BY <1>0, <2>1, <3>1, <3>2, DeliveredGrows DEF TypeOK
    <3> QED BY <3>3 DEF Delivered
  <2>2. CASE n # L
    <3>1. n \in 1..Len(line) /\ n \in 0..Len(line) /\ line[n] = Complete /\ W[n] = V[n]
      BY <1>0, <1>2, <1>6, <2>2
    <3>2. Delivered(g, n)
      BY <1>6, <3>1 DEF Labels
    <3> QED BY <1>0, <3>1, <3>2, DeliveredGrows
  <2> QED BY <2>1, <2>2
<1>7. Labels(W)'
  BY <1>3, <1>4, <1>5, <1>6 DEF Labels
<1> QED BY <1>0, <1>2, <1>7 DEF Labelled

\* When the end of the answer is read, info has the whole configuration, the
\* radio's if no reboot is on the line behind it (serial.rs:188-259).
LEMMA WholeAtEnd ==
    ASSUME TypeOK, Labelled, Reads(Complete)
    PROVE  \E v \in Version :
               /\ info.node = {v} /\ info.lora = {v} /\ info.mqtt = {v}
               /\ ToSet(info.channels) = {Channel(v, i) : i \in Active[v]}
               /\ v = version \/ Rebooted \in ToSet(line')
<1>0. /\ 1 \in 1..Len(line) /\ line[1] = Complete
  BY LineRest DEF TypeOK
<1>1. PICK V \in [0..Len(line) -> Version] : Labels(V)
  BY DEF Labelled
<1>2. PICK v \in Version : v = V[1]
  BY <1>0
<1>3. ASSUME NEW f \in ToSet(Settings(v)) PROVE Has(f)
  <2>1. Delivered(f, 1)
    BY <1>0, <1>1, <1>2, <1>3 DEF Labels
  <2>2. line[1] # f
    BY <1>0, <1>3, FramesDiffer
  <2> QED BY <2>1, <2>2 DEF Delivered
<1>4. InfoOf(v)
  <2>1. 0 \in 0..1 /\ \A k \in (0 + 1)..1 : line[k] # Rebooted
    BY <1>0, FramesDiffer
  <2>2. V[0] = V[1]
    BY <1>0, <1>1, <2>1 DEF Labels
  <2> QED BY <1>1, <1>2, <2>2 DEF Labels
<1>5. info.node = {v} /\ info.lora = {v} /\ info.mqtt = {v}
  <2>1. /\ MyInfo(v) \in ToSet(Settings(v)) /\ Lora(v) \in ToSet(Settings(v))
        /\ Mqtt(v) \in ToSet(Settings(v))
    BY SettingsFrames
  <2>2. Has(MyInfo(v)) /\ Has(Lora(v)) /\ Has(Mqtt(v))
    BY <1>3, <2>1
  <2> QED BY <2>2 DEF Has, MyInfo, Lora, Mqtt
<1>6. ASSUME NEW i \in Active[v] PROVE Channel(v, i) \in ToSet(info.channels)
  <2>1. i \in 1..Slots
    BY <1>6, HandshakeAssumption
  <2>2. Has(Channel(v, i))
    BY <1>3, <2>1, SettingsFrames
  <2> QED BY <1>6, <2>2 DEF Has, Channel
<1>7. ASSUME Rebooted \notin ToSet(line') PROVE v = version
  <2>1. /\ Len(line) \in Nat \ {0} /\ Len(line') = Len(line) - 1 /\ line' \in Seq(Frame)
        /\ \A k \in 1..Len(line') : line'[k] = line[k + 1]
    BY LineRest DEF TypeOK
  <2>2. \A k \in 1..Len(line') : line'[k] # Rebooted
    BY <1>7, <2>1 DEF ToSet
  <2>3. ASSUME NEW k \in (1 + 1)..Len(line) PROVE line[k] # Rebooted
    <3>1. k - 1 \in 1..Len(line') /\ line'[k - 1] = line[k]
      BY <2>1
    <3> QED BY <2>2, <3>1
  <2>4. Len(line) \in 1..Len(line) /\ 1 \in 0..Len(line)
    BY <2>1
  <2> QED BY <1>1, <1>2, <2>3, <2>4 DEF Labels
<1> QED BY <1>4, <1>5, <1>6, <1>7 DEF InfoOf

\* No step mixes configurations, or loses a part of the one that is on its way.
LEMMA ConfigStep ==
    ASSUME TypeOK, TypeOK', Sending, Labelled, OneConfig, KnowsNode, [Next]_vars
    PROVE  Sending' /\ Labelled' /\ OneConfig' /\ KnowsNode'
<1>0. line \in Seq(Frame) /\ dump \in Seq(Frame) /\ Len(line) \in Nat /\ Len(dump) \in Nat
  BY DEF TypeOK
<1>a. PICK V \in [0..Len(line) -> Version] : Labels(V)
  BY DEF Labelled
<1>b. ASSUME UNCHANGED <<info, version, dump, line>> PROVE Sending' /\ Labelled'
  <2>1. \A g, n : Delivered(g, n)' <=> Delivered(g, n)
    BY <1>b DEF Delivered, Has
  <2>2. Labels(V)'
    BY <1>a, <1>b, <2>1 DEF Labels, InfoOf
  <2>3. \A g : Delivered(g, Len(line))' <=> Delivered(g, Len(line))
    BY <1>b DEF Delivered, Has
  <2>4. Sending'
    BY <1>b, <2>3 DEF Sending
  <2> QED BY <1>b, <2>2, <2>4 DEF Labelled
<1>c. ASSUME pc' \notin {"ok", "noNode"} PROVE OneConfig' /\ KnowsNode'
  BY <1>c DEF OneConfig, KnowsNode
<1>d. ASSUME UNCHANGED <<pc, info, version, line>> PROVE OneConfig' /\ KnowsNode'
  BY <1>d DEF OneConfig, KnowsNode
<1>f. ASSUME Running, pc' = pc PROVE OneConfig' /\ KnowsNode'
  BY <1>c, <1>f DEF Running
<1>e. ASSUME NEW f, Reads(f), f # Rebooted, info' = info, UNCHANGED <<version, dump>>,
             \A v \in Version : f \notin ToSet(Settings(v))
      PROVE  Sending' /\ Labelled'
  <2>1. 1 \in 1..Len(line) /\ line[1] = f
    BY <1>0, <1>e, LineRest
  <2>2. V[0] = V[1] /\ V[1] \in Version
    <3>1. 0 \in 0..1 /\ \A k \in (0 + 1)..1 : line[k] # Rebooted
      BY <1>e, <2>1
    <3> QED BY <1>a, <2>1, <3>1 DEF Labels
  <2>3. InfoOf(V[1])'
    BY <1>a, <1>e, <2>2 DEF Labels, InfoOf
  <2>4. \A g \in ToSet(Settings(V[1])) : Has(g) \/ g = f => Has(g)'
    BY <1>e, <2>2 DEF Has
  <2> QED BY <1>a, <1>e, <2>3, <2>4, ReadKeeps
<1>1. CASE ReadIgnored
  <2>1. PICK f \in {Noise, Packet, OtherComplete} :
          Reads(f) /\ Again /\ UNCHANGED <<info, version, dump>>
    BY <1>1 DEF ReadIgnored
  <2>2. f # Rebooted /\ \A v \in Version : f \notin ToSet(Settings(v))
    BY <2>1, FramesDiffer
  <2> QED BY <1>c, <1>e, <2>1, <2>2 DEF Again
<1>2. CASE ReadSettings
  <2>1. PICK v \in Version : \E f \in ToSet(Settings(v)) :
          Reads(f) /\ info' = Captured(f) /\ Again /\ UNCHANGED <<version, dump>>
    BY <1>2 DEF ReadSettings
  <2>2. PICK f \in ToSet(Settings(v)) :
          Reads(f) /\ info' = Captured(f) /\ Again /\ UNCHANGED <<version, dump>>
    BY <2>1
  <2>3. 1 \in 1..Len(line) /\ line[1] = f /\ f # Rebooted
    BY <1>0, <2>2, LineRest, FramesDiffer
  <2>4. V[1] = v /\ V[0] = V[1]
    <3>1. 0 \in 0..1 /\ \A k \in (0 + 1)..1 : line[k] # Rebooted
      BY <2>3
    <3> QED BY <1>a, <2>2, <2>3, <3>1 DEF Labels
  <2>5. InfoOf(v)
    BY <1>a, <2>4 DEF Labels
  <2>6. InfoOf(v)' /\ Has(f)' /\ \A g \in ToSet(Settings(v)) : Has(g) => Has(g)'
    BY <2>2, <2>5, CapturedKeeps
  <2>7. \A g \in ToSet(Settings(V[1])) : Has(g) \/ g = f => Has(g)'
    BY <2>4, <2>6
  <2>8. InfoOf(V[1])'
    BY <2>4, <2>6
  <2>9. Sending' /\ Labelled'
    BY <1>a, <2>2, <2>7, <2>8, ReadKeeps
  <2> QED BY <1>c, <2>2, <2>9 DEF Again
<1>3. CASE ReadRebooted
  <2>1. Reads(Rebooted) /\ info' = NoInfo /\ UNCHANGED <<version, dump>>
        /\ pc' \in {"top", "portError"}
    BY <1>3 DEF ReadRebooted, Write, PortError
  <2>2. InfoOf(V[1])'
    BY <2>1 DEF InfoOf, NoInfo, ToSet
  <2>3. Sending' /\ Labelled'
    BY <1>a, <2>1, <2>2, ReadKeeps
  <2> QED BY <1>c, <2>1, <2>3
<1>4. CASE ReadComplete
  <2>1. Reads(Complete) /\ UNCHANGED <<info, version, dump>>
        /\ pc' = IF info.node = {} THEN "noNode" ELSE "ok"
    BY <1>4 DEF ReadComplete, Ends
  <2>2. Complete # Rebooted /\ \A v \in Version : Complete \notin ToSet(Settings(v))
    BY FramesDiffer
  <2>3. Sending' /\ Labelled'
    BY <1>e, <2>1, <2>2
  <2>4. PICK v \in Version :
            /\ info.node = {v} /\ info.lora = {v} /\ info.mqtt = {v}
            /\ ToSet(info.channels) = {Channel(v, i) : i \in Active[v]}
            /\ v = version \/ Rebooted \in ToSet(line')
    BY <2>1, WholeAtEnd
  <2>5. pc' = "ok"
    BY <2>1, <2>4
  <2> QED BY <2>1, <2>3, <2>4, <2>5 DEF OneConfig, KnowsNode
<1>5. CASE Chatters
  <2>1. PICK f \in {Noise, Packet} : line' = Append(line, f)
    BY <1>5 DEF Chatters
  <2>2. Running /\ UNCHANGED <<info, version, dump, pc>>
    BY <1>5 DEF Chatters, Room, callVars
  <2>3. /\ f \in Frame /\ f # Rebooted /\ f # Complete
        /\ \A v \in Version : f \notin ToSet(Settings(v))
    BY <2>1, FramesDiffer
  <2>4. Labelled'
    BY <1>a, <2>1, <2>2, <2>3, GrowKeeps DEF TypeOK
  <2>5. \A g : Delivered(g, Len(line)) => Delivered(g, Len(line))'
    BY <1>0, <2>1, <2>2, <2>3, DeliveredGrows
  <2>6. Sending'
    BY <2>2, <2>5 DEF Sending
  <2> QED BY <1>f, <2>2, <2>4, <2>6
<1>6. CASE TakesRequest
  <2>1. UNCHANGED <<info, version, line, pc>>
        /\ dump' = IF isRadio THEN Append(Settings(version), Complete) ELSE <<>>
    BY <1>6 DEF TakesRequest, callVars
  <2>2. Labelled'
    <3>1. \A g, n : Delivered(g, n)' <=> Delivered(g, n)
      BY <2>1, Zenon DEF Delivered, Has
    <3>2. \A v : InfoOf(v)' <=> InfoOf(v)
      BY <2>1, Zenon DEF InfoOf
    <3>3. Labels(V)'
      BY <1>a, <2>1, <3>1, <3>2, Zenon DEF Labels
    <3> QED BY <2>1, <3>3 DEF Labelled
  <2>3. Sending'
    <3>1. CASE isRadio
      <4> DEFINE S == Settings(version)
      <4>1. S \in Seq(Frame) /\ version \in Version
        BY SettingsFrames DEF TypeOK
      <4>2. /\ dump' = Append(S, Complete) /\ Len(S) \in Nat /\ Len(dump') = Len(S) + 1
            /\ dump'[Len(S) + 1] = Complete /\ \A n \in 1..Len(S) : dump'[n] = S[n]
        BY <2>1, <3>1, <4>1, FramesDiffer
      <4>3. \A n \in 1..Len(S) : S[n] \in ToSet(S)
        BY <4>1 DEF ToSet
      <4>4. ASSUME NEW f \in ToSet(S) PROVE f \in ToSet(dump')
        <5>1. PICK n \in 1..Len(S) : S[n] = f
          BY <4>1, <4>4 DEF ToSet
        <5>2. n \in 1..Len(dump') /\ dump'[n] = f
          BY <4>2, <5>1
        <5> QED BY <4>2, <5>2 DEF ToSet
      <4>5. ASSUME NEW n \in 1..Len(dump'), NEW v \in Version, dump'[n] \in ToSet(Settings(v))
            PROVE  version = v
        <5>1. n \in 1..Len(S) /\ dump'[n] \in ToSet(Settings(version))
          BY <4>2, <4>3, <4>5, FramesDiffer
        <5>2. dump'[n].of = v /\ dump'[n].of = version
          BY <4>1, <4>5, <5>1, SettingsFrames
        <5> QED BY <5>2
      <4>6. ASSUME NEW n \in 1..Len(dump'), dump'[n] = Complete PROVE n = Len(dump')
        <5>1. n \notin 1..Len(S)
          BY <4>1, <4>2, <4>3, <4>6, FramesDiffer
        <5> QED BY <4>2, <5>1
      <4>7. \A n \in 1..Len(dump') : dump'[n] # Rebooted
        BY <4>1, <4>2, <4>3, FramesDiffer
      <4> QED BY <2>1, <4>4, <4>5, <4>6, <4>7 DEF Sending
    <3>2. CASE ~isRadio
      BY <2>1, <3>2 DEF Sending
    <3> QED BY <3>1, <3>2
  <2> QED BY <1>d, <2>1, <2>2, <2>3
<1>7. CASE Dumps
  <2> DEFINE f == Head(dump)
  <2>1. /\ line' = Append(line, f) /\ dump' = Tail(dump) /\ dump # <<>>
        /\ Running /\ UNCHANGED <<info, version, pc>>
    BY <1>7 DEF Dumps, Room, callVars
  <2>2. /\ f \in Frame /\ f = dump[1] /\ Len(dump) \in Nat \ {0} /\ Len(dump') = Len(dump) - 1
        /\ \A n \in 1..Len(dump') : dump'[n] = dump[n + 1]
    BY <1>0, <2>1, HeadTailProperties, EmptySeq
  <2>3. f # Rebooted
    BY <2>2 DEF Sending
  <2> HIDE DEF f
  <2>4. \A v \in Version : f \in ToSet(Settings(v)) => version = v
    BY <2>2 DEF Sending
  <2>5. ASSUME NEW g \in ToSet(dump), g # f PROVE g \in ToSet(dump')
    <3>1. PICK n \in 1..Len(dump) : dump[n] = g
      BY <1>0, <2>5 DEF ToSet
    <3>2. n # 1 /\ n - 1 \in 1..Len(dump') /\ dump'[n - 1] = g
      BY <2>2, <2>5, <3>1
    <3> QED BY <2>2, <3>2 DEF ToSet
  <2>6. ASSUME f = Complete, NEW g \in ToSet(Settings(version)) PROVE Delivered(g, Len(line))
    <3>0. 1 \in 1..Len(dump) /\ dump[1] = Complete
      BY <2>2, <2>6
    <3>1. Len(dump) = 1 /\ (g \in ToSet(dump) \/ Delivered(g, Len(line)))
      BY <2>6, <3>0 DEF Sending
    <3>2. g # f
      BY <2>6, FramesDiffer DEF TypeOK
    <3>3. g \notin ToSet(dump)
      BY <1>0, <2>2, <3>1, <3>2 DEF ToSet
    <3> QED BY <3>1, <3>3
  <2>7. Labelled'
    BY <1>a, <2>1, <2>2, <2>3, <2>4, <2>6, GrowKeeps DEF TypeOK
  <2>8. \A g : g = f \/ Delivered(g, Len(line)) => Delivered(g, Len(line))'
    BY <1>0, <2>1, <2>2, <2>3, DeliveredGrows
  <2>9. Sending'
    <3>1. ASSUME NEW n \in 1..Len(dump')
          PROVE  n + 1 \in 1..Len(dump) /\ dump'[n] = dump[n + 1]
      BY <2>2
    <3>2. ASSUME NEW n \in 1..Len(dump'), NEW v \in Version, dump'[n] \in ToSet(Settings(v))
          PROVE  version' = v
      BY <2>1, <3>1, <3>2 DEF Sending
    <3>3. ASSUME NEW n \in 1..Len(dump'), dump'[n] = Complete
          PROVE  /\ n = Len(dump')
                 /\ \A g \in ToSet(Settings(version)) :
                        g \in ToSet(dump') \/ Delivered(g, Len(line))'
      <4>1. /\ n + 1 = Len(dump)
            /\ \A g \in ToSet(Settings(version)) : g \in ToSet(dump) \/ Delivered(g, Len(line))
        BY <3>1, <3>3 DEF Sending
      <4> QED BY <2>2, <2>5, <2>8, <4>1
    <3>4. \A n \in 1..Len(dump') : dump'[n] # Rebooted
      BY <3>1 DEF Sending
    <3> QED BY <2>1, <3>2, <3>3, <3>4 DEF Sending
  <2> QED BY <1>f, <2>1, <2>7, <2>9
<1>8. CASE Reboots
  <2>1. /\ line' = Append(line, Rebooted) /\ dump' = <<>> /\ UNCHANGED <<info, pc>>
        /\ Running /\ version' \in Version
    BY <1>8 DEF Reboots, Room, callVars
  <2>2. Rebooted \in Frame /\ Rebooted # Complete
        /\ \A v \in Version : Rebooted \notin ToSet(Settings(v))
    BY FramesDiffer
  <2>3. Labelled'
    BY <1>a, <2>1, <2>2, GrowKeeps
  <2>4. Sending'
    BY <2>1 DEF Sending
  <2> QED BY <1>f, <2>1, <2>3, <2>4
<1>9. CASE Start \/ ResendRequest
  <2>1. UNCHANGED <<info, version, dump, line>> /\ pc' \in {"top", "read", "portError"}
    BY <1>9 DEF Start, ResendRequest, Write, PortError
  <2> QED BY <1>b, <1>c, <2>1
<1>10. CASE TimeOut \/ GiveUp \/ NothingDue
  BY <1>b, <1>c, <1>10 DEF TimeOut, GiveUp, NothingDue, deviceVars
<1>11. CASE ReadNothing
  BY <1>b, <1>c, <1>11 DEF ReadNothing, Again, deviceVars
<1>12. CASE Tick \/ UNCHANGED vars
  BY <1>b, <1>d, <1>12 DEF Tick, vars, callVars, deviceVars
<1> QED
  BY <1>1, <1>2, <1>3, <1>4, <1>5, <1>6, <1>7, <1>8, <1>9, <1>10, <1>11, <1>12
  DEF Next, Pass, Device, Ended

-----------------------------------------------------------------------------
(* Theorems. *)

\* The invariant holds whatever the device and the caller are.
THEOREM AlwaysIInv == Spec => []IInv
<1>1. IInv /\ [Next]_vars => IInv'
  <2> SUFFICES ASSUME IInv, [Next]_vars PROVE IInv'
    OBVIOUS
  <2>0. TypeOK /\ NotForgotten /\ InPass(Timeout) /\ Timeout \in Nat /\ FirstFrame \in Nat
    BY HandshakeAssumption DEF IInv
  <2>1. TypeOK' /\ NotForgotten'
    BY <2>0, TypesStep, NotForgottenStep
  <2>2. pc = "top" /\ pc' = "read" => now <= Timeout /\ (~heard => now <= FirstFrame)
    BY <2>0, ReadsInTime
  <2>3. InPass(Timeout)'
    BY <2>0, <2>2, PassStep
  <2>4. ASSUME ~isRadio' PROVE Silent' /\ ~isRadio
    <3>1. CASE isRadio
      BY <2>4, <3>1 DEF Next, Pass, Device, Ended, Start, TimeOut, GiveUp, ResendRequest, NothingDue,
         ReadNothing, ReadIgnored, ReadSettings, ReadRebooted, ReadComplete, Tick, Chatters,
         TakesRequest, Dumps, Reboots, vars, deviceVars
    <3>2. CASE ~isRadio
      BY <2>0, <3>2, SilentStep DEF IInv
    <3> QED BY <3>1, <3>2
  <2>5. ASSUME ~isRadio', probing' PROVE InPass(FirstFrame)'
    <3>1. ~isRadio /\ probing
      <4>1. probing' = probing
        BY DEF Next, Pass, Device, Ended, Start, TimeOut, GiveUp, ResendRequest, NothingDue,
           ReadNothing, ReadIgnored, ReadSettings, ReadRebooted, ReadComplete, Tick, Chatters,
           TakesRequest, Dumps, Reboots, vars, callVars
      <4> QED BY <2>4, <2>5, <4>1
    <3>2. InPass(FirstFrame) /\ ~heard
      BY <3>1 DEF IInv, Silent
    <3> QED BY <2>0, <2>2, <3>2, PassStep
  <2>6. Sending' /\ Labelled' /\ OneConfig' /\ KnowsNode'
    BY <2>1, ConfigStep DEF IInv
  <2> QED BY <2>1, <2>3, <2>4, <2>5, <2>6 DEF IInv
<1> QED BY <1>1, Starts, PTL DEF Spec

\* While a handshake with a radio runs, its request, the end of a dump or
\* the news of a reboot is under way (serial.rs:165-169, 245-253).
THEOREM NeverForgotten == Spec => []NotForgotten
<1>1. IInv => NotForgotten
  BY DEF IInv
<1> QED BY <1>1, AlwaysIInv, PTL

\* Whatever reboots, repeated requests and old answers come in between, a
\* handshake that succeeds has one whole configuration, the radio's, unless the
\* news of a later reboot is on the line (serial.rs:188-259).
THEOREM GivesOneConfig == Spec => []OneConfig
<1>1. IInv => OneConfig
  BY DEF IInv
<1> QED BY <1>1, AlwaysIInv, PTL

\* A handshake with a radio never ends without its node number
\* (serial.rs:193-199).
THEOREM AlwaysKnowsNode == Spec => []KnowsNode
<1>1. IInv => KnowsNode
  BY DEF IInv
<1> QED BY <1>1, AlwaysIInv, PTL

\* For any timeouts: no handshake takes longer than its timeout, no probe of
\* what is no radio longer than first_frame (serial.rs:110-113, 151-164).
THEOREM EndsInTime == Spec => []GivesUpInTime
<1>1. IInv => GivesUpInTime
  <2> SUFFICES ASSUME IInv, Running
               PROVE  now <= Timeout + 2 /\ (probing /\ ~isRadio => now <= FirstFrame + 2)
    BY DEF GivesUpInTime
  <2>1. /\ now \in Nat /\ Timeout \in Nat /\ FirstFrame \in Nat /\ pc \in {"top", "read"}
        /\ InPass(Timeout) /\ (~isRadio /\ probing => InPass(FirstFrame))
    BY HandshakeAssumption DEF IInv, TypeOK, Running
  <2>2. \A limit \in Nat : InPass(limit) => now <= limit + 2
    BY <2>1 DEF InPass
  <2> QED BY <2>1, <2>2
<1> QED BY <1>1, AlwaysIInv, PTL
=============================================================================
