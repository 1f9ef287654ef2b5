------------------------- MODULE BridgeThreadsProofs -------------------------
(***************************************************************************)
(* For any bounds on frames, datagrams and intervals: the safety           *)
(* properties of Bridge::run, from one inductive invariant.                *)
(***************************************************************************)
EXTENDS BridgeThreads, TLAPS

\* The nonce stays in its width and never becomes the ping (bridge.rs:234-238).
LEMMA NonceStep ==
    ASSUME NEW n \in 0..(NonceModulus - 1)
    PROVE  NextNonce(n) \in 0..(NonceModulus - 1) /\ NextNonce(n) # Ping
<1>1. \A k \in 0..(NonceModulus - 1) :
        Next32(k) = IF k = NonceModulus - 1 THEN 0 ELSE k + 1
  <2> SUFFICES ASSUME NEW k \in 0..(NonceModulus - 1)
               PROVE  (k + 1) % NonceModulus = IF k = NonceModulus - 1 THEN 0 ELSE k + 1
    BY DEF Next32
  <2>1. CASE k = NonceModulus - 1
    BY <2>1, BoundsAssumption
  <2>2. CASE k # NonceModulus - 1
    BY <2>2, BoundsAssumption
  <2> QED BY <2>1, <2>2
<1>2. \A k \in 0..(NonceModulus - 1) : Next32(k) \in 0..(NonceModulus - 1)
  BY <1>1, BoundsAssumption
<1>3. CASE Next32(n) = Ping
  <2>1. Next32(1) = 2
    BY <1>1, BoundsAssumption
  <2> QED BY <1>3, <2>1, BoundsAssumption DEF NextNonce, Ping
<1>4. CASE Next32(n) # Ping
  BY <1>2, <1>4 DEF NextNonce
<1> QED BY <1>3, <1>4

\* run starts with no thread, an open channel and nothing read (bridge.rs:112-113).
THEOREM InitIInv == Init => IInv
<1> SUFFICES ASSUME Init PROVE IInv
  OBVIOUS
<1>1. TypeOK
  <2>1. <<>> \in Seq(Event) /\ <<>> \in Seq(0..(NonceModulus - 1))
    OBVIOUS
  <2>2. main \in MainLabel /\ pc \in [Thread -> Label]
    BY DEF Init, MainLabel, Spawning, Label
  <2>3. nonce \in 0..(NonceModulus - 1) /\ framesRead \in 0..MaxFrames /\ datagrams \in 0..MaxDatagrams
        /\ elapsed \in 0..MaxIntervals /\ ticks \in 0..MaxIntervals /\ framesHandled \in Nat
    BY BoundsAssumption DEF Init, Ping
  <2>4. stop \in BOOLEAN /\ rxOpen \in BOOLEAN
    BY DEF Init
  <2> QED BY <2>1, <2>2, <2>3, <2>4 DEF Init, TypeOK
<1>2. Protocol
  BY DEF Init, Protocol, Spawning, Joining, Thread
<1>3. DeadReaderReported /\ EndHasCause
  BY DEF Init, DeadReaderReported, EndHasCause, Queued, Thread
<1>4. NoFrameLost
  BY DEF Init, NoFrameLost, IsFrame
<1>5. Batch
  BY DEF Init, Batch
<1> QED BY <1>1, <1>2, <1>3, <1>4, <1>5 DEF IInv

-----------------------------------------------------------------------------
(* The dispatching thread and its environment. *)

\* Starting a thread leaves the channel alone (bridge.rs:121-207).
LEMMA SpawnStep ==
    ASSUME IInv,
           \/ Spawn("serial", "spawnSerial", "spawnUdp")
           \/ Spawn("udp", "spawnUdp", "spawnHeartbeat")
           \/ Spawn("heartbeat", "spawnHeartbeat", "dispatch")
    PROVE  IInv'
<1>1. /\ UNCHANGED <<end, stop, rxOpen, inbox, pending, framesRead, counters>>
      /\ main \in Spawning /\ main' \in Spawning \cup {"dispatch"}
  BY DEF Spawn, Spawning
<1>2. TypeOK'
  BY <1>1 DEF IInv, TypeOK, counters, Spawn, Goto, MainLabel, Spawning, Thread, Label
<1>3. Protocol'
  BY <1>1 DEF IInv, TypeOK, Protocol, Spawn, Goto, Spawning, Joining, Thread, Label
<1>4. pc'["serial"] = "done" <=> pc["serial"] = "done"
  BY DEF IInv, TypeOK, Protocol, Spawn, Goto, Thread
<1>5. pc'["udp"] = "done" <=> pc["udp"] = "done"
  BY DEF IInv, TypeOK, Protocol, Spawn, Goto, Thread
<1>6. DeadReaderReported' /\ EndHasCause'
  BY <1>1, <1>4, <1>5 DEF IInv, DeadReaderReported, EndHasCause, Queued, Spawning
<1>7. NoFrameLost'
  BY <1>1 DEF IInv, NoFrameLost, IsFrame, counters, Spawning
<1>8. Batch'
  BY <1>1 DEF IInv, TypeOK, Protocol, Batch, Spawn, Goto, Thread
<1> QED BY <1>2, <1>3, <1>6, <1>7, <1>8 DEF IInv

\* A failed start drops the channel and touches no thread (bridge.rs:155, 188, 207).
LEMMA SpawnFailsStep == IInv /\ SpawnFails => IInv'
<1> SUFFICES ASSUME IInv, SpawnFails PROVE IInv'
  OBVIOUS
<1>1. TypeOK'
  <2>1. <<>> \in Seq(Event)
    OBVIOUS
  <2> QED BY <2>1 DEF IInv, TypeOK, SpawnFails, counters, MainLabel
<1>2. Protocol'
  BY DEF IInv, Protocol, SpawnFails, Spawning, Joining
<1>3. DeadReaderReported' /\ EndHasCause' /\ NoFrameLost' /\ Batch'
  BY DEF IInv, DeadReaderReported, EndHasCause, NoFrameLost, Batch, Queued, SpawnFails, Spawning
<1> QED BY <1>1, <1>2, <1>3 DEF IInv

\* The flag, the closed channel and the joins come after the loop, when
\* only the threads' ends matter (bridge.rs:258-263).
LEMMA EndingStep ==
    ASSUME IInv,
           \/ Stop \/ Close
           \/ Join("serial", "joinSerial", "joinUdp")
           \/ Join("udp", "joinUdp", "joinHeartbeat")
           \/ Join("heartbeat", "joinHeartbeat", "returned")
    PROVE  IInv'
<1>1. /\ main' \in Joining \cup {"close", "returned"}
      /\ UNCHANGED <<end, pc, pending, framesRead, counters>>
      /\ inbox' = inbox \/ inbox' = <<>>
  BY DEF Stop, Close, Join, Joining
<1>2. TypeOK'
  <2>1. <<>> \in Seq(Event)
    OBVIOUS
  <2>2. stop' \in BOOLEAN /\ rxOpen' \in BOOLEAN
    BY DEF IInv, TypeOK, Stop, Close, Join
  <2> QED BY <1>1, <2>1, <2>2 DEF IInv, TypeOK, counters, MainLabel
<1>3. Protocol'
  BY <1>1 DEF IInv, Protocol, Stop, Close, Join, Joining, Spawning
<1>4. EndHasCause'
  BY <1>1 DEF IInv, EndHasCause, Queued
<1>5. DeadReaderReported' /\ NoFrameLost' /\ Batch'
  BY <1>1 DEF IInv, DeadReaderReported, NoFrameLost, Batch, Spawning, Joining
<1> QED BY <1>2, <1>3, <1>4, <1>5 DEF IInv

-----------------------------------------------------------------------------
(* The channel. *)

\* What an event sent by thread t at the back of the open channel preserves.
LEMMA AppendKeepsQueued ==
    ASSUME inbox \in Seq(Event), NEW e \in Event, inbox' = Append(inbox, e)
    PROVE  /\ \A i \in 1..Len(inbox) : inbox'[i] = inbox[i]
           /\ inbox'[Len(inbox) + 1] = e /\ Len(inbox') = Len(inbox) + 1
           /\ inbox' \in Seq(Event)
           /\ \A t : Queued(t)' <=> Queued(t) \/ e.type = t
<1>1. /\ \A i \in 1..Len(inbox) : inbox'[i] = inbox[i]
      /\ inbox'[Len(inbox) + 1] = e /\ Len(inbox') = Len(inbox) + 1
      /\ inbox' \in Seq(Event) /\ Len(inbox) \in Nat
  OBVIOUS
<1>2. ASSUME NEW t PROVE Queued(t)' <=> Queued(t) \/ e.type = t
  BY <1>1 DEF Queued
<1> QED BY <1>1, <1>2

\* Receiving takes the oldest event and moves the others up.
LEMMA TailKeepsRest ==
    ASSUME inbox \in Seq(Event), Len(inbox) > 0, inbox' = Tail(inbox)
    PROVE  /\ inbox' \in Seq(Event) /\ Len(inbox') = Len(inbox) - 1
           /\ Head(inbox) = inbox[1] /\ Head(inbox) \in Event
           /\ \A i \in 1..Len(inbox') : inbox'[i] = inbox[i + 1]
           /\ \A t : Queued(t)' => Queued(t)
           /\ \A t : Queued(t) => Head(inbox).type = t \/ Queued(t)'
<1>1. /\ inbox' \in Seq(Event) /\ Len(inbox') = Len(inbox) - 1 /\ Len(inbox) \in Nat
      /\ Head(inbox) = inbox[1] /\ Head(inbox) \in Event
      /\ \A i \in 1..Len(inbox') : inbox'[i] = inbox[i + 1]
  OBVIOUS
<1>2. ASSUME NEW t, Queued(t)' PROVE Queued(t)
  <2>1. PICK i \in 1..Len(inbox') : inbox'[i].type = t
    BY <1>2 DEF Queued
  <2>2. i + 1 \in 1..Len(inbox) /\ inbox[i + 1].type = t
    BY <1>1, <2>1
  <2> QED BY <2>2 DEF Queued
<1>3. ASSUME NEW t, Queued(t) PROVE Head(inbox).type = t \/ Queued(t)'
  <2>1. PICK i \in 1..Len(inbox) : inbox[i].type = t
    BY <1>3 DEF Queued
  <2>2. CASE i = 1
    BY <1>1, <2>1, <2>2
  <2>3. CASE i # 1
    <3>1. i - 1 \in 1..Len(inbox') /\ inbox'[i - 1] = inbox[i]
      BY <1>1, <2>1, <2>3
    <3> QED BY <2>1, <3>1 DEF Queued
  <2> QED BY <2>2, <2>3
<1> QED BY <1>1, <1>2, <1>3

-----------------------------------------------------------------------------
(* The dispatch loop. *)

\* The first event, when it is a frame, is the frame whose turn it is.
LEMMA OldestFrame ==
    ASSUME IInv, main = "dispatch", Len(inbox) > 0, inbox[1].type = "SerialFrame"
    PROVE  inbox[1].seq = framesHandled + 1 /\ framesHandled + 1 <= framesRead - Len(pending)
<1> DEFINE F == {inbox[i].seq : i \in {j \in 1..Len(inbox) : IsFrame(j)}}
           P == framesRead - Len(pending)
<1>1. /\ inbox \in Seq(Event) /\ Len(inbox) \in Nat /\ framesHandled \in Nat
      /\ F = (framesHandled + 1)..P /\ P \in Int
      /\ \A i, j \in 1..Len(inbox) :
            i < j /\ IsFrame(i) /\ IsFrame(j) => inbox[i].seq < inbox[j].seq
  <2>1. /\ inbox \in Seq(Event) /\ pending \in Seq(Event)
        /\ framesRead \in 0..MaxFrames /\ framesHandled \in Nat
    BY Zenon DEF IInv, TypeOK
  <2>2. /\ F = (framesHandled + 1)..P
        /\ \A i, j \in 1..Len(inbox) :
              i < j /\ IsFrame(i) /\ IsFrame(j) => inbox[i].seq < inbox[j].seq
    BY DEF IInv, NoFrameLost
  <2>3. Len(inbox) \in Nat /\ P \in Int
    BY <2>1, BoundsAssumption
  <2> QED BY <2>1, <2>2, <2>3, Zenon
<1>2. 1 \in 1..Len(inbox) /\ IsFrame(1) /\ inbox[1].seq \in F
  BY <1>1 DEF IsFrame
<1> HIDE DEF P, F
<1>3. inbox[1].seq \in Int /\ framesHandled + 1 <= inbox[1].seq /\ inbox[1].seq <= P
  BY <1>1, <1>2
<1>4. framesHandled + 1 \in F
  BY <1>1, <1>3
<1>5. PICK i \in 1..Len(inbox) : IsFrame(i) /\ inbox[i].seq = framesHandled + 1
  BY <1>4, Zenon DEF F
<1>6. i = 1 \/ inbox[1].seq < inbox[i].seq
  <2>1. i = 1 \/ 1 < i
    BY <1>1
  <2> QED BY <1>1, <1>2, <1>5, <2>1, Zenon
<1>7. inbox[1].seq = framesHandled + 1
  BY <1>1, <1>3, <1>5, <1>6
<1> QED BY <1>3, <1>7 DEF P

\* The loop is never handed a disconnected channel: the timer still holds
\* its sender (bridge.rs:190-207, 212-217).
LEMMA TimerHoldsSender == IInv => RecvNeverDisconnects
BY DEF IInv, TypeOK, Protocol, RecvNeverDisconnects, Senders, Thread

\* Handling one event (bridge.rs:211-256).
LEMMA DispatchStep == IInv /\ Dispatch => IInv'
<1> SUFFICES ASSUME IInv, Dispatch PROVE IInv'
  OBVIOUS
<1> DEFINE e == Head(inbox)
<1>0. inbox \in Seq(Event) /\ main = "dispatch"
  BY DEF IInv, TypeOK, Dispatch
<1>1. inbox # <<>>
  BY <1>0, TimerHoldsSender DEF RecvNeverDisconnects, Dispatch
<1>2. /\ end' = EndFor(e)
      /\ main' = IF EndFor(e) = "none" THEN "dispatch" ELSE "stop"
      /\ framesHandled' = IF e.type = "SerialFrame" THEN framesHandled + 1 ELSE framesHandled
      /\ nonce' = IF e.type = "Tick" THEN NextNonce(nonce) ELSE nonce
      /\ heartbeats' = IF e.type = "Tick" THEN Append(heartbeats, nonce') ELSE heartbeats
      /\ inbox' = Tail(inbox)
      /\ UNCHANGED <<stop, rxOpen, pc, pending, framesRead, datagrams, elapsed, ticks>>
  BY <1>1 DEF Dispatch
<1>3. /\ inbox' \in Seq(Event) /\ Len(inbox') = Len(inbox) - 1
      /\ e = inbox[1] /\ e \in Event /\ Len(inbox) \in Nat /\ Len(inbox) > 0
      /\ \A i \in 1..Len(inbox') : inbox'[i] = inbox[i + 1]
      /\ \A t : Queued(t)' => Queued(t)
      /\ \A t : Queued(t) => e.type = t \/ Queued(t)'
  <2>1. Len(inbox) \in Nat /\ Len(inbox) > 0
    BY <1>0, <1>1
  <2> QED BY <1>0, <1>2, <2>1, TailKeepsRest
<1>4. main' \in {"dispatch", "stop"}
  BY <1>2
<1>5. TypeOK'
  <2>1. end' \in {"none", "RadioRebooted", "SerialLost", "UdpFailed"}
    BY <1>2 DEF EndFor
  <2>2. nonce' \in 0..(NonceModulus - 1)
    BY <1>2, NonceStep DEF IInv, TypeOK
  <2>3. heartbeats' \in Seq(0..(NonceModulus - 1))
    <3> DEFINE W == 0..(NonceModulus - 1)
    <3>1. heartbeats \in Seq(W) /\ nonce' \in W
      BY <2>2 DEF IInv, TypeOK
    <3> HIDE DEF W
    <3>2. Append(heartbeats, nonce') \in Seq(W)
      BY <3>1
    <3> QED BY <1>2, <3>1, <3>2 DEF W
  <2>4. framesHandled' \in Nat
    BY <1>2 DEF IInv, TypeOK
  <2> QED BY <1>2, <1>3, <1>4, <2>1, <2>2, <2>3, <2>4 DEF IInv, TypeOK, MainLabel
<1>6. Protocol'
  BY <1>0, <1>2, <1>4 DEF IInv, Protocol, Spawning, Joining
<1>7. DeadReaderReported'
  <2> SUFFICES ASSUME main' = "dispatch"
               PROVE  /\ pc'["serial"] = "done" => Queued("SerialError")'
                      /\ pc'["udp"] = "done" => Queued("UdpError")'
    BY <1>4 DEF DeadReaderReported, Spawning
  <2>1. e.type # "SerialError" /\ e.type # "UdpError"
    BY <1>2 DEF EndFor
  <2> QED BY <1>0, <1>2, <1>3, <2>1 DEF IInv, DeadReaderReported
<1>8. EndHasCause'
  <2>1. Queued(e.type)
    BY <1>3 DEF Queued
  <2>2. end' = "SerialLost" => e.type = "SerialError"
    BY <1>2 DEF EndFor
  <2>3. end' = "UdpFailed" => e.type = "UdpError"
    BY <1>2 DEF EndFor
  <2> QED BY <1>2, <1>3, <2>1, <2>2, <2>3 DEF IInv, EndHasCause
<1>9. NoFrameLost'
  <2> DEFINE F == {inbox[i].seq : i \in {j \in 1..Len(inbox) : IsFrame(j)}}
             P == framesRead - Len(pending)
  <2>1. /\ F = (framesHandled + 1)..P
        /\ \A i, j \in 1..Len(inbox) :
              i < j /\ IsFrame(i) /\ IsFrame(j) => inbox[i].seq < inbox[j].seq
        /\ \A i \in 1..Len(pending) : pending[i].seq = framesRead - Len(pending) + i
    BY <1>0 DEF IInv, NoFrameLost
  <2>0. framesHandled <= P
    BY <1>0 DEF IInv, NoFrameLost
  <2>2. \A i \in 1..Len(inbox') : IsFrame(i)' <=> IsFrame(i + 1)
    BY <1>3 DEF IsFrame
  <2>3. ASSUME NEW i \in 1..Len(inbox'), NEW j \in 1..Len(inbox'),
               i < j, IsFrame(i)', IsFrame(j)'
        PROVE  inbox'[i].seq < inbox'[j].seq
    <3>1. i + 1 \in 1..Len(inbox) /\ j + 1 \in 1..Len(inbox) /\ i + 1 < j + 1
      BY <1>3, <2>3
    <3>2. IsFrame(i + 1) /\ IsFrame(j + 1)
      BY <2>2, <2>3, Zenon
    <3>3. inbox[i + 1].seq < inbox[j + 1].seq
      BY <2>1, <3>1, <3>2, Zenon
    <3>4. inbox'[i] = inbox[i + 1] /\ inbox'[j] = inbox[j + 1]
      BY <1>3, Zenon
    <3> QED BY <3>3, <3>4, Zenon
  <2>4. {inbox'[i].seq : i \in {j \in 1..Len(inbox') : IsFrame(j)'}}
          = F \ {inbox[i].seq : i \in {j \in {1} : IsFrame(j)}}
    <3> DEFINE F2 == {inbox'[i].seq : i \in {j \in 1..Len(inbox') : IsFrame(j)'}}
               D == {inbox[i].seq : i \in {j \in {1} : IsFrame(j)}}
    <3>1. ASSUME NEW x \in F2 PROVE x \in F /\ x \notin D
      <4>1. PICK i \in 1..Len(inbox') : IsFrame(i)' /\ inbox'[i].seq = x
        OBVIOUS
      <4>2. i + 1 \in 1..Len(inbox) /\ IsFrame(i + 1) /\ inbox[i + 1].seq = x /\ 1 < i + 1
            /\ 1 \in 1..Len(inbox)
        BY <1>3, <2>2, <4>1
      <4>3. IsFrame(1) => inbox[1].seq < x
        BY <2>1, <4>2
      <4>4. IsFrame(1) => inbox[1].seq # x
        <5>1. inbox[1] \in Event /\ inbox[i + 1] \in Event
          BY <1>0, <4>2
        <5>2. inbox[1].seq \in 0..MaxFrames /\ x \in 0..MaxFrames
          BY <4>2, <5>1 DEF Event
        <5> QED BY <4>3, <5>2, BoundsAssumption
      <4> QED BY <4>2, <4>4
    <3>2. ASSUME NEW x \in F, x \notin D PROVE x \in F2
      <4>1. PICK i \in 1..Len(inbox) : IsFrame(i) /\ inbox[i].seq = x
        OBVIOUS
      <4>2. i # 1
        BY <3>2, <4>1
      <4>3. i - 1 \in 1..Len(inbox') /\ (i - 1) + 1 = i
        BY <1>3, <4>1, <4>2
      <4>4. IsFrame(i - 1)' /\ inbox'[i - 1].seq = x
        BY <1>3, <2>2, <4>1, <4>3
      <4> QED BY <4>3, <4>4
    <3> QED BY <3>1, <3>2
  <2>5. CASE e.type = "SerialFrame"
    <3>1. IsFrame(1) /\ inbox[1].seq \in F
      BY <1>3, <2>5 DEF IsFrame
    <3>3. framesHandled \in Nat /\ P \in Int
      BY DEF IInv, TypeOK
    <3>5. inbox[1].seq = framesHandled + 1
      BY <1>0, <1>3, <2>5, OldestFrame
    <3> HIDE DEF F, P
    <3>4. framesHandled + 1 \in F
      BY <3>1, <3>5
    <3>6. {inbox'[i].seq : i \in {j \in 1..Len(inbox') : IsFrame(j)'}} = F \ {framesHandled + 1}
      BY <2>4, <3>1, <3>5
    <3>7. F \ {framesHandled + 1} = (framesHandled + 2)..P
      BY <2>1, <3>3
    <3>8. framesHandled' = framesHandled + 1 /\ UNCHANGED <<framesRead, pending>>
      BY <1>2, <2>5
    <3>9. framesHandled + 1 <= P
      BY <2>1, <3>3, <3>4
    <3> QED BY <2>1, <2>3, <3>3, <3>6, <3>7, <3>8, <3>9 DEF NoFrameLost, P
  <2>6. CASE e.type # "SerialFrame"
    <3>1. ~IsFrame(1)
      BY <1>3, <2>6 DEF IsFrame
    <3>2. {inbox'[i].seq : i \in {j \in 1..Len(inbox') : IsFrame(j)'}} = F
      BY <2>4, <3>1
    <3>3. UNCHANGED <<framesHandled, framesRead, pending>>
      BY <1>2, <2>6
    <3> QED BY <2>0, <2>1, <2>3, <3>2, <3>3 DEF NoFrameLost
  <2> QED BY <2>5, <2>6
<1>10. Batch'
  BY <1>2 DEF IInv, Batch
<1> QED BY <1>5, <1>6, <1>7, <1>8, <1>9, <1>10 DEF IInv

-----------------------------------------------------------------------------
(* The threads. *)

\* Where the loop still runs, the flag is down and the channel open, so no
\* thread leaves by either of them (bridge.rs:127, 139, 168, 173, 197, 202).
LEMMA LiveSession ==
    ASSUME IInv, main \in Spawning \cup {"dispatch"}
    PROVE  stop = FALSE /\ rxOpen = TRUE
<1>1. /\ stop \in BOOLEAN /\ rxOpen \in BOOLEAN
      /\ stop <=> main \in Joining \cup {"close", "returned"}
      /\ rxOpen <=> main \in Spawning \cup {"dispatch", "stop", "close"}
  BY DEF IInv, TypeOK, Protocol
<1>2. main \notin Joining \cup {"close", "returned"}
  BY DEF Spawning, Joining
<1> QED BY <1>1, <1>2

\* What a step of one thread must show: its types, the account of the
\* frames, and that a reader that leaves under the loop has queued its error.
LEMMA ThreadStep ==
    ASSUME IInv, TypeOK', NoFrameLost',
           NEW t \in Thread, NEW l \in Label \ {"unborn"},
           pc[t] \notin {"unborn", "done"}, pc' = [pc EXCEPT ![t] = l],
           UNCHANGED sessionVars,
           pc'["serial"] = "send" => Len(pending') > 0,
           Batch',
           l = "done" => \/ main \notin Spawning \cup {"dispatch", "stop"}
                         \/ t = "serial" /\ Queued("SerialError")'
                         \/ t = "udp" /\ Queued("UdpError")',
           Queued("SerialError") => Queued("SerialError")',
           Queued("UdpError") => Queued("UdpError")',
           Queued("SerialError")' => Queued("SerialError") \/ (t = "serial" /\ l = "done"),
           Queued("UdpError")' => Queued("UdpError") \/ (t = "udp" /\ l = "done")
    PROVE  IInv'
<1>1. /\ UNCHANGED <<main, end, stop, rxOpen>>
      /\ pc \in [Thread -> Label]
      /\ \A u \in Thread : pc'[u] = IF u = t THEN l ELSE pc[u]
  BY DEF sessionVars, IInv, TypeOK
<1>2. Protocol'
  <2>1. pc'["heartbeat"] = "unborn" <=> pc["heartbeat"] = "unborn"
    BY <1>1 DEF Thread
  <2>2. main \in {"dispatch", "stop"} => pc'["heartbeat"] # "done"
    BY <1>1 DEF Thread, IInv, Protocol
  <2>3. /\ pc["serial"] = "done" => pc'["serial"] = "done"
        /\ pc["udp"] = "done" => pc'["udp"] = "done"
        /\ pc["heartbeat"] = "done" => pc'["heartbeat"] = "done"
        /\ pc["serial"] = "unborn" => pc'["serial"] = "unborn"
        /\ pc["udp"] = "unborn" => pc'["udp"] = "unborn"
    BY <1>1 DEF Thread
  <2> QED BY <1>1, <2>1, <2>2, <2>3 DEF IInv, Protocol
<1>3. DeadReaderReported'
  <2>1. ASSUME main \in Spawning \cup {"dispatch"}, pc'["serial"] = "done"
        PROVE  Queued("SerialError")'
    BY <1>1, <2>1 DEF IInv, DeadReaderReported, Thread
  <2>2. ASSUME main \in Spawning \cup {"dispatch"}, pc'["udp"] = "done"
        PROVE  Queued("UdpError")'
    BY <1>1, <2>2 DEF IInv, DeadReaderReported, Thread
  <2> QED BY <1>1, <2>1, <2>2 DEF DeadReaderReported, Spawning
<1>4. EndHasCause'
  BY <1>1 DEF IInv, EndHasCause, Thread
<1> QED BY <1>2, <1>3, <1>4 DEF IInv

\* A step of one thread that leaves the channel and the batch alone.
LEMMA QuietStep ==
    ASSUME IInv, NEW t \in Thread, NEW l \in Label \ {"unborn", "send"},
           pc[t] \notin {"unborn", "done"}, pc' = [pc EXCEPT ![t] = l],
           t = "serial" => pc[t] # "send",
           UNCHANGED <<sessionVars, inbox, pending, framesRead, counters>>,
           l = "done" => main \notin Spawning \cup {"dispatch", "stop"}
    PROVE  IInv'
<1>1. TypeOK'
  BY DEF IInv, TypeOK, sessionVars, counters
<1>2. NoFrameLost'
  BY DEF IInv, NoFrameLost, IsFrame, sessionVars, counters
<1>3. \A y : Queued(y)' <=> Queued(y)
  BY DEF Queued
<1>4. pc'["serial"] = "send" => Len(pending') > 0
  BY DEF IInv, TypeOK, Protocol
<1>5. UNCHANGED sessionVars /\ Batch'
  BY DEF IInv, TypeOK, Batch, Thread
<1> QED BY <1>1, <1>2, <1>3, <1>4, <1>5, ThreadStep

\* while !stop.load(): a thread leaves only once the loop is over.
LEMMA CheckStopStep ==
    ASSUME IInv, NEW t \in Thread, NEW l \in {"read", "nap"}, CheckStop(t, l)
    PROVE  IInv'
<1>1. CASE stop
  <2>1. main \notin Spawning \cup {"dispatch", "stop"}
    BY <1>1 DEF IInv, TypeOK, Protocol, Spawning, Joining
  <2> QED BY <1>1, <2>1, QuietStep DEF CheckStop, Goto, Label
<1>2. CASE ~stop
  <2>1. pc[t] = "check" /\ pc' = [pc EXCEPT ![t] = l]
        /\ UNCHANGED <<sessionVars, inbox, pending, framesRead, counters>>
    BY <1>2 DEF CheckStop, Goto
  <2> QED BY <2>1, QuietStep DEF Label
<1> QED BY <1>1, <1>2

\* A read that brings nothing, or that fails.
LEMMA IdleStep ==
    ASSUME IInv, NEW t \in Thread, Idle(t) \/ ReadFails(t)
    PROVE  IInv'
BY QuietStep DEF Idle, ReadFails, Goto, Label

\* A chunk that completes frames fills the batch with the frames that
\* follow those read before (bridge.rs:136-137).
LEMMA SerialReadStep == IInv /\ SerialRead => IInv'
<1> SUFFICES ASSUME IInv, SerialRead PROVE IInv'
  OBVIOUS
<1>0. PICK n \in 1..MaxBatch : \E reboot \in [1..n -> BOOLEAN] :
        /\ framesRead + n <= MaxFrames
        /\ pending' = [i \in 1..n |-> Frame(framesRead + i, reboot[i])]
        /\ framesRead' = framesRead + n
  BY DEF SerialRead
<1>1. PICK reboot \in [1..n -> BOOLEAN] :
        /\ framesRead + n <= MaxFrames
        /\ pending' = [i \in 1..n |-> Frame(framesRead + i, reboot[i])]
        /\ framesRead' = framesRead + n
  BY <1>0
<1>2. /\ pc["serial"] = "read" /\ pc' = [pc EXCEPT !["serial"] = "send"]
      /\ UNCHANGED <<sessionVars, inbox, counters>>
  BY DEF SerialRead, Goto
<1>3. framesRead \in 0..MaxFrames /\ n \in Nat /\ n > 0 /\ framesRead' \in 0..MaxFrames
  BY <1>1, BoundsAssumption DEF IInv, TypeOK
<1>4. \A i \in 1..n : Frame(framesRead + i, reboot[i]) \in Event
  <2> SUFFICES ASSUME NEW i \in 1..n PROVE Frame(framesRead + i, reboot[i]) \in Event
    OBVIOUS
  <2>1. framesRead + i \in 0..MaxFrames
    BY <1>1, <1>3, BoundsAssumption
  <2>2. reboot[i] \in BOOLEAN
    BY <1>1
  <2> QED BY <2>1, <2>2 DEF Frame, Event
<1>5. pending' \in Seq(Event) /\ Len(pending') = n
  BY <1>1, <1>3, <1>4
<1>6. TypeOK'
  BY <1>2, <1>3, <1>5 DEF IInv, TypeOK, sessionVars, counters, Thread, Label
<1>7. NoFrameLost'
  <2> SUFFICES ASSUME main \in Spawning \cup {"dispatch"}
               PROVE  NoFrameLost'
    BY <1>2 DEF NoFrameLost, sessionVars
  <2>1. pending = <<>>
    BY <1>2 DEF IInv, Batch
  <2>2. Len(pending) = 0 /\ framesRead' - Len(pending') = framesRead - Len(pending)
    BY <1>1, <1>3, <1>5, <2>1
  <2>3. \A i \in 1..n : pending'[i].seq = framesRead' - n + i
    <3> SUFFICES ASSUME NEW i \in 1..n PROVE pending'[i].seq = framesRead' - n + i
      OBVIOUS
    <3>1. pending'[i] = Frame(framesRead + i, reboot[i])
      BY <1>1
    <3>2. framesRead' - n + i = framesRead + i
      BY <1>1, <1>3
    <3> QED BY <3>1, <3>2 DEF Frame
  <2> QED BY <1>2, <1>5, <2>2, <2>3 DEF IInv, NoFrameLost, IsFrame, sessionVars, counters
<1>8. \A y : Queued(y)' <=> Queued(y)
  BY <1>2 DEF Queued
<1>9. Batch'
  <2>1. \A i \in 1..n : pending'[i].type = "SerialFrame"
    BY <1>1 DEF Frame
  <2> QED BY <1>2, <1>5, <2>1 DEF IInv, TypeOK, Batch, Thread
<1> QED BY <1>2, <1>3, <1>5, <1>6, <1>7, <1>8, <1>9, ThreadStep DEF Thread, Label

\* An event that is not a frame, at the back of the channel, moves no frame.
LEMMA AppendOther ==
    ASSUME inbox \in Seq(Event), NEW e \in Event, e.type # "SerialFrame",
           NoFrameLost,
           \A i \in 1..Len(inbox) : inbox'[i] = inbox[i],
           inbox'[Len(inbox) + 1] = e, Len(inbox') = Len(inbox) + 1,
           UNCHANGED <<main, pending, framesRead, framesHandled>>
    PROVE  NoFrameLost'
<1>1. Len(inbox) \in Nat
  OBVIOUS
<1>2. \A i \in 1..Len(inbox') : IsFrame(i)' <=> i \in 1..Len(inbox) /\ IsFrame(i)
  BY <1>1 DEF IsFrame
<1>3. {inbox'[i].seq : i \in {j \in 1..Len(inbox') : IsFrame(j)'}}
        = {inbox[i].seq : i \in {j \in 1..Len(inbox) : IsFrame(j)}}
  <2>1. {j \in 1..Len(inbox') : IsFrame(j)'} = {j \in 1..Len(inbox) : IsFrame(j)}
    BY <1>1, <1>2
  <2> QED BY <2>1
<1>4. \A i, j \in 1..Len(inbox') : i < j /\ IsFrame(i)' /\ IsFrame(j)'
        => i \in 1..Len(inbox) /\ j \in 1..Len(inbox)
  BY <1>1, <1>2
<1> QED BY <1>1, <1>2, <1>3, <1>4 DEF NoFrameLost

\* A reader that has met an error leaves it in the channel on its way out
\* (bridge.rs:130-134, 146-149, 182-185).
LEMMA ReportStep ==
    ASSUME IInv, \/ Report("serial", Plain("SerialError"))
                 \/ Report("udp", Plain("UdpError"))
    PROVE  IInv'
<1>1. PICK t \in {"serial", "udp"} :
        Report(t, IF t = "serial" THEN Plain("SerialError") ELSE Plain("UdpError"))
  BY Zenon
<1> DEFINE e == IF t = "serial" THEN Plain("SerialError") ELSE Plain("UdpError")
<1>2. /\ pc[t] = "report" /\ pc' = [pc EXCEPT ![t] = "done"]
      /\ inbox' = IF rxOpen THEN Append(inbox, e) ELSE inbox
      /\ UNCHANGED <<sessionVars, pending, framesRead, counters>>
  BY <1>1 DEF Report, Goto
<1>3. inbox \in Seq(Event) /\ e \in Event
  BY BoundsAssumption DEF IInv, TypeOK, Plain, Event
<1>9. e.type = IF t = "serial" THEN "SerialError" ELSE "UdpError"
  BY DEF Plain
<1>4. pc'["serial"] = "send" => Len(pending') > 0
  BY <1>2 DEF IInv, TypeOK, Protocol, Thread
<1>5. CASE ~rxOpen
  <2>1. main \notin Spawning \cup {"dispatch", "stop"}
    BY <1>5 DEF IInv, TypeOK, Protocol
  <2>2. inbox' = inbox
    BY <1>2, <1>5
  <2> QED BY <1>2, <2>1, <2>2, QuietStep DEF Thread, Label
<1>6. CASE rxOpen
  <2> HIDE DEF e
  <2>1. inbox' = Append(inbox, e)
    BY <1>2, <1>6
  <2>2. /\ \A i \in 1..Len(inbox) : inbox'[i] = inbox[i]
        /\ inbox'[Len(inbox) + 1] = e /\ Len(inbox') = Len(inbox) + 1
        /\ inbox' \in Seq(Event)
        /\ \A y : Queued(y)' <=> Queued(y) \/ e.type = y
    BY <1>3, <2>1, AppendKeepsQueued
  <2>3. TypeOK'
    BY <1>2, <2>2 DEF IInv, TypeOK, sessionVars, counters, Thread, Label
  <2>4. NoFrameLost'
    BY <1>2, <1>3, <1>9, <2>2, AppendOther DEF IInv, sessionVars, counters
  <2>5. /\ Queued("SerialError")' <=> Queued("SerialError") \/ t = "serial"
        /\ Queued("UdpError")' <=> Queued("UdpError") \/ t = "udp"
    BY <1>9, <2>2
  <2>6. UNCHANGED sessionVars /\ Batch'
    BY <1>2 DEF IInv, TypeOK, Batch, Thread
  <2> QED BY <1>2, <1>4, <2>3, <2>4, <2>5, <2>6, ThreadStep DEF Thread, Label
<1> QED BY <1>5, <1>6

\* A datagram is taken off the socket (bridge.rs:170-172).
LEMMA UdpRecvStep == IInv /\ UdpRecv => IInv'
<1> SUFFICES ASSUME IInv, UdpRecv PROVE IInv'
  OBVIOUS
<1>1. /\ pc["udp"] = "read" /\ pc' = [pc EXCEPT !["udp"] = "send"]
      /\ datagrams' = datagrams + 1 /\ datagrams < MaxDatagrams
      /\ UNCHANGED <<sessionVars, inbox, pending, framesRead, framesHandled,
                     elapsed, ticks, nonce, heartbeats>>
  BY DEF UdpRecv, Goto
<1>2. TypeOK'
  <2>1. datagrams' \in 0..MaxDatagrams
    BY <1>1, BoundsAssumption DEF IInv, TypeOK
  <2> QED BY <1>1, <2>1 DEF IInv, TypeOK, sessionVars, Thread, Label
<1>3. NoFrameLost'
  BY <1>1 DEF IInv, NoFrameLost, IsFrame, sessionVars
<1>4. \A y : Queued(y)' <=> Queued(y)
  BY <1>1 DEF Queued
<1>5. pc'["serial"] = "send" => Len(pending') > 0
  BY <1>1 DEF IInv, TypeOK, Protocol, Thread
<1>6. UNCHANGED sessionVars /\ Batch'
  BY <1>1 DEF IInv, TypeOK, Batch, Thread
<1> QED BY <1>1, <1>2, <1>3, <1>4, <1>5, <1>6, ThreadStep DEF Thread, Label

\* The channel is closed only after the loop: a send that fails there ends
\* its thread (bridge.rs:139-141, 173-175, 202-204).
LEMMA SendClosedStep ==
    ASSUME IInv, NEW t \in Thread, ~rxOpen,
           pc[t] = "send", pc' = [pc EXCEPT ![t] = "done"],
           inbox' = inbox, pending' = IF t = "serial" THEN <<>> ELSE pending,
           UNCHANGED <<sessionVars, framesRead, counters>>
    PROVE  IInv'
<1>1. main \notin Spawning \cup {"dispatch", "stop"}
  BY DEF IInv, TypeOK, Protocol
<1>2. UNCHANGED sessionVars /\ NoFrameLost'
  BY <1>1 DEF NoFrameLost, sessionVars
<1>3. \A y : Queued(y)' <=> Queued(y)
  BY DEF Queued
<1>4. TypeOK'
  <2>1. <<>> \in Seq(Event)
    OBVIOUS
  <2> QED BY <2>1 DEF IInv, TypeOK, sessionVars, counters, Thread, Label
<1>5. (pc'["serial"] = "send" => Len(pending') > 0) /\ Batch'
  BY DEF IInv, TypeOK, Protocol, Batch, Thread
<1> QED BY <1>1, <1>2, <1>3, <1>4, <1>5, ThreadStep DEF Label

\* An event of the UDP reader or the timer enters the open channel.
LEMMA SendOtherStep ==
    ASSUME IInv, NEW t \in {"udp", "heartbeat"}, NEW e \in Event, rxOpen,
           e.type \in {"UdpPacket", "Tick"},
           pc[t] = "send", pc' = [pc EXCEPT ![t] = "check"],
           inbox' = Append(inbox, e),
           UNCHANGED <<sessionVars, pending, framesRead, counters>>
    PROVE  IInv'
<1>0. inbox \in Seq(Event)
  BY DEF IInv, TypeOK
<1>1. /\ \A i \in 1..Len(inbox) : inbox'[i] = inbox[i]
      /\ inbox'[Len(inbox) + 1] = e /\ Len(inbox') = Len(inbox) + 1
      /\ inbox' \in Seq(Event)
      /\ \A y : Queued(y)' <=> Queued(y) \/ e.type = y
  BY <1>0, AppendKeepsQueued
<1>2. TypeOK'
  BY <1>1 DEF IInv, TypeOK, sessionVars, counters, Thread, Label
<1>3. NoFrameLost'
  BY <1>0, <1>1, AppendOther DEF IInv, sessionVars, counters
<1>4. /\ Queued("SerialError")' <=> Queued("SerialError")
      /\ Queued("UdpError")' <=> Queued("UdpError")
  BY <1>1
<1>5. (pc'["serial"] = "send" => Len(pending') > 0) /\ Batch' /\ UNCHANGED sessionVars
  BY DEF IInv, TypeOK, Protocol, Batch, Thread
<1> QED BY <1>2, <1>3, <1>4, <1>5, ThreadStep DEF Thread, Label

\* The UDP reader sends its datagram, the timer its tick.
LEMMA UdpOrTickStep == IInv /\ (UdpSend \/ HeartbeatSend) => IInv'
<1> SUFFICES ASSUME IInv, UdpSend \/ HeartbeatSend PROVE IInv'
  OBVIOUS
<1>1. PICK t \in {"udp", "heartbeat"}, e \in {Plain("UdpPacket"), Plain("Tick")} :
        /\ pc[t] = "send"
        /\ pc' = [pc EXCEPT ![t] = IF rxOpen THEN "check" ELSE "done"]
        /\ inbox' = IF rxOpen THEN Append(inbox, e) ELSE inbox
        /\ UNCHANGED <<sessionVars, pending, framesRead, counters>>
  BY Zenon DEF UdpSend, HeartbeatSend, Send, Goto
<1>2. e \in Event /\ e.type \in {"UdpPacket", "Tick"}
  <2>1. \A y \in {"UdpPacket", "Tick"} : Plain(y) \in Event /\ Plain(y).type = y
    BY BoundsAssumption DEF Plain, Event
  <2> QED BY <2>1
<1>3. CASE rxOpen
  BY <1>1, <1>2, <1>3, SendOtherStep
<1>4. CASE ~rxOpen
  BY <1>1, <1>4, SendClosedStep DEF Thread
<1> QED BY <1>3, <1>4

\* The serial reader sends the oldest frame of its batch.
LEMMA SerialSendStep == IInv /\ SerialSend => IInv'
<1> SUFFICES ASSUME IInv, SerialSend PROVE IInv'
  OBVIOUS
<1> DEFINE e == Head(pending)
<1>1. /\ pc["serial"] = "send"
      /\ pc' = [pc EXCEPT !["serial"] =
                   IF rxOpen THEN IF Len(pending) > 1 THEN "send" ELSE "check" ELSE "done"]
      /\ inbox' = IF rxOpen THEN Append(inbox, e) ELSE inbox
      /\ pending' = IF rxOpen THEN Tail(pending) ELSE <<>>
      /\ UNCHANGED <<sessionVars, framesRead, counters>>
  BY DEF SerialSend, Send, Goto
<1>2. CASE ~rxOpen
  BY <1>1, <1>2, SendClosedStep DEF Thread
<1>3. CASE rxOpen
  <2>1. inbox \in Seq(Event) /\ pending \in Seq(Event) /\ Len(pending) > 0
    BY <1>1 DEF IInv, TypeOK, Protocol
  <2>2. /\ e = pending[1] /\ e \in Event /\ Len(pending) \in Nat
        /\ pending' \in Seq(Event) /\ Len(pending') = Len(pending) - 1
        /\ \A i \in 1..Len(pending') : pending'[i] = pending[i + 1]
        /\ inbox' = Append(inbox, e)
    BY <1>1, <1>3, <2>1
  <2> HIDE DEF e
  <2>3. /\ \A i \in 1..Len(inbox) : inbox'[i] = inbox[i]
        /\ inbox'[Len(inbox) + 1] = e /\ Len(inbox') = Len(inbox) + 1
        /\ inbox' \in Seq(Event) /\ Len(inbox) \in Nat
        /\ \A y : Queued(y)' <=> Queued(y) \/ e.type = y
    BY <2>1, <2>2, AppendKeepsQueued
  <2>4. PICK l \in {"send", "check"} :
          /\ pc' = [pc EXCEPT !["serial"] = l]
          /\ l = "send" <=> Len(pending) > 1
    BY <1>1, <1>3
  <2>5. TypeOK'
    BY <1>1, <2>2, <2>3, <2>4 DEF IInv, TypeOK, sessionVars, counters, Thread, Label
  <2>6. /\ e.type = "SerialFrame"
        /\ main \in Spawning \cup {"dispatch"} => e.seq = framesRead - Len(pending) + 1
    BY <2>1, <2>2 DEF IInv, NoFrameLost, Batch
  <2>7. ASSUME main \in Spawning \cup {"dispatch"} PROVE NoFrameLost'
    <3> DEFINE P == framesRead - Len(pending)
    <3>1. P \in Int /\ framesHandled \in Nat /\ e.seq = P + 1 /\ e.type = "SerialFrame"
      BY <2>2, <2>6, <2>7 DEF IInv, TypeOK
    <3>2. framesRead' - Len(pending') = P + 1
      <4>1. framesRead \in Int /\ framesRead' = framesRead
        BY <1>1, BoundsAssumption DEF IInv, TypeOK
      <4>2. framesRead - (Len(pending) - 1) = P + 1
        BY <2>2, <4>1
      <4> QED BY <2>2, <4>1, <4>2
    <3>3. \A i \in 1..Len(pending') : pending'[i].seq = framesRead' - Len(pending') + i
      <4> SUFFICES ASSUME NEW i \in 1..Len(pending')
                   PROVE  pending'[i].seq = framesRead' - Len(pending') + i
        OBVIOUS
      <4>1. i + 1 \in 1..Len(pending) /\ pending'[i] = pending[i + 1]
        BY <2>2
      <4>2. pending[i + 1].seq = P + (i + 1)
        BY <2>7, <4>1 DEF IInv, NoFrameLost
      <4>3. P + (i + 1) = (P + 1) + i
        BY <3>1
      <4> QED BY <3>2, <4>1, <4>2, <4>3
    <3>4. \A i \in 1..Len(inbox) : IsFrame(i) => inbox[i].seq <= P /\ inbox[i].seq \in Int
      <4> SUFFICES ASSUME NEW i \in 1..Len(inbox), IsFrame(i)
                   PROVE  inbox[i].seq <= P /\ inbox[i].seq \in Int
        OBVIOUS
      <4>1. inbox[i].seq \in (framesHandled + 1)..P
        BY <2>7 DEF IInv, NoFrameLost
      <4> QED BY <3>1, <4>1
    <3>5. \A i \in 1..Len(inbox') : IsFrame(i)' <=> i = Len(inbox) + 1 \/ IsFrame(i)
      BY <2>3, <3>1 DEF IsFrame
    <3>6. \A i, j \in 1..Len(inbox') :
            i < j /\ IsFrame(i)' /\ IsFrame(j)' => inbox'[i].seq < inbox'[j].seq
      <4> SUFFICES ASSUME NEW i \in 1..Len(inbox'), NEW j \in 1..Len(inbox'),
                          i < j, IsFrame(i)', IsFrame(j)'
                   PROVE  inbox'[i].seq < inbox'[j].seq
        OBVIOUS
      <4>1. i \in 1..Len(inbox) /\ IsFrame(i) /\ inbox'[i] = inbox[i]
        BY <2>3, <3>5
      <4>2. CASE j = Len(inbox) + 1
        BY <2>3, <3>1, <3>4, <4>1, <4>2
      <4>3. CASE j # Len(inbox) + 1
        <5>1. j \in 1..Len(inbox) /\ IsFrame(j) /\ inbox'[j] = inbox[j]
          BY <2>3, <3>5, <4>3
        <5> QED BY <2>7, <4>1, <5>1 DEF IInv, NoFrameLost
      <4> QED BY <4>2, <4>3
    <3>7. {inbox'[i].seq : i \in {j \in 1..Len(inbox') : IsFrame(j)'}}
            = {inbox[i].seq : i \in {j \in 1..Len(inbox) : IsFrame(j)}} \cup {P + 1}
      <4> DEFINE F2 == {inbox'[i].seq : i \in {j \in 1..Len(inbox') : IsFrame(j)'}}
                 F == {inbox[i].seq : i \in {j \in 1..Len(inbox) : IsFrame(j)}}
      <4>1. ASSUME NEW x \in F2 PROVE x \in F \cup {P + 1}
        <5>1. PICK i \in 1..Len(inbox') : IsFrame(i)' /\ inbox'[i].seq = x
          OBVIOUS
        <5>2. CASE i = Len(inbox) + 1
          BY <2>3, <3>1, <5>1, <5>2
        <5>3. CASE i # Len(inbox) + 1
          BY <2>3, <3>5, <5>1, <5>3
        <5> QED BY <5>2, <5>3
      <4>2. ASSUME NEW x \in F PROVE x \in F2
        <5>1. PICK i \in 1..Len(inbox) : IsFrame(i) /\ inbox[i].seq = x
          OBVIOUS
        <5>2. i \in 1..Len(inbox') /\ IsFrame(i)' /\ inbox'[i].seq = x
          BY <2>3, <3>5, <5>1
        <5> QED BY <5>2
      <4>3. P + 1 \in F2
        <5>1. \E i \in 1..Len(inbox') : IsFrame(i)' /\ inbox'[i].seq = P + 1
          BY <2>3, <3>1, <3>5
        <5> QED BY <5>1
      <4> QED BY <4>1, <4>2, <4>3
    <3>8. {inbox[i].seq : i \in {j \in 1..Len(inbox) : IsFrame(j)}} = (framesHandled + 1)..P
      BY <2>7 DEF IInv, NoFrameLost
    <3>9. framesHandled <= P
      BY <2>7 DEF IInv, NoFrameLost
    <3>10. ((framesHandled + 1)..P) \cup {P + 1} = (framesHandled + 1)..(P + 1)
      BY <3>1, <3>9
    <3>11. framesHandled' = framesHandled
      BY <1>1 DEF counters
    <3>12. {inbox'[i].seq : i \in {j \in 1..Len(inbox') : IsFrame(j)'}}
             = (framesHandled' + 1)..(framesRead' - Len(pending'))
      BY <3>2, <3>7, <3>8, <3>10, <3>11
    <3>13. framesHandled' <= framesRead' - Len(pending')
      BY <3>1, <3>2, <3>9, <3>11
    <3> QED BY <3>3, <3>6, <3>12, <3>13 DEF NoFrameLost
  <2>8. NoFrameLost'
    BY <1>1, <2>7 DEF NoFrameLost, sessionVars
  <2>10. /\ Queued("SerialError")' <=> Queued("SerialError")
         /\ Queued("UdpError")' <=> Queued("UdpError")
    BY <2>3, <2>6
  <2>11. (pc'["serial"] = "send" => Len(pending') > 0) /\ Batch' /\ UNCHANGED sessionVars
    <3>1. pc'["serial"] = l
      BY <2>4 DEF IInv, TypeOK, Thread
    <3>2. (l = "send" => Len(pending') > 0) /\ (l # "send" => pending' = <<>>)
      BY <2>2, <2>4
    <3>3. ASSUME NEW i \in 1..Len(pending') PROVE pending'[i].type = "SerialFrame"
      <4>1. i + 1 \in 1..Len(pending) /\ pending'[i] = pending[i + 1]
        BY <2>2
      <4> QED BY <4>1 DEF IInv, Batch
    <3> QED BY <1>1, <3>1, <3>2, <3>3 DEF Batch
  <2>12. "serial" \in Thread /\ l \in Label \ {"unborn"} /\ l # "done"
         /\ pc["serial"] \notin {"unborn", "done"}
    BY <1>1, <2>4 DEF Thread, Label
  <2>13. pc' = [pc EXCEPT !["serial"] = l]
    BY <2>4
  <2> QED BY <2>5, <2>8, <2>10, <2>11, <2>12, <2>13, ThreadStep
<1> QED BY <1>2, <1>3

\* The timer wakes, or an interval passes: only counters move.
LEMMA TimerStep == IInv /\ (HeartbeatWake \/ IntervalPasses) => IInv'
<1> SUFFICES ASSUME IInv, HeartbeatWake \/ IntervalPasses PROVE IInv'
  OBVIOUS
<1>1. /\ UNCHANGED <<sessionVars, inbox, pending, framesRead, framesHandled,
                     datagrams, nonce, heartbeats>>
      /\ ticks' \in 0..MaxIntervals /\ elapsed' \in 0..MaxIntervals
  <2>1. UNCHANGED <<sessionVars, inbox, pending, framesRead, framesHandled,
                    datagrams, nonce, heartbeats>>
    BY Zenon DEF HeartbeatWake, IntervalPasses
  <2>2. ticks \in 0..MaxIntervals /\ elapsed \in 0..MaxIntervals /\ MaxIntervals \in Nat
    BY BoundsAssumption DEF IInv, TypeOK
  <2>3. CASE HeartbeatWake
    <3>1. elapsed' = elapsed /\ ticks' = IF elapsed > ticks THEN ticks + 1 ELSE ticks
      BY <2>3, Zenon DEF HeartbeatWake
    <3> QED BY <2>1, <2>2, <3>1
  <2>4. CASE IntervalPasses
    <3>1. elapsed < MaxIntervals /\ elapsed' = elapsed + 1 /\ ticks' = ticks
      BY <2>4, Zenon DEF IntervalPasses
    <3> QED BY <2>1, <2>2, <3>1
  <2> QED BY <2>3, <2>4
<1>2. NoFrameLost' /\ UNCHANGED sessionVars
  BY <1>1 DEF IInv, NoFrameLost, IsFrame, sessionVars
<1>3. \A y : Queued(y)' <=> Queued(y)
  BY <1>1 DEF Queued
<1>4. CASE HeartbeatWake
  <2>1. PICK l \in {"send", "check"} :
          pc["heartbeat"] = "nap" /\ pc' = [pc EXCEPT !["heartbeat"] = l]
    BY <1>4 DEF HeartbeatWake, Goto
  <2>2. TypeOK'
    BY <1>1, <2>1 DEF IInv, TypeOK, sessionVars, Thread, Label
  <2>3. (pc'["serial"] = "send" => Len(pending') > 0) /\ Batch'
    BY <1>1, <2>1 DEF IInv, TypeOK, Protocol, Batch, Thread
  <2> QED BY <1>2, <1>3, <2>1, <2>2, <2>3, ThreadStep DEF Thread, Label
<1>5. CASE IntervalPasses
  <2>1. UNCHANGED pc
    BY <1>5 DEF IntervalPasses
  <2> QED BY <1>1, <1>2, <1>3, <2>1
          DEF IInv, TypeOK, Protocol, Batch, DeadReaderReported, EndHasCause, sessionVars
<1> QED BY <1>4, <1>5

-----------------------------------------------------------------------------

\* The invariant holds in every reachable state, whatever the radio, the
\* network and the scheduler do.
THEOREM AlwaysIInv == Spec => []IInv
<1>1. Init => IInv
  BY InitIInv
<1>2. IInv /\ [Next]_vars => IInv'
  <2> SUFFICES ASSUME IInv, [Next]_vars PROVE IInv'
    OBVIOUS
  <2>1. CASE MainThread
    BY <2>1, SpawnStep, DispatchStep, EndingStep DEF MainThread
  <2>2. CASE SpawnFails
    BY <2>2, SpawnFailsStep
  <2>3. CASE SerialThread
    BY <2>3, CheckStopStep, SerialReadStep, IdleStep, SerialSendStep, ReportStep
       DEF SerialThread, Thread
  <2>4. CASE UdpThread
    BY <2>4, CheckStopStep, UdpRecvStep, IdleStep, UdpOrTickStep, ReportStep
       DEF UdpThread, Thread
  <2>5. CASE HeartbeatThread
    BY <2>5, CheckStopStep, TimerStep, UdpOrTickStep DEF HeartbeatThread, Thread
  <2>6. CASE IntervalPasses
    BY <2>6, TimerStep
  <2>7. CASE Over \/ UNCHANGED vars
    <3>1. UNCHANGED vars
      BY <2>7 DEF Over
    <3>2. TypeOK' /\ Protocol' /\ Batch'
      BY <3>1 DEF vars, IInv, TypeOK, Protocol, Batch
    <3>3. DeadReaderReported' /\ EndHasCause'
      BY <3>1 DEF vars, IInv, DeadReaderReported, EndHasCause, Queued
    <3>4. NoFrameLost'
      BY <3>1 DEF vars, IInv, NoFrameLost, IsFrame
    <3> QED BY <3>2, <3>3, <3>4 DEF IInv
  <2> QED BY <2>1, <2>2, <2>3, <2>4, <2>5, <2>6, <2>7 DEF Next
<1> QED BY <1>1, <1>2, PTL DEF Spec

\* No heartbeat ever carries the ping nonce, for a nonce of any width above
\* one bit (bridge.rs:234-238).
THEOREM NonceSafe == Spec => []NeverPings
<1>1. Init => NeverPings
  BY DEF Init, NeverPings
<1>2. IInv /\ NeverPings /\ [Next]_vars => NeverPings'
  <2> SUFFICES ASSUME IInv, NeverPings, [Next]_vars PROVE NeverPings'
    OBVIOUS
  <2>1. heartbeats' = heartbeats \/ heartbeats' = Append(heartbeats, NextNonce(nonce))
    <3>1. CASE Dispatch
      BY <3>1 DEF Dispatch
    <3>2. CASE ~Dispatch
      BY <3>2 DEF Next, MainThread, SerialThread, UdpThread, HeartbeatThread, SpawnFails,
                  IntervalPasses, Over, vars, counters, Spawn, Stop, Close, Join, CheckStop,
                  SerialRead, Idle, ReadFails, SerialSend, Report, UdpRecv, UdpSend,
                  HeartbeatWake, HeartbeatSend
    <3> QED BY <3>1, <3>2
  <2>2. NextNonce(nonce) # Ping /\ NextNonce(nonce) \in 0..(NonceModulus - 1)
    BY NonceStep DEF IInv, TypeOK
  <2>3. heartbeats \in Seq(0..(NonceModulus - 1))
    BY DEF IInv, TypeOK
  <2> DEFINE W == 0..(NonceModulus - 1)
             m == NextNonce(nonce)
  <2> HIDE DEF W, m
  <2>4. CASE heartbeats' = Append(heartbeats, m)
    <3>1. /\ Len(heartbeats') = Len(heartbeats) + 1 /\ Len(heartbeats) \in Nat
          /\ \A i \in 1..Len(heartbeats) : heartbeats'[i] = heartbeats[i]
          /\ heartbeats'[Len(heartbeats) + 1] = m
      <4>1. heartbeats \in Seq(W) /\ m \in W
        BY <2>2, <2>3 DEF W, m
      <4> QED BY <2>4, <4>1
    <3>2. m # Ping
      BY <2>2 DEF m
    <3> QED BY <3>1, <3>2 DEF NeverPings
  <2>5. CASE heartbeats' = heartbeats
    BY <2>5 DEF NeverPings
  <2> QED BY <2>1, <2>4, <2>5 DEF m
<1> QED BY <1>1, <1>2, AlwaysIInv, PTL DEF Spec

\* While the loop runs, no reader is gone without its error being queued
\* (bridge.rs:127-186).
THEOREM NeverDeaf == Spec => []DeadReaderReported
<1>1. IInv => DeadReaderReported
  BY DEF IInv
<1> QED BY <1>1, AlwaysIInv, PTL

\* recv never finds the channel disconnected (bridge.rs:212-217).
THEOREM NeverDisconnected == Spec => []RecvNeverDisconnects
BY TimerHoldsSender, AlwaysIInv, PTL

\* A session's end is the one its events caused (bridge.rs:226-233).
THEOREM EndsForCause == Spec => []EndHasCause
<1>1. IInv => EndHasCause
  BY DEF IInv
<1> QED BY <1>1, AlwaysIInv, PTL

\* No thread outlives a run that returns its session's end (bridge.rs:258-262).
THEOREM LeavesNoThread == Spec => []NoThreadLeft
<1>1. IInv => NoThreadLeft
  BY DEF IInv, Protocol, NoThreadLeft, Thread
<1> QED BY <1>1, AlwaysIInv, PTL

\* What a reader that outlives a failed start takes next, a batch of frames or
\* a datagram, is the last thing it takes (bridge.rs:121-207).
THEOREM LastTake == Spec => LastTakeAfterFailedStart
<1> DEFINE A == main = "failed" =>
           /\ stop' = FALSE /\ inbox' = inbox
           /\ \A t \in Thread :
                 /\ Takes(t) => pc'[t] = "send"
                 /\ pc[t] \in {"send", "report", "done"} =>
                       pc'[t] \in {pc[t], "done"} /\ ~Takes(t)
<1>1. IInv /\ [Next]_vars => [A]_vars
  <2> SUFFICES ASSUME IInv, [Next]_vars, main = "failed", ~UNCHANGED vars PROVE A
    OBVIOUS
  <2>1. rxOpen = FALSE /\ stop = FALSE /\ pc["heartbeat"] = "unborn" /\ pc \in [Thread -> Label]
    <3>1. rxOpen \in BOOLEAN /\ stop \in BOOLEAN
      BY DEF IInv, TypeOK
    <3>2. (rxOpen <=> main \in Spawning \cup {"dispatch", "stop", "close"})
          /\ (stop <=> main \in Joining \cup {"close", "returned"})
      BY DEF IInv, Protocol
    <3>3. main \notin Spawning \cup {"dispatch", "stop", "close"}
          /\ main \notin Joining \cup {"close", "returned"}
      BY DEF Spawning, Joining
    <3>4. rxOpen = FALSE /\ stop = FALSE
      BY <3>1, <3>2, <3>3, Zenon
    <3> QED BY <3>4 DEF IInv, TypeOK, Protocol
  <2>2. ~MainThread /\ ~SpawnFails /\ ~Over
    BY DEF MainThread, SpawnFails, Over, Spawn, Dispatch, Stop, Close, Join, Spawning
  <2>3. CASE SerialThread
    BY <2>1, <2>3 DEF SerialThread, CheckStop, SerialRead, Idle, ReadFails, SerialSend, Report,
       Send, Goto, sessionVars, counters, Takes, Thread
  <2>4. CASE UdpThread
    BY <2>1, <2>4 DEF UdpThread, CheckStop, UdpRecv, Idle, ReadFails, UdpSend, Report,
       Send, Goto, sessionVars, counters, Takes, Thread
  <2>5. CASE HeartbeatThread
    BY <2>1, <2>5 DEF HeartbeatThread, CheckStop, HeartbeatWake, HeartbeatSend, Goto
  <2>6. CASE IntervalPasses
    BY <2>1, <2>6 DEF IntervalPasses, sessionVars, Takes
  <2> QED BY <2>2, <2>3, <2>4, <2>5, <2>6 DEF Next
<1> QED BY <1>1, AlwaysIInv, PTL DEF Spec, LastTakeAfterFailedStart

\* Frames reach the handler in the radio's order, none missing and none
\* twice, for as long as the loop runs (bridge.rs:136-142).
THEOREM FramesArrive == Spec => []NoFrameLost
<1>1. IInv => NoFrameLost
  BY DEF IInv
<1> QED BY <1>1, AlwaysIInv, PTL

-----------------------------------------------------------------------------
(* The run as main sees it. *)

\* Where the run is, in both states of a step.
LEMMA PhaseFacts ==
    ASSUME main \in MainLabel, main' \in MainLabel
    PROVE  /\ Phase = "starting" <=> main \in Spawning
           /\ Phase = "running" <=> main = "dispatch"
           /\ Phase = "ending" <=> main = "stop"
           /\ Phase = "stopped" <=> main \in Joining \cup {"close"}
           /\ Phase = "returned" <=> main = "returned"
           /\ Phase = "failed" <=> main = "failed"
           /\ Phase' = "starting" <=> main' \in Spawning
           /\ Phase' = "running" <=> main' = "dispatch"
           /\ Phase' = "ending" <=> main' = "stop"
           /\ Phase' = "stopped" <=> main' \in Joining \cup {"close"}
           /\ Phase' = "returned" <=> main' = "returned"
           /\ Phase' = "failed" <=> main' = "failed"
           /\ main' = main => Phase' = Phase
<1>1. /\ Phase = "starting" <=> main \in Spawning
      /\ Phase = "running" <=> main = "dispatch"
      /\ Phase = "ending" <=> main = "stop"
      /\ Phase = "stopped" <=> main \in Joining \cup {"close"}
      /\ Phase = "returned" <=> main = "returned"
      /\ Phase = "failed" <=> main = "failed"
  BY DEF Phase, MainLabel, Spawning, Joining
<1>2. /\ Phase' = "starting" <=> main' \in Spawning
      /\ Phase' = "running" <=> main' = "dispatch"
      /\ Phase' = "ending" <=> main' = "stop"
      /\ Phase' = "stopped" <=> main' \in Joining \cup {"close"}
      /\ Phase' = "returned" <=> main' = "returned"
      /\ Phase' = "failed" <=> main' = "failed"
  BY DEF Phase, MainLabel, Spawning, Joining
<1>3. main' = main => Phase' = Phase
  BY DEF Phase
<1> QED BY <1>1, <1>2, <1>3, Zenon

\* What waits, spelled out.
LEMMA WaitingFacts ==
    ASSUME NEW f
    PROVE  /\ f \in Waiting <=>
                  /\ main \in Spawning \cup {"dispatch"}
                  /\ \/ \E i \in 1..Len(inbox) : IsFrame(i) /\ f = Shown(inbox[i])
                     \/ \E i \in 1..Len(pending) : f = Shown(pending[i])
           /\ f \in Waiting' <=>
                  /\ main' \in Spawning \cup {"dispatch"}
                  /\ \/ \E i \in 1..Len(inbox') : IsFrame(i)' /\ f = Shown(inbox'[i])
                     \/ \E i \in 1..Len(pending') : f = Shown(pending'[i])
<1>1. f \in Waiting <=>
          /\ main \in Spawning \cup {"dispatch"}
          /\ \/ \E i \in 1..Len(inbox) : IsFrame(i) /\ f = Shown(inbox[i])
             \/ \E i \in 1..Len(pending) : f = Shown(pending[i])
  <2> HIDE DEF IsFrame, Shown
  <2> QED BY Zenon DEF Waiting
<1>2. f \in Waiting' <=>
          /\ main' \in Spawning \cup {"dispatch"}
          /\ \/ \E i \in 1..Len(inbox') : IsFrame(i)' /\ f = Shown(inbox'[i])
             \/ \E i \in 1..Len(pending') : f = Shown(pending'[i])
  BY Zenon DEF Waiting
<1> QED BY <1>1, <1>2, Zenon

\* A step of one thread lets the others read what they could.
LEMMA ReadingMoves ==
    ASSUME IInv, UNCHANGED main, NEW t \in Thread, NEW l, pc' = [pc EXCEPT ![t] = l]
    PROVE  /\ pc'[t] = l
           /\ MayRead(t)' /\ MayRead(t) => Reading' = Reading
           /\ t = "heartbeat" => Reading' = Reading
           /\ ~MayRead(t)' => Reading' = Reading \ {t}
<1>1. /\ pc \in [Thread -> Label] /\ {"serial", "udp"} \subseteq Thread
      /\ pc'[t] = l /\ \A u \in Thread : u # t => pc'[u] = pc[u]
  BY DEF IInv, TypeOK, Thread
<1>2. \A u \in {"serial", "udp"} : u # t => (MayRead(u)' <=> MayRead(u))
  BY <1>1 DEF MayRead
<1>3. ASSUME NEW u PROVE /\ u \in Reading <=> u \in {"serial", "udp"} /\ MayRead(u)
                         /\ u \in Reading' <=> u \in {"serial", "udp"} /\ MayRead(u)'
  BY Zenon DEF Reading
<1>4. MayRead(t)' /\ MayRead(t) => Reading' = Reading
  BY <1>2, <1>3
<1>5. t = "heartbeat" => Reading' = Reading
  BY <1>2, <1>3
<1>6. ~MayRead(t)' => Reading' = Reading \ {t}
  BY <1>2, <1>3
<1> QED BY <1>1, <1>4, <1>5, <1>6, Zenon

\* A thread's step that neither takes nor shows anything is at most the loss
\* of its side.
LEMMA QuietRunStep ==
    ASSUME IInv, NEW t \in Thread, NEW l, pc' = [pc EXCEPT ![t] = l],
           UNCHANGED <<main, end, framesRead, framesHandled, datagrams>>,
           Waiting' = Waiting, t = "heartbeat" \/ (MayRead(t)' => MayRead(t))
    PROVE  [Run!Next]_(Run!vars)
<1>1. main \in MainLabel /\ main' \in MainLabel
  BY DEF IInv, TypeOK
<1>2. Phase' = Phase
  BY <1>1, PhaseFacts, Zenon
<1>3. Reading' = Reading \/ \E s \in Reading : Reading' = Reading \ {s}
  <2>1. CASE t = "heartbeat" \/ (MayRead(t)' /\ MayRead(t))
    BY <2>1, ReadingMoves
  <2>2. CASE t # "heartbeat" /\ ~MayRead(t)'
    <3>1. Reading' = Reading \ {t}
      BY <2>2, ReadingMoves
    <3> QED BY <3>1
  <2> QED BY <2>1, <2>2
<1>4. CASE Reading' = Reading
  BY <1>2, <1>4 DEF Run!vars
<1>5. CASE \E s \in Reading : Reading' = Reading \ {s}
  <2>1. Run!Lose
    BY <1>2, <1>5 DEF Run!Lose
  <2> QED BY <2>1 DEF Run!Next
<1> QED BY <1>3, <1>4, <1>5

\* Two sets with the same members are the same set.
LEMMA SameSet ==
    ASSUME NEW S, NEW T, \A f : f \in S <=> f \in T
    PROVE  S = T
  OBVIOUS

\* With the loop over, nothing waits.
LEMMA NothingWaits ==
    ASSUME main \notin Spawning \cup {"dispatch"}
    PROVE  Waiting = {} /\ (main' = main => Waiting' = {})
BY Zenon DEF Waiting

\* What waits changes with the channel, the batch and the end of the loop only.
LEMMA WaitingKept ==
    ASSUME UNCHANGED <<inbox, pending>>,
           main' \in Spawning \cup {"dispatch"} <=> main \in Spawning \cup {"dispatch"}
    PROVE  Waiting' = Waiting
<1>1. ASSUME NEW f PROVE f \in Waiting' <=> f \in Waiting
  BY WaitingFacts, Zenon DEF IsFrame
<1> QED BY <1>1, SameSet, Zenon

\* An event that is not a frame does not wait.
LEMMA OthersDoNotWait ==
    ASSUME inbox \in Seq(Event), NEW e \in Event, e.type # "SerialFrame",
           inbox' = Append(inbox, e), UNCHANGED <<main, pending>>
    PROVE  Waiting' = Waiting
<1>1. /\ \A i \in 1..Len(inbox) : inbox'[i] = inbox[i]
      /\ inbox'[Len(inbox) + 1] = e /\ Len(inbox') = Len(inbox) + 1 /\ Len(inbox) \in Nat
  BY AppendKeepsQueued
<1>2. \A i \in 1..Len(inbox') : IsFrame(i)' => i \in 1..Len(inbox)
  BY <1>1 DEF IsFrame
<1>3. \A i \in 1..Len(inbox) : i \in 1..Len(inbox') /\ (IsFrame(i)' <=> IsFrame(i)) /\ inbox'[i] = inbox[i]
  BY <1>1 DEF IsFrame
<1>4. ASSUME NEW f PROVE f \in Waiting' <=> f \in Waiting
  <2>1. (\E i \in 1..Len(inbox') : IsFrame(i)' /\ f = Shown(inbox'[i]))
            <=> \E i \in 1..Len(inbox) : IsFrame(i) /\ f = Shown(inbox[i])
    BY <1>2, <1>3, Zenon
  <2> QED BY <2>1, WaitingFacts, Zenon
<1> QED BY <1>4, SameSet, Zenon

\* A frame that goes from the batch to the channel goes on waiting.
LEMMA SentFramesWait ==
    ASSUME inbox \in Seq(Event), pending \in Seq(Event), Len(pending) > 0, Batch,
           inbox' = Append(inbox, Head(pending)), pending' = Tail(pending), UNCHANGED main
    PROVE  Waiting' = Waiting
<1> DEFINE e == Head(pending)
<1>1. /\ e = pending[1] /\ e \in Event /\ Len(pending) \in Nat
      /\ Len(pending') = Len(pending) - 1
      /\ \A i \in 1..Len(pending') : pending'[i] = pending[i + 1]
  OBVIOUS
<1>2. e.type = "SerialFrame"
  BY <1>1 DEF Batch
<1> HIDE DEF e
<1>3. /\ \A i \in 1..Len(inbox) : inbox'[i] = inbox[i]
      /\ inbox'[Len(inbox) + 1] = e /\ Len(inbox') = Len(inbox) + 1 /\ Len(inbox) \in Nat
  <2>1. inbox' = Append(inbox, e)
    BY DEF e
  <2> QED BY <1>1, <2>1, AppendKeepsQueued
<1>4. \A i \in 1..Len(inbox) : i \in 1..Len(inbox') /\ (IsFrame(i)' <=> IsFrame(i))
  BY <1>3 DEF IsFrame
<1> PICK last : last = Len(inbox) + 1
  OBVIOUS
<1>5. last \in 1..Len(inbox') /\ inbox'[last] = e /\ IsFrame(last)'
  BY <1>2, <1>3 DEF IsFrame
<1>6. ASSUME NEW f PROVE f \in Waiting' <=> f \in Waiting
  <2> DEFINE InChannel == \E i \in 1..Len(inbox) : IsFrame(i) /\ f = Shown(inbox[i])
             InBatch == \E i \in 1..Len(pending') : f = Shown(pending'[i])
  <2>1. (\E i \in 1..Len(inbox') : IsFrame(i)' /\ f = Shown(inbox'[i]))
            <=> InChannel \/ f = Shown(e)
    <3>1. \A i \in 1..Len(inbox') : i \in 1..Len(inbox) \/ i = last
      BY <1>3
    <3> QED BY <1>3, <1>4, <1>5, <3>1, Zenon
  <2>2. (\E i \in 1..Len(pending) : f = Shown(pending[i])) <=> InBatch \/ f = Shown(e)
    <3>1. 1 \in 1..Len(pending) /\ \A i \in 1..Len(pending') : i + 1 \in 1..Len(pending)
      BY <1>1
    <3>2. ASSUME NEW i \in 1..Len(pending), i # 1
          PROVE  i - 1 \in 1..Len(pending') /\ pending'[i - 1] = pending[i]
      <4>1. i - 1 \in 1..Len(pending') /\ (i - 1) + 1 = i
        BY <1>1, <3>2
      <4>2. pending'[i - 1] = pending[(i - 1) + 1]
        BY <1>1, <4>1, Zenon
      <4> QED BY <4>1, <4>2
    <3>3. ASSUME NEW i \in 1..Len(pending), f = Shown(pending[i])
          PROVE  InBatch \/ f = Shown(e)
      <4>1. CASE i = 1
        BY <1>1, <3>3, <4>1
      <4>2. CASE i # 1
        BY <3>2, <3>3, <4>2
      <4> QED BY <4>1, <4>2
    <3>4. ASSUME NEW i \in 1..Len(pending'), f = Shown(pending'[i])
          PROVE  \E j \in 1..Len(pending) : f = Shown(pending[j])
      <4>1. pending'[i] = pending[i + 1]
        BY <1>1
      <4> QED BY <3>1, <3>4, <4>1
    <3>5. ASSUME f = Shown(e)
          PROVE  \E j \in 1..Len(pending) : f = Shown(pending[j])
      BY <1>1, <3>1, <3>5
    <3> QED BY <3>3, <3>4, <3>5
  <2> HIDE DEF InChannel
  <2>3. f \in Waiting' <=> main \in Spawning \cup {"dispatch"} /\ (InChannel \/ f = Shown(e) \/ InBatch)
    BY <2>1, WaitingFacts, Zenon
  <2> HIDE DEF InBatch
  <2>4. f \in Waiting <=> main \in Spawning \cup {"dispatch"} /\ (InChannel \/ InBatch \/ f = Shown(e))
    BY <2>2, WaitingFacts, Zenon DEF InChannel
  <2> QED BY <2>3, <2>4, Zenon
<1> QED BY <1>6, SameSet, Zenon

\* A reader that takes something may go on reading until the flag is up, or
\* the start has failed.
LEMMA ReadsOne ==
    ASSUME IInv, NEW t \in {"serial", "udp"}, pc[t] = "read",
           pc' = [pc EXCEPT ![t] = "send"], UNCHANGED main
    PROVE  Run!ReadSide(t)
<1>1. main \in MainLabel /\ main' \in MainLabel
  BY DEF IInv, TypeOK
<1>2. MayRead(t) /\ t \in Reading /\ t \in Thread
  BY <1>1 DEF MayRead, Reading, MainLabel, Thread
<1>3. pc'[t] = "send"
  BY <1>2, ReadingMoves
<1>4. CASE main \in Spawning \cup {"dispatch", "stop"}
  <2>1. MayRead(t)'
    BY <1>3, <1>4 DEF MayRead
  <2>2. Reading' = Reading
    BY <1>2, <2>1, ReadingMoves
  <2> QED BY <1>1, <1>2, <1>4, <2>2, PhaseFacts DEF Run!ReadSide, Run!Open
<1>5. CASE main \notin Spawning \cup {"dispatch", "stop"}
  <2>1. ~MayRead(t)'
    BY <1>3, <1>5 DEF MayRead
  <2>2. Reading' = Reading \ {t}
    BY <1>2, <2>1, ReadingMoves
  <2>3. Phase \notin Run!Open \cup {"ending"}
    BY <1>1, <1>5, PhaseFacts DEF Run!Open
  <2> QED BY <1>2, <2>2, <2>3 DEF Run!ReadSide
<1> QED BY <1>4, <1>5

\* A chunk of the port is what is taken, and waits unless the loop is over.
LEMMA SerialReadRun == IInv /\ SerialRead => Run!Next
<1> SUFFICES ASSUME IInv, SerialRead PROVE Run!Next
  OBVIOUS
<1>1. PICK n \in 1..MaxBatch : \E reboot \in [1..n -> BOOLEAN] :
        /\ pending' = [i \in 1..n |-> Frame(framesRead + i, reboot[i])]
        /\ framesRead' = framesRead + n
  BY DEF SerialRead
<1>2. PICK reboot \in [1..n -> BOOLEAN] :
        /\ pending' = [i \in 1..n |-> Frame(framesRead + i, reboot[i])]
        /\ framesRead' = framesRead + n
  BY <1>1
<1>3. /\ pc["serial"] = "read" /\ pc' = [pc EXCEPT !["serial"] = "send"]
      /\ UNCHANGED <<main, end, inbox, framesHandled, datagrams>>
  BY DEF SerialRead, Goto, sessionVars, counters
<1>4. main \in MainLabel /\ main' \in MainLabel /\ n \in Nat
  BY <1>3, BoundsAssumption DEF IInv, TypeOK
<1>5. pending = <<>> /\ Len(pending') = n
  BY <1>2, <1>3, <1>4 DEF IInv, Batch
<1> DEFINE New == {[seq |-> framesRead + i, reboot |-> reboot[i]] : i \in 1..n}
<1>6. \A i \in 1..n : Shown(pending'[i]) = [seq |-> framesRead + i, reboot |-> reboot[i]]
  BY <1>2 DEF Frame, Shown
<1>7. ASSUME main \in Spawning \cup {"dispatch"} PROVE Waiting' = Waiting \cup New
  <2> SUFFICES ASSUME NEW f PROVE f \in Waiting' <=> f \in Waiting \cup New
    BY SameSet, Zenon
  <2>1. (\E i \in 1..Len(pending') : f = Shown(pending'[i])) <=> f \in New
    BY <1>5, <1>6, Zenon
  <2>2. ~\E i \in 1..Len(pending) : f = Shown(pending[i])
    BY <1>5
  <2>3. (\E i \in 1..Len(inbox') : IsFrame(i)' /\ f = Shown(inbox'[i]))
            <=> \E i \in 1..Len(inbox) : IsFrame(i) /\ f = Shown(inbox[i])
    BY <1>3, Zenon DEF IsFrame
  <2> HIDE DEF New
  <2>4. f \in Waiting' <=> f \in Waiting \/ f \in New
    BY <1>3, <1>7, <2>1, <2>2, <2>3, WaitingFacts, Zenon
  <2> QED BY <2>4
<1>8. ASSUME main \notin Spawning \cup {"dispatch"} PROVE Waiting' = Waiting
  BY <1>3, <1>8, NothingWaits, Zenon
<1>9. Phase \in Run!Open <=> main \in Spawning \cup {"dispatch"}
  BY <1>4, PhaseFacts DEF Run!Open
<1>10. Run!ReadSide("serial")
  BY <1>3, ReadsOne
<1>11. Phase' = Phase
  BY <1>3, <1>4, PhaseFacts, Zenon
<1>12. Waiting' = IF Phase \in Run!Open THEN Waiting \cup New ELSE Waiting
  BY <1>7, <1>8, <1>9, Zenon
<1>13. Run!Take
  BY <1>2, <1>3, <1>10, <1>11, <1>12 DEF Run!Take
<1> QED BY <1>13 DEF Run!Next

\* A datagram of the socket likewise.
LEMMA UdpRecvRun == IInv /\ UdpRecv => Run!Next
<1> SUFFICES ASSUME IInv, UdpRecv PROVE Run!Next
  OBVIOUS
<1>1. /\ pc["udp"] = "read" /\ pc' = [pc EXCEPT !["udp"] = "send"] /\ datagrams' = datagrams + 1
      /\ UNCHANGED <<main, end, inbox, pending, framesRead, framesHandled>>
  BY DEF UdpRecv, Goto, sessionVars
<1>2. main \in MainLabel /\ main' \in MainLabel
  BY <1>1 DEF IInv, TypeOK
<1>3. Phase' = Phase /\ Waiting' = Waiting
  BY <1>1, <1>2, PhaseFacts, WaitingKept, Zenon
<1>4. Run!ReadSide("udp")
  BY <1>1, ReadsOne
<1>5. Run!Receive
  BY <1>1, <1>3, <1>4 DEF Run!Receive
<1> QED BY <1>5 DEF Run!Next

\* A thread that sends or reports is not about to read.
LEMMA SendersDoNotRead ==
    ASSUME IInv, NEW t \in Thread, pc[t] \in {"send", "report"}, UNCHANGED main,
           NEW l \in {"send", "check", "done"}, pc' = [pc EXCEPT ![t] = l], ~rxOpen => l = "done"
    PROVE  MayRead(t)' => MayRead(t)
<1>1. /\ main' = main /\ pc'[t] = l
      /\ rxOpen <=> main \in Spawning \cup {"dispatch", "stop", "close"}
  BY ReadingMoves DEF IInv, Protocol
<1>2. CASE rxOpen
  BY <1>1, <1>2 DEF MayRead, Joining
<1>3. CASE ~rxOpen
  BY <1>1, <1>3 DEF MayRead
<1> QED BY <1>2, <1>3

\* The other steps of the threads: each shows nothing, but may give up a side.
LEMMA ThreadRun ==
    ASSUME IInv, SerialThread \/ UdpThread \/ HeartbeatThread
    PROVE  [Run!Next]_(Run!vars)
<1>0. /\ main \in MainLabel /\ inbox \in Seq(Event) /\ pending \in Seq(Event)
      /\ pc \in [Thread -> Label] /\ Batch
      /\ stop <=> main \in Joining \cup {"close", "returned"}
      /\ rxOpen <=> main \in Spawning \cup {"dispatch", "stop", "close"}
      /\ pc["serial"] = "send" => Len(pending) > 0
  BY DEF IInv, TypeOK, Protocol
<1>1. ASSUME NEW t \in Thread, NEW l \in {"read", "nap"}, CheckStop(t, l)
      PROVE  [Run!Next]_(Run!vars)
  <2>1. /\ pc[t] = "check" /\ pc' = [pc EXCEPT ![t] = IF stop THEN "done" ELSE l]
        /\ UNCHANGED <<main, end, inbox, pending, framesRead, framesHandled, datagrams>>
    BY <1>1 DEF CheckStop, Goto, sessionVars, counters
  <2>2. Waiting' = Waiting
    BY <2>1, WaitingKept, Zenon
  <2>3. MayRead(t)' => MayRead(t)
    <3>1. pc'[t] = IF stop THEN "done" ELSE l
      BY <2>1, ReadingMoves
    <3>2. CASE stop
      BY <1>0, <2>1, <3>1, <3>2 DEF MayRead, Joining, Spawning
    <3>3. CASE ~stop
      BY <1>0, <2>1, <3>3 DEF MayRead, MainLabel
    <3> QED BY <3>2, <3>3
  <2> QED BY <2>1, <2>2, <2>3, QuietRunStep
<1>2. ASSUME NEW t \in Thread, Idle(t) \/ ReadFails(t) PROVE [Run!Next]_(Run!vars)
  <2>1. PICK l \in {"check", "report"} :
           /\ pc[t] = "read" /\ pc' = [pc EXCEPT ![t] = l]
           /\ UNCHANGED <<main, end, inbox, pending, framesRead, framesHandled, datagrams>>
    BY <1>2 DEF Idle, ReadFails, Goto, sessionVars, counters
  <2>2. Waiting' = Waiting
    BY <2>1, WaitingKept, Zenon
  <2>3. MayRead(t)
    BY <1>0, <2>1 DEF MayRead, MainLabel
  <2> QED BY <2>1, <2>2, <2>3, QuietRunStep
<1>3. ASSUME NEW t \in Thread, NEW e \in Event, e.type # "SerialFrame",
             Report(t, e) \/ (/\ pc[t] = "send" /\ Send(t, e, "check")
                              /\ UNCHANGED <<sessionVars, pending, framesRead, counters>>)
      PROVE  [Run!Next]_(Run!vars)
  <2>1. PICK l \in {"check", "done"} :
           /\ pc[t] \in {"report", "send"} /\ pc' = [pc EXCEPT ![t] = l] /\ (~rxOpen => l = "done")
           /\ l = "check" => pc[t] = "send"
           /\ inbox' = IF rxOpen THEN Append(inbox, e) ELSE inbox
           /\ UNCHANGED <<main, end, pending, framesRead, framesHandled, datagrams>>
    BY <1>3, Zenon DEF Report, Send, Goto, sessionVars, counters
  <2>2. Waiting' = Waiting
    <3>1. CASE rxOpen
      BY <1>0, <1>3, <2>1, <3>1, OthersDoNotWait
    <3>2. CASE ~rxOpen
      BY <2>1, <3>2, WaitingKept, Zenon
    <3> QED BY <3>1, <3>2
  <2>3. MayRead(t)' => MayRead(t)
    BY <1>0, <2>1, SendersDoNotRead
  <2> QED BY <2>1, <2>2, <2>3, QuietRunStep
<1>4. ASSUME SerialSend PROVE [Run!Next]_(Run!vars)
  <2>1. PICK l \in {"send", "check", "done"} :
           /\ pc["serial"] = "send" /\ pc' = [pc EXCEPT !["serial"] = l] /\ (~rxOpen => l = "done")
           /\ inbox' = IF rxOpen THEN Append(inbox, Head(pending)) ELSE inbox
           /\ pending' = IF rxOpen THEN Tail(pending) ELSE <<>>
           /\ UNCHANGED <<main, end, framesRead, framesHandled, datagrams>>
    BY <1>4, Zenon DEF SerialSend, Send, Goto, sessionVars, counters
  <2>2. Waiting' = Waiting
    <3>1. CASE rxOpen
      BY <1>0, <2>1, <3>1, SentFramesWait
    <3>2. CASE ~rxOpen
      <4>1. main \notin Spawning \cup {"dispatch"} /\ main' = main
        BY <1>0, <2>1, <3>2
      <4> QED BY <4>1, NothingWaits, Zenon
    <3> QED BY <3>1, <3>2
  <2>3. MayRead("serial")' => MayRead("serial")
    BY <1>0, <2>1, SendersDoNotRead DEF Thread
  <2>4. "serial" \in Thread
    BY DEF Thread
  <2> QED BY <2>1, <2>2, <2>3, <2>4, QuietRunStep
<1>5. ASSUME HeartbeatWake PROVE [Run!Next]_(Run!vars)
  <2>1. PICK l : /\ pc' = [pc EXCEPT !["heartbeat"] = l]
                 /\ UNCHANGED <<main, end, inbox, pending, framesRead, framesHandled, datagrams>>
    BY <1>5, Zenon DEF HeartbeatWake, Goto, sessionVars
  <2>2. Waiting' = Waiting /\ "heartbeat" \in Thread
    BY <2>1, WaitingKept, Zenon DEF Thread
  <2> QED BY <2>1, <2>2, QuietRunStep
<1>6. \A y \in {"SerialError", "UdpError", "UdpPacket", "Tick"} :
          Plain(y) \in Event /\ Plain(y).type # "SerialFrame"
  BY BoundsAssumption DEF Plain, Event
<1>7. CASE SerialThread
  BY <1>1, <1>2, <1>3, <1>4, <1>6, <1>7, SerialReadRun DEF SerialThread, Thread
<1>8. CASE UdpThread
  BY <1>1, <1>2, <1>3, <1>6, <1>8, UdpRecvRun DEF UdpThread, UdpSend, Thread
<1>9. CASE HeartbeatThread
  BY <1>1, <1>3, <1>5, <1>6, <1>9 DEF HeartbeatThread, HeartbeatSend, Thread
<1> QED BY <1>7, <1>8, <1>9

\* Starting the threads, and failing to.
LEMMA StartRun ==
    ASSUME IInv, IInv',
           \/ Spawn("serial", "spawnSerial", "spawnUdp")
           \/ Spawn("udp", "spawnUdp", "spawnHeartbeat")
           \/ Spawn("heartbeat", "spawnHeartbeat", "dispatch")
           \/ SpawnFails
    PROVE  [Run!Next]_(Run!vars)
<1>1. main \in MainLabel /\ main' \in MainLabel /\ main \in Spawning /\ pc \in [Thread -> Label]
  BY DEF IInv, TypeOK, Spawn, SpawnFails, Spawning
<1>2. UNCHANGED <<end, framesRead, framesHandled, datagrams>> /\ Phase = "starting"
  BY <1>1, PhaseFacts DEF Spawn, SpawnFails, counters
<1>3. ASSUME NEW u PROVE /\ u \in Reading <=> u \in {"serial", "udp"} /\ MayRead(u)
                         /\ u \in Reading' <=> u \in {"serial", "udp"} /\ MayRead(u)'
  BY Zenon DEF Reading
<1>4. CASE SpawnFails
  <2>1. main' = "failed" /\ UNCHANGED pc
    BY <1>4 DEF SpawnFails
  <2>2. \A u : MayRead(u)' => MayRead(u)
    BY <1>1, <2>1 DEF MayRead, Spawning, Joining
  <2>3. Reading' \subseteq Reading
    BY <1>3, <2>2
  <2>4. Phase' = "failed" /\ Waiting' = {}
    <3>1. main' \notin Spawning \cup {"dispatch"}
      BY <2>1 DEF Spawning
    <3> QED BY <1>1, <2>1, <3>1, PhaseFacts DEF Waiting
  <2>5. Run!Fail
    BY <1>2, <2>3, <2>4 DEF Run!Fail
  <2> QED BY <2>5 DEF Run!Next
<1>5. CASE ~SpawnFails
  <2>1. /\ main' \in Spawning \cup {"dispatch"} /\ UNCHANGED <<inbox, pending>>
        /\ \E t \in Thread : pc[t] = "unborn" /\ pc' = [pc EXCEPT ![t] = "check"]
    BY <1>5 DEF IInv, Protocol, Spawn, Goto, Spawning, Thread
  <2>2. \A u \in {"serial", "udp"} : MayRead(u)' <=> MayRead(u)
    BY <1>1, <2>1 DEF MayRead, Spawning, Joining, Thread
  <2>3. Reading' = Reading /\ Waiting' = Waiting
    <3>1. Reading' = Reading
      BY <1>3, <2>2
    <3> QED BY <1>1, <2>1, <3>1, WaitingKept
  <2>4. CASE main' \in Spawning
    <3>1. Phase' = "starting"
      BY <1>1, <2>4, PhaseFacts
    <3> QED BY <1>2, <2>3, <3>1 DEF Run!vars
  <2>5. CASE main' = "dispatch"
    <3>1. Phase' = "running"
      BY <1>1, <2>5, PhaseFacts
    <3>2. Run!Start
      BY <1>2, <2>3, <3>1 DEF Run!Start
    <3> QED BY <3>2 DEF Run!Next
  <2> QED BY <2>1, <2>4, <2>5
<1> QED BY <1>4, <1>5

\* The flag, the closed channel and the joins.
LEMMA EndingRun ==
    ASSUME IInv, IInv',
           \/ Stop \/ Close
           \/ Join("serial", "joinSerial", "joinUdp")
           \/ Join("udp", "joinUdp", "joinHeartbeat")
           \/ Join("heartbeat", "joinHeartbeat", "returned")
    PROVE  [Run!Next]_(Run!vars)
<1>1. main \in MainLabel /\ main' \in MainLabel /\ pc \in [Thread -> Label]
  BY DEF IInv, TypeOK
<1>2. /\ UNCHANGED <<end, framesRead, framesHandled, datagrams, pc>>
      /\ main \in {"stop", "close"} \cup Joining /\ main' \in {"close", "returned"} \cup Joining
  BY DEF Stop, Close, Join, counters, Joining
<1>3. Waiting = {} /\ Waiting' = {}
  <2>1. main \notin Spawning \cup {"dispatch"} /\ main' \notin Spawning \cup {"dispatch"}
    BY <1>2 DEF Spawning, Joining
  <2> QED BY <2>1, Zenon DEF Waiting
<1>4. ASSUME NEW u PROVE /\ u \in Reading <=> u \in {"serial", "udp"} /\ MayRead(u)
                         /\ u \in Reading' <=> u \in {"serial", "udp"} /\ MayRead(u)'
  BY Zenon DEF Reading
<1>5. \A u : MayRead(u)' <=> pc[u] = "read"
  BY <1>2 DEF MayRead, Spawning, Joining
<1>6. CASE main = "stop"
  <2>1. Phase = "ending" /\ Phase' = "stopped"
    <3>1. main' = "close"
      BY <1>6 DEF Stop, Close, Join
    <3> QED BY <1>1, <1>6, <3>1, PhaseFacts
  <2>2. \A u : MayRead(u)' => MayRead(u)
    BY <1>5, <1>6 DEF MayRead
  <2>3. Reading' \subseteq Reading
    BY <1>4, <2>2
  <2>4. Run!Stop
    BY <1>2, <1>3, <2>1, <2>3 DEF Run!Stop
  <2> QED BY <2>4 DEF Run!Next
<1>7. CASE main # "stop"
  <2>1. Phase = "stopped"
    BY <1>1, <1>2, <1>7, PhaseFacts
  <2>2. \A u : MayRead(u) <=> pc[u] = "read"
    BY <1>2, <1>7 DEF MayRead, Spawning, Joining
  <2>3. Reading' = Reading
    BY <1>4, <1>5, <2>2
  <2>4. CASE main' # "returned"
    <3>1. Phase' = "stopped"
      BY <1>1, <1>2, <2>4, PhaseFacts
    <3> QED BY <1>2, <1>3, <2>1, <2>3, <3>1 DEF Run!vars
  <2>5. CASE main' = "returned"
    <3>1. pc["serial"] = "done" /\ pc["udp"] = "done"
      BY <1>2, <2>5 DEF IInv, Protocol
    <3>2. Reading = {}
      BY <1>4, <2>2, <3>1
    <3>3. Phase' = "returned"
      BY <1>1, <2>5, PhaseFacts
    <3>4. Run!Return
      BY <1>2, <1>3, <2>1, <2>3, <3>2, <3>3 DEF Run!Return
    <3> QED BY <3>4 DEF Run!Next
  <2> QED BY <2>4, <2>5
<1> QED BY <1>6, <1>7

\* What waits after an event has left the channel.
LEMMA TailWaits ==
    ASSUME inbox \in Seq(Event), Len(inbox) > 0, inbox' = Tail(inbox),
           UNCHANGED <<main, pending>>, NEW f
    PROVE  f \in Waiting' <=>
               /\ main \in Spawning \cup {"dispatch"}
               /\ \/ \E i \in 2..Len(inbox) : IsFrame(i) /\ f = Shown(inbox[i])
                  \/ \E i \in 1..Len(pending) : f = Shown(pending[i])
<1>1. /\ Len(inbox') = Len(inbox) - 1 /\ Len(inbox) \in Nat
      /\ \A i \in 1..Len(inbox') : inbox'[i] = inbox[i + 1]
  BY TailKeepsRest
<1>2. (\E i \in 1..Len(inbox') : IsFrame(i)' /\ f = Shown(inbox'[i]))
          <=> \E i \in 2..Len(inbox) : IsFrame(i) /\ f = Shown(inbox[i])
  <2>1. ASSUME NEW i \in 1..Len(inbox'), IsFrame(i)', f = Shown(inbox'[i])
        PROVE  \E k \in 2..Len(inbox) : IsFrame(k) /\ f = Shown(inbox[k])
    <3>1. i + 1 \in 2..Len(inbox) /\ inbox'[i] = inbox[i + 1]
      BY <1>1
    <3> QED BY <2>1, <3>1, Zenon DEF IsFrame
  <2>2. ASSUME NEW k \in 2..Len(inbox), IsFrame(k), f = Shown(inbox[k])
        PROVE  \E i \in 1..Len(inbox') : IsFrame(i)' /\ f = Shown(inbox'[i])
    <3>1. PICK i \in 1..Len(inbox') : inbox'[i] = inbox[k]
      <4>1. k - 1 \in 1..Len(inbox') /\ inbox'[k - 1] = inbox[(k - 1) + 1] /\ (k - 1) + 1 = k
        BY <1>1
      <4> QED BY <4>1
    <3> QED BY <2>2, <3>1, Zenon DEF IsFrame
  <2> QED BY <2>1, <2>2, Zenon
<1> QED BY <1>2, WaitingFacts, Zenon

\* An event that is not a frame leaves the channel, and what waits is the same.
LEMMA OtherEventLeaves ==
    ASSUME inbox \in Seq(Event), Len(inbox) > 0, inbox' = Tail(inbox),
           inbox[1].type # "SerialFrame", UNCHANGED <<main, pending>>
    PROVE  Waiting' = Waiting
<1>1. ~IsFrame(1) /\ 1..Len(inbox) = {1} \cup 2..Len(inbox)
  BY DEF IsFrame
<1>2. ASSUME NEW f PROVE f \in Waiting' <=> f \in Waiting
  <2>1. (\E i \in 1..Len(inbox) : IsFrame(i) /\ f = Shown(inbox[i]))
            <=> \E i \in 2..Len(inbox) : IsFrame(i) /\ f = Shown(inbox[i])
    BY <1>1
  <2>2. f \in Waiting' <=>
            /\ main \in Spawning \cup {"dispatch"}
            /\ \/ \E i \in 2..Len(inbox) : IsFrame(i) /\ f = Shown(inbox[i])
               \/ \E i \in 1..Len(pending) : f = Shown(pending[i])
    BY TailWaits, Zenon
  <2>3. f \in Waiting <=>
            /\ main \in Spawning \cup {"dispatch"}
            /\ \/ \E i \in 1..Len(inbox) : IsFrame(i) /\ f = Shown(inbox[i])
               \/ \E i \in 1..Len(pending) : f = Shown(pending[i])
    BY WaitingFacts, Zenon
  <2> QED BY <2>1, <2>2, <2>3, Zenon
<1> QED BY <1>2, SameSet, Zenon

\* The frame that is handled, and no other, waits no longer.
LEMMA HandledFrameLeaves ==
    ASSUME IInv, main = "dispatch", Len(inbox) > 0, inbox[1].type = "SerialFrame",
           inbox' = Tail(inbox), UNCHANGED <<main, pending>>
    PROVE  Waiting' = Waiting \ {Shown(inbox[1])}
<1>1. inbox \in Seq(Event) /\ Len(inbox) \in Nat /\ framesHandled \in Nat /\ main \in Spawning \cup {"dispatch"}
  BY DEF IInv, TypeOK
<1>2. /\ IsFrame(1) /\ 1 \in 1..Len(inbox)
      /\ 1..Len(inbox) = {1} \cup 2..Len(inbox)
  BY <1>1 DEF IsFrame
<1>3. inbox[1].seq = framesHandled + 1
  BY OldestFrame
<1>4. ASSUME NEW i \in 2..Len(inbox), IsFrame(i) PROVE Shown(inbox[i]) # Shown(inbox[1])
  <2>1. inbox[1].seq < inbox[i].seq
    <3>1. i \in 1..Len(inbox) /\ 1 < i
      BY <1>1
    <3> QED BY <1>2, <1>4, <3>1 DEF IInv, NoFrameLost
  <2>2. inbox[1].seq # inbox[i].seq
    <3>1. inbox[i].seq \in Int
      <4>1. inbox[i] \in Event
        BY <1>1
      <4> QED BY <4>1, BoundsAssumption DEF Event
    <3> QED BY <1>1, <1>3, <2>1, <3>1
  <2> QED BY <2>2 DEF Shown
<1>5. ASSUME NEW i \in 1..Len(pending) PROVE Shown(pending[i]) # Shown(inbox[1])
  <2>1. pending[i].seq = framesRead - Len(pending) + i
    BY DEF IInv, NoFrameLost
  <2>2. framesHandled + 1 <= framesRead - Len(pending)
    BY OldestFrame
  <2>3. framesRead \in Int /\ Len(pending) \in Nat
    BY BoundsAssumption DEF IInv, TypeOK
  <2>4. pending[i].seq # inbox[1].seq
    BY <1>1, <1>3, <2>1, <2>2, <2>3
  <2> QED BY <2>4 DEF Shown
<1>6. ASSUME NEW f PROVE f \in Waiting' <=> f \in Waiting /\ f # Shown(inbox[1])
  <2>1. (\E i \in 1..Len(inbox) : IsFrame(i) /\ f = Shown(inbox[i]))
            <=> f = Shown(inbox[1]) \/ \E i \in 2..Len(inbox) : IsFrame(i) /\ f = Shown(inbox[i])
    BY <1>2
  <2>2. f \in Waiting' <=>
            \/ \E i \in 2..Len(inbox) : IsFrame(i) /\ f = Shown(inbox[i])
            \/ \E i \in 1..Len(pending) : f = Shown(pending[i])
    BY <1>1, TailWaits, Zenon
  <2>3. f \in Waiting <=>
            \/ \E i \in 1..Len(inbox) : IsFrame(i) /\ f = Shown(inbox[i])
            \/ \E i \in 1..Len(pending) : f = Shown(pending[i])
    BY <1>1, WaitingFacts, Zenon
  <2> QED BY <1>4, <1>5, <2>1, <2>2, <2>3, Zenon
<1> QED BY <1>6

\* The dispatch of an event: the next frame is handled, a lost side ends the
\* run, and the rest does not show.
LEMMA DispatchRun ==
    ASSUME IInv, IInv', Dispatch
    PROVE  [Run!Next]_(Run!vars)
<1> DEFINE e == Head(inbox)
<1>0. inbox \in Seq(Event) /\ main = "dispatch" /\ main \in MainLabel /\ main' \in MainLabel
  BY DEF IInv, TypeOK, Dispatch
<1>1. inbox # <<>>
  BY <1>0, TimerHoldsSender DEF RecvNeverDisconnects, Dispatch
<1>2. /\ end' = EndFor(e) /\ main' = IF EndFor(e) = "none" THEN "dispatch" ELSE "stop"
      /\ framesHandled' = IF e.type = "SerialFrame" THEN framesHandled + 1 ELSE framesHandled
      /\ inbox' = Tail(inbox) /\ UNCHANGED <<pc, pending, framesRead, datagrams>>
  BY <1>1 DEF Dispatch
<1>3. /\ Len(inbox') = Len(inbox) - 1 /\ e = inbox[1] /\ e \in Event
      /\ Len(inbox) \in Nat /\ Len(inbox) > 0
      /\ \A i \in 1..Len(inbox') : inbox'[i] = inbox[i + 1]
  <2>1. Len(inbox) \in Nat /\ Len(inbox) > 0
    BY <1>0, <1>1
  <2> QED BY <1>0, <1>2, <2>1, TailKeepsRest
<1> HIDE DEF e
<1>4. end = "none" /\ Phase = "running"
  BY <1>0, PhaseFacts DEF IInv, Protocol
<1>5. Reading' = Reading
  <2>1. \A u : MayRead(u)' <=> MayRead(u)
    BY <1>0, <1>2 DEF MayRead, Joining
  <2> QED BY <2>1, Zenon DEF Reading
<1>6. CASE EndFor(e) # "none"
  <2>1. Phase' = "ending" /\ Waiting' = {}
    <3>1. main' = "stop"
      BY <1>2, <1>6
    <3>2. main' \notin Spawning \cup {"dispatch"}
      BY <3>1 DEF Spawning
    <3> QED BY <1>0, <3>1, <3>2, PhaseFacts DEF Waiting
  <2>2. CASE e.type = "SerialFrame"
    <3>1. end' = "RadioRebooted" /\ e.reboot
      BY <1>2, <1>6, <2>2 DEF EndFor
    <3>2. Shown(e) \in Waiting /\ Shown(e).seq = framesHandled + 1 /\ Shown(e).reboot
      <4>1. IsFrame(1) /\ 1 \in 1..Len(inbox)
        BY <1>3, <2>2 DEF IsFrame
      <4>2. e.seq = framesHandled + 1
        BY <1>0, <1>3, <2>2, OldestFrame
      <4> QED BY <1>0, <1>3, <3>1, <4>1, <4>2, WaitingFacts DEF Shown
    <3>3. Run!Handle
      BY <1>2, <1>4, <1>5, <2>1, <2>2, <3>1, <3>2 DEF Run!Handle, Run!EndWith
    <3> QED BY <3>3 DEF Run!Next
  <2>3. CASE e.type # "SerialFrame"
    <3>1. \/ e.type = "SerialError" /\ end' = "SerialLost"
          \/ e.type = "UdpError" /\ end' = "UdpFailed"
      BY <1>2, <1>6, <2>3 DEF EndFor
    <3>2. Queued(e.type)
      BY <1>3 DEF Queued
    <3>3. \/ "serial" \notin Reading /\ end' = "SerialLost"
          \/ "udp" \notin Reading /\ end' = "UdpFailed"
      BY <1>0, <3>1, <3>2 DEF IInv, EndHasCause, Reading, MayRead, Joining
    <3>4. Run!EndForLoss
      BY <1>2, <1>4, <1>5, <2>1, <2>3, <3>3 DEF Run!EndForLoss, Run!EndWith
    <3> QED BY <3>4 DEF Run!Next
  <2> QED BY <2>2, <2>3
<1>7. CASE EndFor(e) = "none"
  <2>1. main' = main /\ end' = end /\ Phase' = Phase
    BY <1>0, <1>2, <1>4, <1>7, PhaseFacts
  <2>2. CASE e.type = "SerialFrame"
    <3>1. ~e.reboot
      BY <1>7, <2>2 DEF EndFor
    <3>2. Shown(e) \in Waiting /\ Shown(e).seq = framesHandled + 1 /\ ~Shown(e).reboot
      <4>1. IsFrame(1) /\ 1 \in 1..Len(inbox)
        BY <1>3, <2>2 DEF IsFrame
      <4>2. e.seq = framesHandled + 1
        BY <1>0, <1>3, <2>2, OldestFrame
      <4> QED BY <1>0, <1>3, <3>1, <4>1, <4>2, WaitingFacts DEF Shown
    <3>3. Waiting' = Waiting \ {Shown(e)}
      BY <1>0, <1>2, <1>3, <2>1, <2>2, HandledFrameLeaves
    <3>4. Run!Handle
      BY <1>2, <1>4, <1>5, <2>1, <2>2, <3>2, <3>3 DEF Run!Handle
    <3> QED BY <3>4 DEF Run!Next
  <2>3. CASE e.type # "SerialFrame"
    <3>1. Waiting' = Waiting
      BY <1>0, <1>2, <1>3, <2>1, <2>3, OtherEventLeaves
    <3> QED BY <1>2, <1>5, <2>1, <2>3, <3>1 DEF Run!vars
  <2> QED BY <2>2, <2>3
<1> QED BY <1>6, <1>7

LEMMA InitRun == Init => Run!Init
<1> SUFFICES ASSUME Init PROVE Run!Init
  OBVIOUS
<1>1. Phase = "starting"
  BY DEF Init, Phase, Spawning, Joining
<1>2. Waiting = {}
  BY DEF Init, Waiting
<1>3. \A t \in {"serial", "udp"} : MayRead(t)
  BY DEF Init, MayRead, Spawning, Thread
<1>4. Reading = {"serial", "udp"}
  BY <1>3, Zenon DEF Reading
<1> QED BY <1>1, <1>2, <1>4 DEF Init, Run!Init, Run!Side

\* A run of the four threads is a run as main sees it: the channel and the
\* batch are one queue of frames, and the flag, the closed channel and the joins
\* leave nothing behind that reads (bridge.rs:102-263).
THEOREM RunRefinement == Spec => ImplementsBridgeRun
<1>1. IInv /\ IInv' /\ [Next]_vars => [Run!Next]_(Run!vars)
  <2> SUFFICES ASSUME IInv, IInv', [Next]_vars PROVE [Run!Next]_(Run!vars)
    OBVIOUS
  <2>1. CASE MainThread
    BY <2>1, StartRun, DispatchRun, EndingRun DEF MainThread
  <2>2. CASE SpawnFails
    BY <2>2, StartRun
  <2>3. CASE SerialThread \/ UdpThread \/ HeartbeatThread
    BY <2>3, ThreadRun
  <2>4. CASE IntervalPasses \/ Over \/ UNCHANGED vars
    <3>1. UNCHANGED <<main, end, pc, inbox, pending, framesRead, framesHandled, datagrams>>
      BY <2>4 DEF IntervalPasses, Over, vars, sessionVars
    <3>2. main \in MainLabel /\ main' \in MainLabel
      BY DEF IInv, TypeOK
    <3>3. Phase' = Phase /\ Waiting' = Waiting
      BY <3>1, <3>2, PhaseFacts, WaitingKept, Zenon
    <3>4. Reading' = Reading
      BY <3>1 DEF Reading, MayRead
    <3> QED BY <3>1, <3>3, <3>4 DEF Run!vars
  <2> QED BY <2>1, <2>2, <2>3, <2>4 DEF Next
<1> QED BY <1>1, InitRun, AlwaysIInv, PTL DEF Spec, ImplementsBridgeRun, Run!Spec
=============================================================================
