---------------------------- MODULE BridgeThreads ----------------------------
(***************************************************************************)
(* Bridge::run of src/src/bridge.rs: the dispatching thread, the serial    *)
(* reader, the UDP reader and the heartbeat timer, which share a stop flag *)
(* and an unbounded channel of events.  What the two packet handlers do    *)
(* with an event is module Relay; here an event is dispatched in one step, *)
(* which no other thread can observe.                                      *)
(***************************************************************************)
EXTENDS Integers, Sequences

CONSTANTS
    NonceModulus,   \* 2^32, the width of the heartbeat nonce
    MaxBatch,       \* bound: frames completed by one read of the port
    MaxFrames,      \* bound: frames the radio sends
    MaxDatagrams,   \* bound: datagrams the socket delivers
    MaxIntervals    \* bound: heartbeat intervals that elapse

ASSUME BoundsAssumption ==
    /\ NonceModulus \in Nat /\ NonceModulus > 2
    /\ MaxBatch \in Nat /\ MaxFrames \in Nat
    /\ MaxDatagrams \in Nat /\ MaxIntervals \in Nat

VARIABLES
    main,           \* where run is: spawning, dispatching, stopping, joining, back
    end,            \* the SessionEnd that run is about to return
    stop,           \* the shared AtomicBool
    rxOpen,         \* the receiving end of the channel exists
    inbox,          \* events sent and not yet received
    pc,             \* where each thread is
    pending,        \* frames of the last chunk the serial reader has still to send
    framesRead,     \* frames taken off the port
    framesHandled,  \* frames handled by the dispatch loop
    datagrams,      \* datagrams taken off the socket
    elapsed,        \* heartbeat intervals elapsed since the timer started
    ticks,          \* ticks the timer has decided to send
    nonce,          \* heartbeat_nonce
    heartbeats      \* the nonces of the heartbeats written to the port, in order

vars == <<main, end, stop, rxOpen, inbox, pc, pending, framesRead, framesHandled,
          datagrams, elapsed, ticks, nonce, heartbeats>>

Thread == {"serial", "udp", "heartbeat"}

\* HEARTBEAT_NONCE_NODEINFO_PING: a nonce the radio answers with traffic.
Ping == 1

Frame(s, r) == [type |-> "SerialFrame", seq |-> s, reboot |-> r]
Plain(t) == [type |-> t, seq |-> 0, reboot |-> FALSE]

Event == [type : {"SerialFrame", "UdpPacket", "SerialError", "UdpError", "Tick"},
          seq : 0..MaxFrames, reboot : BOOLEAN]

Spawning == {"spawnSerial", "spawnUdp", "spawnHeartbeat"}
Joining == {"joinSerial", "joinUdp", "joinHeartbeat"}

\* The threads that hold a sender: a spawned thread owns its own until it
\* returns, and run keeps the one it will move into the timer.
Senders == {t \in Thread : pc[t] \notin {"unborn", "done"}}

Goto(t, label) == pc' = [pc EXCEPT ![t] = label]

sessionVars == <<main, end, stop, rxOpen>>
counters == <<framesHandled, datagrams, elapsed, ticks, nonce, heartbeats>>

Init ==
    /\ main = "spawnSerial" /\ end = "none"
    /\ stop = FALSE /\ rxOpen = TRUE /\ inbox = <<>>
    /\ pc = [t \in Thread |-> "unborn"] /\ pending = <<>>
    /\ framesRead = 0 /\ framesHandled = 0 /\ datagrams = 0
    /\ elapsed = 0 /\ ticks = 0
    /\ nonce = Ping /\ heartbeats = <<>>

-----------------------------------------------------------------------------
(* Starting. *)

\* thread::Builder::spawn of thread t succeeds.
Spawn(t, here, then) ==
    /\ main = here /\ main' = then
    /\ Goto(t, "check")
    /\ UNCHANGED <<end, stop, rxOpen, inbox, pending, framesRead, counters>>

\* Variant: something else still holds the receiver, and the channel stays open.
SpawnFailsOpen ==
    /\ main \in Spawning /\ main' = "failed"
    /\ UNCHANGED <<end, stop, rxOpen, inbox, pc, pending, framesRead, counters>>

\* A try_clone, a set_timeout or a spawn fails: run returns the error and
\* drops the channel.  stop stays false and no thread is joined.
SpawnFails ==
    /\ main \in Spawning /\ main' = "failed"
    /\ rxOpen' = FALSE /\ inbox' = <<>>
    /\ UNCHANGED <<end, stop, pc, pending, framesRead, counters>>

-----------------------------------------------------------------------------
(* What the threads share: the loop condition and the channel. *)

\* while !stop.load()
CheckStop(t, label) ==
    /\ pc[t] = "check"
    /\ Goto(t, IF stop THEN "done" ELSE label)
    /\ UNCHANGED <<sessionVars, inbox, pending, framesRead, counters>>

\* The reader goes round its loop with nothing to send: the read timed out, or,
\* on the port, the chunk it brought completes no frame.
Idle(t) ==
    /\ pc[t] = "read"
    /\ Goto(t, "check")
    /\ UNCHANGED <<sessionVars, inbox, pending, framesRead, counters>>

\* The read meets end of file or an error other than a timeout.
ReadFails(t) ==
    /\ pc[t] = "read"
    /\ Goto(t, "report")
    /\ UNCHANGED <<sessionVars, inbox, pending, framesRead, counters>>

\* Variant: the reader leaves on an error without telling anyone.
ReportNothing(t, e) ==
    /\ pc[t] = "report"
    /\ Goto(t, "done")
    /\ UNCHANGED <<sessionVars, inbox, pending, framesRead, counters>>

\* Variant: it reports the error and goes on reading.
ReportStays(t, e) ==
    /\ pc[t] = "report"
    /\ Goto(t, "check")
    /\ inbox' = IF rxOpen THEN Append(inbox, e) ELSE inbox
    /\ UNCHANGED <<sessionVars, pending, framesRead, counters>>

\* let _ = tx.send(e); return
Report(t, e) ==
    /\ pc[t] = "report"
    /\ Goto(t, "done")
    /\ inbox' = IF rxOpen THEN Append(inbox, e) ELSE inbox
    /\ UNCHANGED <<sessionVars, pending, framesRead, counters>>

\* if tx.send(e).is_err() { return }
Send(t, e, label) ==
    /\ Goto(t, IF rxOpen THEN label ELSE "done")
    /\ inbox' = IF rxOpen THEN Append(inbox, e) ELSE inbox

-----------------------------------------------------------------------------
(* The serial reader. *)

\* A chunk arrives that completes the next n frames of the port.
SerialRead ==
    /\ pc["serial"] = "read"
    /\ \E n \in 1..MaxBatch : \E reboot \in [1..n -> BOOLEAN] :
        /\ framesRead + n <= MaxFrames
        /\ pending' = [i \in 1..n |-> Frame(framesRead + i, reboot[i])]
        /\ framesRead' = framesRead + n
    /\ Goto("serial", "send")
    /\ UNCHANGED <<sessionVars, inbox, counters>>

\* Variants: the frames of a chunk leave in the wrong order, or only the
\* first of them is sent.
SerialSendLatestFirst ==
    /\ pc["serial"] = "send"
    /\ Send("serial", pending[Len(pending)], IF Len(pending) > 1 THEN "send" ELSE "check")
    /\ pending' = IF rxOpen THEN SubSeq(pending, 1, Len(pending) - 1) ELSE <<>>
    /\ UNCHANGED <<sessionVars, framesRead, counters>>

SerialSendFirstOnly ==
    /\ pc["serial"] = "send"
    /\ Send("serial", Head(pending), "check")
    /\ pending' = <<>>
    /\ UNCHANGED <<sessionVars, framesRead, counters>>

SerialSend ==
    /\ pc["serial"] = "send"
    /\ Send("serial", Head(pending), IF Len(pending) > 1 THEN "send" ELSE "check")
    /\ pending' = IF rxOpen THEN Tail(pending) ELSE <<>>
    /\ UNCHANGED <<sessionVars, framesRead, counters>>

SerialThread ==
    \/ CheckStop("serial", "read")
    \/ SerialRead \/ Idle("serial") \/ ReadFails("serial") \/ SerialSend
    \/ Report("serial", Plain("SerialError"))

-----------------------------------------------------------------------------
(* The UDP reader. *)

UdpRecv ==
    /\ pc["udp"] = "read" /\ datagrams < MaxDatagrams
    /\ datagrams' = datagrams + 1
    /\ Goto("udp", "send")
    /\ UNCHANGED <<sessionVars, inbox, pending, framesRead, framesHandled,
                   elapsed, ticks, nonce, heartbeats>>

UdpSend ==
    /\ pc["udp"] = "send"
    /\ Send("udp", Plain("UdpPacket"), "check")
    /\ UNCHANGED <<sessionVars, pending, framesRead, counters>>

UdpThread ==
    \/ CheckStop("udp", "read")
    \/ UdpRecv \/ Idle("udp") \/ ReadFails("udp") \/ UdpSend
    \/ Report("udp", Plain("UdpError"))

-----------------------------------------------------------------------------
(* The heartbeat timer: 250 ms naps, a tick when an interval is over.      *)
(* next += INTERVAL makes the ticks due exactly the intervals elapsed.     *)

IntervalPasses ==
    /\ pc["heartbeat"] # "unborn" /\ elapsed < MaxIntervals
    /\ elapsed' = elapsed + 1
    /\ UNCHANGED <<sessionVars, inbox, pc, pending, framesRead, framesHandled,
                   datagrams, ticks, nonce, heartbeats>>

\* Variant: next is set from the clock, so that intervals missed are lost.
HeartbeatWakeSkips ==
    /\ pc["heartbeat"] = "nap"
    /\ Goto("heartbeat", IF elapsed > ticks THEN "send" ELSE "check")
    /\ ticks' = elapsed
    /\ UNCHANGED <<sessionVars, inbox, pending, framesRead, framesHandled,
                   datagrams, elapsed, nonce, heartbeats>>

HeartbeatWake ==
    /\ pc["heartbeat"] = "nap"
    /\ Goto("heartbeat", IF elapsed > ticks THEN "send" ELSE "check")
    /\ ticks' = IF elapsed > ticks THEN ticks + 1 ELSE ticks
    /\ UNCHANGED <<sessionVars, inbox, pending, framesRead, framesHandled,
                   datagrams, elapsed, nonce, heartbeats>>

\* Variant: the timer leaves after its tick.
HeartbeatSendOnce ==
    /\ pc["heartbeat"] = "send"
    /\ Send("heartbeat", Plain("Tick"), "done")
    /\ UNCHANGED <<sessionVars, pending, framesRead, counters>>

HeartbeatSend ==
    /\ pc["heartbeat"] = "send"
    /\ Send("heartbeat", Plain("Tick"), "check")
    /\ UNCHANGED <<sessionVars, pending, framesRead, counters>>

HeartbeatThread == CheckStop("heartbeat", "nap") \/ HeartbeatWake \/ HeartbeatSend

-----------------------------------------------------------------------------
(* The dispatching thread. *)

Next32(n) == (n + 1) % NonceModulus

\* Variant: the wrapped nonce is not checked.
NextNonceUnchecked(n) == Next32(n)

\* heartbeat_nonce.wrapping_add(1), once more when that gives the ping.
NextNonce(n) == IF Next32(n) = Ping THEN Next32(Next32(n)) ELSE Next32(n)

\* What rx.recv() gives when every sender is gone: the loop ends as if the
\* port had failed.
Disconnected == Plain("SerialError")

\* Variant: the loop gives up on the port but not on the socket.
EndForIgnoresUdp(e) ==
    CASE e.type = "SerialFrame" /\ e.reboot -> "RadioRebooted"
      [] e.type = "SerialError" -> "SerialLost"
      [] OTHER -> "none"

\* The SessionEnd an event breaks the loop with, "none" if the loop goes on.
EndFor(e) ==
    CASE e.type = "SerialFrame" /\ e.reboot -> "RadioRebooted"
      [] e.type = "SerialError" -> "SerialLost"
      [] e.type = "UdpError" -> "UdpFailed"
      [] OTHER -> "none"

\* rx.recv() and the handling of the event.  Handlers and heartbeat log a
\* failed write and go on, so only EndFor leaves the loop.
Dispatch ==
    /\ main = "dispatch"
    /\ inbox = <<>> => Senders = {}
    /\ LET e == IF inbox = <<>> THEN Disconnected ELSE Head(inbox) IN
        /\ end' = EndFor(e)
        /\ main' = IF EndFor(e) = "none" THEN "dispatch" ELSE "stop"
        /\ framesHandled' = IF e.type = "SerialFrame" THEN framesHandled + 1 ELSE framesHandled
        /\ nonce' = IF e.type = "Tick" THEN NextNonce(nonce) ELSE nonce
        /\ heartbeats' = IF e.type = "Tick" THEN Append(heartbeats, nonce') ELSE heartbeats
    /\ inbox' = IF inbox = <<>> THEN <<>> ELSE Tail(inbox)
    /\ UNCHANGED <<stop, rxOpen, pc, pending, framesRead, datagrams, elapsed, ticks>>

\* Variant: the flag stays down and only the closed channel tells the threads.
StopForgotten ==
    /\ main = "stop" /\ main' = "close"
    /\ UNCHANGED <<end, stop, rxOpen, inbox, pc, pending, framesRead, counters>>

\* stop.store(true)
Stop ==
    /\ main = "stop" /\ main' = "close"
    /\ stop' = TRUE
    /\ UNCHANGED <<end, rxOpen, inbox, pc, pending, framesRead, counters>>

\* drop(rx): what is still queued is lost.
Close ==
    /\ main = "close" /\ main' = "joinSerial"
    /\ rxOpen' = FALSE /\ inbox' = <<>>
    /\ UNCHANGED <<end, stop, pc, pending, framesRead, counters>>

\* Variant: the join does not wait.
JoinDetached(t, here, then) ==
    /\ main = here
    /\ main' = then
    /\ UNCHANGED <<end, stop, rxOpen, inbox, pc, pending, framesRead, counters>>

\* t.join()
Join(t, here, then) ==
    /\ main = here /\ pc[t] = "done"
    /\ main' = then
    /\ UNCHANGED <<end, stop, rxOpen, inbox, pc, pending, framesRead, counters>>

MainThread ==
    \/ Spawn("serial", "spawnSerial", "spawnUdp")
    \/ Spawn("udp", "spawnUdp", "spawnHeartbeat")
    \/ Spawn("heartbeat", "spawnHeartbeat", "dispatch")
    \/ Dispatch \/ Stop \/ Close
    \/ Join("serial", "joinSerial", "joinUdp")
    \/ Join("udp", "joinUdp", "joinHeartbeat")
    \/ Join("heartbeat", "joinHeartbeat", "returned")

\* run is over; the next session is another behaviour.
Over == main \in {"returned", "failed"} /\ UNCHANGED vars

Next ==
    \/ MainThread \/ SpawnFails
    \/ SerialThread \/ UdpThread \/ HeartbeatThread
    \/ IntervalPasses
    \/ Over

Spec == Init /\ [][Next]_vars

\* Every read has a 500 ms timeout, the nap is 250 ms, a write to the port
\* has a timeout and recv returns when an event is queued: no thread is
\* stuck in a step it can take.  Nothing is assumed of the radio, of the
\* network or of spawning.
FairSpec ==
    /\ Spec
    /\ WF_vars(MainThread) /\ WF_vars(SerialThread)
    /\ WF_vars(UdpThread) /\ WF_vars(HeartbeatThread)

-----------------------------------------------------------------------------
(* Properties. *)

MainLabel == Spawning \cup Joining \cup {"dispatch", "stop", "close", "returned", "failed"}
Label == {"unborn", "check", "read", "nap", "send", "report", "done"}

TypeOK ==
    /\ main \in MainLabel
    /\ end \in {"none", "RadioRebooted", "SerialLost", "UdpFailed"}
    /\ stop \in BOOLEAN /\ rxOpen \in BOOLEAN
    /\ inbox \in Seq(Event) /\ pending \in Seq(Event)
    /\ pc \in [Thread -> Label]
    /\ framesRead \in 0..MaxFrames /\ framesHandled \in Nat
    /\ datagrams \in 0..MaxDatagrams
    /\ elapsed \in 0..MaxIntervals /\ ticks \in 0..MaxIntervals
    /\ nonce \in 0..(NonceModulus - 1) /\ heartbeats \in Seq(0..(NonceModulus - 1))

Queued(t) == \E i \in 1..Len(inbox) : inbox[i].type = t

\* While the loop runs, a reader that is gone has left its error in the
\* channel: the bridge never goes on deaf to one side (bridge.rs:127-150,
\* 168-186: every return of a reader follows a send).
DeadReaderReported ==
    main \in Spawning \cup {"dispatch"} =>
        /\ pc["serial"] = "done" => Queued("SerialError")
        /\ pc["udp"] = "done" => Queued("UdpError")

\* The channel never disconnects under the loop, so "all reader threads
\* exited" (bridge.rs:212-217) is not an end the program can reach: the
\* timer keeps the sender it was given until the loop is over.
RecvNeverDisconnects == main = "dispatch" => Senders # {}

\* An end has its cause: the port or the socket is reported lost only when
\* its reader met an error and left (bridge.rs:226-233).
EndHasCause ==
    /\ end = "SerialLost" \/ Queued("SerialError") => pc["serial"] = "done"
    /\ end = "UdpFailed" \/ Queued("UdpError") => pc["udp"] = "done"

\* When run returns, no thread of the session is left to take bytes from
\* the port that the next handshake reads, or datagrams from the socket it
\* shares with the next session (bridge.rs:258-262).
NoThreadLeft == main = "returned" => \A t \in Thread : pc[t] = "done"

\* A reader takes complete frames off the port, or a datagram off the socket.
Takes(t) ==
    \/ t = "serial" /\ framesRead' # framesRead
    \/ t = "udp" /\ datagrams' # datagrams

\* When a later thread could not be started, the earlier ones run on with the
\* flag down, and only the closed channel can end them. A reader meets it with
\* what it takes next in its hands, so it takes from the next session one
\* batch of frames or one datagram at most. Until then it goes on: neither a
\* timeout nor a chunk that completes no frame ends it (bridge.rs:121-207).
LastTakeAfterFailedStart ==
    [][main = "failed" =>
           /\ stop' = FALSE /\ inbox' = inbox
           /\ \A t \in Thread :
                 /\ Takes(t) => pc'[t] = "send"
                 /\ pc[t] \in {"send", "report", "done"} =>
                       pc'[t] \in {pc[t], "done"} /\ ~Takes(t)]_vars

\* Until the loop ends, the frames between the port and the handler are
\* exactly the ones read and not handled, in the order the radio sent them:
\* the channel holds the older ones, the reader's batch the newest
\* (bridge.rs:136-142 and the channel).
IsFrame(i) == inbox[i].type = "SerialFrame"
NoFrameLost ==
    main \in Spawning \cup {"dispatch"} =>
        /\ {inbox[i].seq : i \in {j \in 1..Len(inbox) : IsFrame(j)}}
              = (framesHandled + 1)..(framesRead - Len(pending))
        /\ \A i, j \in 1..Len(inbox) :
              i < j /\ IsFrame(i) /\ IsFrame(j) => inbox[i].seq < inbox[j].seq
        /\ \A i \in 1..Len(pending) : pending[i].seq = framesRead - Len(pending) + i
        /\ framesHandled <= framesRead - Len(pending)

\* No heartbeat carries the nonce that asks the radio for node information,
\* also after the nonce has wrapped (bridge.rs:234-238).
NeverPings == \A i \in 1..Len(heartbeats) : heartbeats[i] # Ping

\* The stop flag, the channel and the end follow the dispatching thread, a reader
\* with a batch has something to send, and a thread is joined only once done
\* (bridge.rs:258-262).
Protocol ==
    /\ stop <=> main \in Joining \cup {"close", "returned"}
    /\ rxOpen <=> main \in Spawning \cup {"dispatch", "stop", "close"}
    /\ main \in Spawning \cup {"dispatch"} => end = "none"
    /\ pc["serial"] = "send" => Len(pending) > 0
    /\ main = "spawnSerial" => pc["serial"] = "unborn"
    /\ main \in {"spawnSerial", "spawnUdp"} => pc["udp"] = "unborn"
    /\ main \in Spawning \cup {"failed"} => pc["heartbeat"] = "unborn"
    /\ main \in {"dispatch", "stop"} => pc["heartbeat"] \notin {"unborn", "done"}
    /\ main \in {"joinUdp", "joinHeartbeat", "returned"} => pc["serial"] = "done"
    /\ main \in {"joinHeartbeat", "returned"} => pc["udp"] = "done"
    /\ main = "returned" => pc["heartbeat"] = "done"

\* The reader holds a batch only while it sends it, and only frames.
Batch ==
    /\ pc["serial"] # "send" => pending = <<>>
    /\ \A i \in 1..Len(pending) : pending[i].type = "SerialFrame"

\* The inductive invariant behind the safety properties.
IInv ==
    /\ TypeOK /\ Protocol /\ Batch
    /\ DeadReaderReported /\ EndHasCause /\ NoFrameLost

-----------------------------------------------------------------------------
(* The run as main sees it. *)

\* Where the run is.
Phase ==
    CASE main \in Spawning -> "starting"
      [] main = "dispatch" -> "running"
      [] main = "stop" -> "ending"
      [] main \in Joining \cup {"close"} -> "stopped"
      [] OTHER -> main

\* Reader t may still take something: until the flag is up, unless it has left;
\* after that only if it is in a read already, and after a failed start only if
\* it has taken nothing since.
MayRead(t) ==
    \/ main \in Spawning \cup {"dispatch", "stop"} /\ pc[t] # "done"
    \/ main = "failed" /\ pc[t] \in {"check", "read"}
    \/ main \in Joining \cup {"close", "returned"} /\ pc[t] = "read"
Reading == {t \in {"serial", "udp"} : MayRead(t)}

\* The frames in the channel and in the reader's batch, while there is a loop
\* to handle them.
Shown(e) == [seq |-> e.seq, reboot |-> e.reboot]
Waiting ==
    IF main \in Spawning \cup {"dispatch"}
    THEN {Shown(inbox[i]) : i \in {j \in 1..Len(inbox) : IsFrame(j)}}
            \cup {Shown(pending[i]) : i \in 1..Len(pending)}
    ELSE {}

Run == INSTANCE BridgeRun WITH
    phase <- Phase, taken <- framesRead, waiting <- Waiting, handled <- framesHandled,
    reading <- Reading

\* Four threads, a flag and a channel do what one run promises: the frames are
\* handled in order, none lost before the loop ends, none twice; it ends at
\* the frame that tells of a reboot or after a side is gone; and when it is
\* back nothing reads the port or the socket any more (bridge.rs:102-263).
ImplementsBridgeRun == Run!Spec

\* A run that has decided to stop returns: each thread sees the flag or the
\* closed channel within one read, and is joined (bridge.rs:258-263).
StopReturns == main = "stop" ~> main = "returned"

\* A dead port or socket ends the session, so that main can reopen the port
\* or give up (bridge.rs:226-233).
DeadReaderEndsRun ==
    pc["serial"] = "done" \/ pc["udp"] = "done" ~> main \in {"returned", "failed"}

\* Each elapsed interval is followed by a heartbeat of its own, late ones
\* included, as long as the loop runs (bridge.rs:199-201, 234-254).
HeartbeatKeepsUp ==
    \A n \in 1..MaxIntervals :
        elapsed >= n ~> Len(heartbeats) >= n \/ main \notin Spawning \cup {"dispatch"}
=============================================================================
