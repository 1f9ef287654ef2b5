------------------------------ MODULE Handshake ------------------------------
(***************************************************************************)
(* run_handshake of src/src/serial.rs, for a session and for a probe, with *)
(* the device at the other end of the line (external).  A frame is what    *)
(* decoding it gives; FrameReader and FrameLine show how it is read.  Time *)
(* is in ticks: one pass of the loop takes less than one.                  *)
(***************************************************************************)
EXTENDS Integers, Sequences, SequencesExt

CONSTANTS
    Version,        \* configurations the radio may have
    Slots,          \* the radio's channel slots
    Active,         \* slots with a primary or secondary channel, by version
    Timeout,        \* timeout, and total of a probe
    FirstFrame,     \* first_frame of PROBE_TIMEOUTS
    Resend,         \* resend of PROBE_TIMEOUTS
    MaxQueue,       \* bound: frames and requests under way
    MaxReboots      \* bound: reboots of the radio

ASSUME HandshakeAssumption ==
    /\ Version # {} /\ Slots \in Nat /\ Active \in [Version -> SUBSET (1..Slots)]
    /\ Timeout \in Nat /\ FirstFrame \in Nat /\ Resend \in Nat \ {0}
    /\ FirstFrame <= Timeout
    /\ MaxQueue \in Nat \ {0} /\ MaxReboots \in Nat

VARIABLES
    probing,    \* the caller is probe
    pc,         \* in the loop, or how it ended
    heard,      \* heard
    info,       \* info, and my_node_num
    nextResend, \* next_resend
    now,        \* time since the first request
    ticked,     \* time has passed in this pass of the loop
    isRadio,    \* the device is a Meshtastic radio
    version,    \* its configuration
    dump,       \* what it is still to send of a configuration dump
    requests,   \* requests on the way to it
    line,       \* frames on the way from it
    reboots     \* its reboots so far

callVars == <<probing, pc, heard, info, nextResend>>
timeVars == <<now, ticked>>
deviceVars == <<isRadio, version, dump, requests, line, reboots>>
vars == <<callVars, timeVars, deviceVars>>

\* An undecodable frame, one without a variant, an echo of the request: none
\* is an answer.  (Once the port is heard, they change nothing either.)
Noise == [kind |-> "noise"]

\* A valid frame that is no part of a configuration.
Packet == [kind |-> "packet"]
Rebooted == [kind |-> "rebooted"]
Complete == [kind |-> "complete"]
OtherComplete == [kind |-> "otherComplete"]

MyInfo(v) == [kind |-> "myInfo", of |-> v]
Lora(v) == [kind |-> "lora", of |-> v]
Mqtt(v) == [kind |-> "mqtt", of |-> v]
Channel(v, i) == [kind |-> "channel", of |-> v, slot |-> i]

\* The dump of a configuration, all slots included (external).
Settings(v) == <<MyInfo(v)>> \o [i \in 1..Slots |-> Channel(v, i)] \o <<Lora(v), Mqtt(v)>>

Frame == {Noise, Packet, Rebooted, Complete, OtherComplete}
             \cup UNION {ToSet(Settings(v)) : v \in Version}

\* RadioInfo as it is before the first frame; {} stands for None.
NoInfo == [node |-> {}, lora |-> {}, mqtt |-> {}, channels |-> <<>>]

Running == pc \in {"top", "read"}

\* A radio may still be busy with the dump an earlier client asked for.
Leftover(v) == LET whole == Append(Settings(v), OtherComplete)
               IN  {SubSeq(whole, k, Len(whole)) : k \in 1..(Len(whole) + 1)}

Init ==
    /\ probing \in BOOLEAN /\ pc = "start" /\ heard = ~probing
    /\ info = NoInfo /\ nextResend = Resend
    /\ now = 0 /\ ticked = FALSE
    /\ isRadio \in BOOLEAN /\ version \in Version
    /\ dump \in IF isRadio THEN Leftover(version) ELSE {<<>>}
    /\ requests = 0 /\ line = <<>> /\ reboots = 0

-----------------------------------------------------------------------------
(* run_handshake. *)

PortError == pc' = "portError" /\ UNCHANGED requests

\* serial.write_all(&frame), and on with the loop at where.
Write(where) ==
    \/ pc' = where /\ requests' = requests + 1
    \/ PortError

Start ==
    /\ pc = "start" /\ Write("top")
    /\ UNCHANGED <<probing, heard, info, nextResend, timeVars, isRadio, version, dump, line, reboots>>

\* Variant: no limit.
TooLateNever == FALSE

TooLate == now > Timeout

NoReply == ~heard /\ now > FirstFrame

ResendDue == ~heard /\ now >= nextResend

TimeOut ==
    /\ pc = "top" /\ TooLate
    /\ pc' = "timedOut"
    /\ UNCHANGED <<probing, heard, info, nextResend, timeVars, deviceVars>>

GiveUp ==
    /\ pc = "top" /\ ~TooLate /\ NoReply
    /\ pc' = "noReply"
    /\ UNCHANGED <<probing, heard, info, nextResend, timeVars, deviceVars>>

ResendRequest ==
    /\ pc = "top" /\ ~TooLate /\ ~NoReply /\ ResendDue
    /\ Write("read")
    /\ nextResend' = now + Resend
    /\ UNCHANGED <<probing, heard, info, timeVars, isRadio, version, dump, line, reboots>>

NothingDue ==
    /\ pc = "top" /\ ~TooLate /\ ~NoReply /\ ~ResendDue
    /\ pc' = "read"
    /\ UNCHANGED <<probing, heard, info, nextResend, timeVars, deviceVars>>

\* The next pass of the loop.
Again == pc' = "top" /\ ticked' = FALSE /\ UNCHANGED now

\* No byte in time, or one that ends no frame; or the port fails.
ReadNothing ==
    /\ pc = "read"
    /\ \/ Again
       \/ pc' = "portError" /\ UNCHANGED timeVars
    /\ UNCHANGED <<probing, heard, info, nextResend, deviceVars>>

\* The byte that is read ends frame f.
Reads(f) == pc = "read" /\ line # <<>> /\ f = Head(line) /\ line' = Tail(line)

\* Variant: each frame decides anew.
HearsLast(f) == f # Noise

\* Variant: an echo of the request counts as an answer.
HearsAnything(f) == TRUE

Hears(f) == heard \/ f # Noise

\* Variant: any config_complete_id ends the handshake.
EndsByAny(f) == f \in {Complete, OtherComplete}

Ends(f) == f = Complete

ReadIgnored ==
    \E f \in {Noise, Packet, OtherComplete} :
        /\ Reads(f) /\ ~Ends(f)
        /\ heard' = Hears(f) /\ Again
        /\ UNCHANGED <<probing, info, nextResend, isRadio, version, dump, requests, reboots>>

\* What a frame of a dump adds to info; a disabled channel adds nothing.
Captured(f) ==
    CASE f.kind = "myInfo" -> [info EXCEPT !.node = {f.of}]
      [] f.kind = "lora" -> [info EXCEPT !.lora = {f.of}]
      [] f.kind = "mqtt" -> [info EXCEPT !.mqtt = {f.of}]
      [] f.kind = "channel" /\ f.slot \in Active[f.of] -> [info EXCEPT !.channels = Append(@, f)]
      [] OTHER -> info

ReadSettings ==
    \E v \in Version : \E f \in ToSet(Settings(v)) :
        /\ Reads(f)
        /\ heard' = TRUE /\ info' = Captured(f) /\ Again
        /\ UNCHANGED <<probing, nextResend, isRadio, version, dump, requests, reboots>>

\* Variant: what came before the reboot is kept.
ReadRebootedKeeps ==
    /\ Reads(Rebooted)
    /\ heard' = TRUE /\ Write("top") /\ ticked' = FALSE
    /\ UNCHANGED <<probing, info, nextResend, now, isRadio, version, dump, reboots>>

\* Variant: the request is not repeated.
ReadRebootedWaits ==
    /\ Reads(Rebooted)
    /\ heard' = TRUE /\ info' = NoInfo /\ Again
    /\ UNCHANGED <<probing, nextResend, isRadio, version, dump, requests, reboots>>

\* Nothing of what came before a reboot counts, the request least of all.
ReadRebooted ==
    /\ Reads(Rebooted)
    /\ heard' = TRUE /\ info' = NoInfo /\ Write("top") /\ ticked' = FALSE
    /\ UNCHANGED <<probing, nextResend, now, isRadio, version, dump, reboots>>

\* The dump is over: success, if it said whose it is.
ReadComplete ==
    \E f \in {Complete, OtherComplete} :
        /\ Reads(f) /\ Ends(f)
        /\ heard' = TRUE /\ pc' = IF info.node = {} THEN "noNode" ELSE "ok"
        /\ UNCHANGED <<probing, info, nextResend, timeVars, isRadio, version, dump, requests, reboots>>

\* Bound of the time: no handshake runs longer, as GivesUpInTime shows.
Horizon == Timeout + 3

\* Less than a tick for one pass of the loop.
Tick ==
    /\ Running /\ ~ticked /\ now < Horizon
    /\ now' = now + 1 /\ ticked' = TRUE
    /\ UNCHANGED <<callVars, deviceVars>>

-----------------------------------------------------------------------------
(* The device (external).  What it sends arrives, whole and in order.      *)

Room == Running /\ Len(line) < MaxQueue

\* Console text that looks like a frame, an echo; packets, if it is a radio.
Chatters ==
    /\ Room
    /\ \E f \in {Noise} \cup (IF isRadio THEN {Packet} ELSE {}) : line' = Append(line, f)
    /\ UNCHANGED <<callVars, timeVars, isRadio, version, dump, requests, reboots>>

\* A radio starts its dump, or starts it again; what is no radio does nothing.
TakesRequest ==
    /\ Running /\ requests > 0 /\ requests' = requests - 1
    /\ dump' = IF isRadio THEN Append(Settings(version), Complete) ELSE <<>>
    /\ UNCHANGED <<callVars, timeVars, isRadio, version, line, reboots>>

Dumps ==
    /\ Room /\ dump # <<>>
    /\ line' = Append(line, Head(dump)) /\ dump' = Tail(dump)
    /\ UNCHANGED <<callVars, timeVars, isRadio, version, requests, reboots>>

\* A reboot forgets the dump and the requests, and is announced; after it the
\* configuration may be another.
Reboots ==
    /\ Room /\ isRadio /\ reboots < MaxReboots /\ reboots' = reboots + 1
    /\ version' \in Version
    /\ dump' = <<>> /\ requests' = 0 /\ line' = Append(line, Rebooted)
    /\ UNCHANGED <<callVars, timeVars, isRadio>>

-----------------------------------------------------------------------------
Pass ==
    \/ Start \/ TimeOut \/ GiveUp \/ ResendRequest \/ NothingDue
    \/ ReadNothing \/ ReadIgnored \/ ReadSettings \/ ReadRebooted \/ ReadComplete

Device == Chatters \/ TakesRequest \/ Dumps \/ Reboots

Ended == pc \in {"ok", "timedOut", "noReply", "noNode", "portError"} /\ UNCHANGED vars

Next == Pass \/ Tick \/ Device \/ Ended

Spec == Init /\ [][Next]_vars

\* The loop goes on, since a read ends with the port's timeout, and so does
\* time.  Nothing is asked of the device.
FairSpec == Spec /\ WF_vars(Pass) /\ WF_vars(Tick)

-----------------------------------------------------------------------------
(* Properties. *)

TypeOK ==
    /\ probing \in BOOLEAN /\ heard \in BOOLEAN /\ (~probing => heard)
    /\ pc \in {"start", "top", "read", "ok", "timedOut", "noReply", "noNode", "portError"}
    /\ info \in [node : SUBSET Version, lora : SUBSET Version, mqtt : SUBSET Version,
                 channels : Seq(Frame)]
    /\ nextResend \in Nat /\ now \in Nat /\ ticked \in BOOLEAN
    /\ isRadio \in BOOLEAN /\ version \in Version
    /\ requests \in Nat /\ reboots \in 0..MaxReboots
    /\ dump \in Seq(Frame) /\ line \in Seq(Frame) /\ Len(line) <= MaxQueue

\* A handshake that succeeds has one configuration of the radio, all of it and
\* nothing else, whatever reboots, resends and old answers came in between; and
\* it is the one the radio still has, unless it has rebooted since and the news
\* of it is on the line, where the session will read it (serial.rs:188-259).
OneConfig ==
    pc = "ok" =>
        \E v \in Version :
            /\ info.node = {v} /\ info.lora = {v} /\ info.mqtt = {v}
            /\ ToSet(info.channels) = {Channel(v, i) : i \in Active[v]}
            /\ v = version \/ Rebooted \in ToSet(line)

\* The handshake never waits for an answer that nobody is going to give: the
\* request, the end of its dump or the news of a reboot is under way
\* (serial.rs:165-169, 245-253).
NotForgotten ==
    Running /\ isRadio =>
        \/ requests > 0
        \/ Complete \in ToSet(dump) \cup ToSet(line)
        \/ Rebooted \in ToSet(line)

\* A radio is not found to have no node number (serial.rs:193-199).
KnowsNode == pc # "noNode"

\* A port that gives no sign of a radio, whatever else it says, holds a probe
\* no longer than first_frame, and no handshake takes longer than its timeout
\* (serial.rs:110-113, 151-164).
GivesUpInTime ==
    Running => /\ now <= Timeout + 2
               /\ probing /\ ~isRadio => now <= FirstFrame + 2

\* How far the time is in a pass of the loop that ends the handshake when the
\* time at its top is more than limit.
InPass(limit) ==
    /\ pc = "start" => now = 0 /\ ~ticked
    /\ pc = "top" => now <= limit + (IF ticked THEN 2 ELSE 1)
    /\ pc = "read" => now <= limit + (IF ticked THEN 1 ELSE 0)

\* What is no radio sends nothing that looks like an answer.
Silent ==
    /\ dump = <<>> /\ (probing => ~heard)
    /\ \A n \in 1..Len(line) : line[n] = Noise

\* What info has of the configurations, and that it is of one.
Has(f) ==
    CASE f.kind = "myInfo" -> info.node = {f.of}
      [] f.kind = "lora" -> info.lora = {f.of}
      [] f.kind = "mqtt" -> info.mqtt = {f.of}
      [] OTHER -> f.slot \in Active[f.of] => f \in ToSet(info.channels)

InfoOf(v) ==
    /\ info.node \subseteq {v} /\ info.lora \subseteq {v} /\ info.mqtt \subseteq {v}
    /\ ToSet(info.channels) \subseteq {Channel(v, i) : i \in Active[v]}

\* The n-th frame of the line comes after f, with no reboot in between.
Delivered(f, n) ==
    \/ \E m \in 1..n : line[m] = f /\ \A k \in m..n : line[k] # Rebooted
    \/ Has(f) /\ \A k \in 1..n : line[k] # Rebooted

\* V tells the configuration each frame of the line was sent under, and
\* V[0] that of info: it changes with a reboot, and the end of an answer
\* comes after all of it.
Labels(V) ==
    /\ InfoOf(V[0]) /\ V[Len(line)] = version
    /\ \A n \in 1..Len(line) :
           /\ \A m \in 0..n : (\A k \in (m + 1)..n : line[k] # Rebooted) => V[m] = V[n]
           /\ \A v \in Version : line[n] \in ToSet(Settings(v)) => V[n] = v
           /\ line[n] = Complete => \A f \in ToSet(Settings(V[n])) : Delivered(f, n)

Labelled == \E V \in [0..Len(line) -> Version] : Labels(V)

\* What is still to be sent is of the radio's configuration, and ends the answer.
Sending ==
    \A n \in 1..Len(dump) :
        /\ dump[n] # Rebooted
        /\ \A v \in Version : dump[n] \in ToSet(Settings(v)) => version = v
        /\ dump[n] = Complete =>
               /\ n = Len(dump)
               /\ \A f \in ToSet(Settings(version)) :
                      f \in ToSet(dump) \/ Delivered(f, Len(line))

\* The inductive invariant: with types, how the time and the silence of a
\* device add up to GivesUpInTime, and what is under way to OneConfig.
IInv ==
    /\ TypeOK /\ NotForgotten
    /\ InPass(Timeout)
    /\ ~isRadio => Silent
    /\ ~isRadio /\ probing => InPass(FirstFrame)
    /\ Sending /\ Labelled
    /\ OneConfig /\ KnowsNode

\* Whatever the device says or does not say, the handshake returns
\* (serial.rs:150-164).
Returns == <>(pc \notin {"start", "top", "read"})
=============================================================================
