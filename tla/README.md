# Verification of meshtastic-serial-udp

This directory holds TLA+ models of the bridge in `src/src`, the TLC
configurations that check them on small instances, and TLAPS proofs of the
results that do not depend on the size of the instance.

The bridge connects a Meshtastic radio on a serial port with a UDP multicast
group: what the radio hears is enciphered with the channel key and multicast,
and what arrives from the group is handed to the radio.

## 1. Inventory

| Component | Source | State it keeps | Operations |
|---|---|---|---|
| Duplicate filter | `bridge.rs:52-84` | `order` (queue), `set`, capacity 1024 | `new`, `insert` |
| Bridge threads | `bridge.rs:110-264` | stop flag, event channel, the three threads, heartbeat nonce | spawn, read, send, dispatch, stop, join |
| Packet handlers | `bridge.rs:266-447` | channel table, ingress mode, the filter | `handle_serial_frame`, `handle_udp_packet`, `encrypt_packet`, `decrypt_packet`, `downlink_channel_id` |
| Serial framing | `serial_framing.rs:1-100` | parser state, payload buffer | `feed`, `feed_bytes`, `frame_payload` |
| Handshake and probe | `serial.rs:48-306` | what the radio told so far, deadlines, whether the port has answered | `run_handshake`, `wait_for_reboot` |
| Session loop | `main.rs:78-273` | ingress mode, `mqtt_setup_attempted`, the port kept over a reboot, retry delay | `main`, `open_serial`, `run_session` |
| Raven channels | `raven.rs:14-212` | none between sessions; the merged lists | `load_raven_channels`, `deep_merge`, `merge_channels` |
| Autodetection | `autodetect.rs:12-201` | within a scan the list of candidates and the snapshot of busy devices | `candidates`, `busy_devices`, `scan` |
| Channel crypto | `crypto.rs:1-160` | none | key expansion, hash, AES-CTR |
| Multicast socket | `udp.rs:1-47` | the socket, kept over all sessions | `setup_multicast_socket`, `decode_packet`, `send_multicast` |

How they interact. `main` sets up the socket once and then runs one session
after the other. A session opens the port (the one it was given, or the first
that answers a probe), performs the handshake, merges the channel tables, writes
what the radio must be told, and builds a `Bridge`: a new filter, the channel
table, a clone of the socket. `Bridge::run` starts a serial reader (bytes to
frames with a `FrameReader`), a UDP reader and a timer; all three send events
over one channel to the dispatching thread, which alone runs the handlers, owns
the filter and writes to the port. A session ends when the radio reports a
reboot (the port is kept), when the port fails (it is opened again after a
delay) or when the socket fails (the program exits).

What is hard here, and which properties make each component correct:

* **Threads.** Four threads, a relaxed stop flag and a channel that two readers
  leave independently. An end must be noticed (`DeadReaderReported`,
  `DeadReaderEndsRun`), must have a cause (`EndHasCause`), and must leave no
  thread behind that would take bytes from the next handshake (`NoThreadLeft`,
  `StopReturns`); one that a failed start left behind takes one batch of frames
  or one datagram more at most (`LastTakeAfterFailedStart`). Until then no frame
  is lost or overtaken (`NoFrameLost`). For `main` the four of them must be one
  run (`ImplementsBridgeRun`).
* **Duplicates from both sides.** The same packet comes over the air, from the
  LAN, and as the echo of what the bridge did itself, in any order and across
  sessions (`OncePerWindow`, `NotBackToLan`, `NotBackToRadio`,
  `LanOnlyStaysOnLan`), with a filter at its capacity (`InStep`,
  `NoEarlyRepeat`, `ImplementsSeenWindow`).
* **Keys and hashes.** Channels share hashes, a wrong key may give bytes that
  parse (`PeerReadsRadio`, `RadioReadsPeer`).
* **Byte streams.** A frame may start anywhere in a stream that also carries
  the radio's console output (`Delivered`, `ImplementsFifo`,
  `ReadsEveryFrame`).
* **Numeric edges.** The nonce wraps (`NeverPings`), late ticks are caught up
  (`HeartbeatKeepsUp`), frame lengths of zero and of exactly the limit.
* **Timeouts, retries, reboots.** A handshake meets a device that echoes,
  prints, still answers somebody else, answers twice, or reboots in the middle
  (`OneConfig`, `NotForgotten`, `KnowsNode`, `GivesUpInTime`, `Returns`).
* **Partial failure.** A session breaks off between any two writes to the radio
  and the next one finds it half set up (`ProxyReady`, `KeepsProxy`, `Settles`,
  `BridgeMatchesRadio`, `NoTwins`, `KeepsPlaces`); Raven's files may be broken at
  one start and whole at the next (`RavenWins`); the port is tried again at
  growing intervals (`WaitsLonger`).
* **What was read is old when it is used.** A scan lists links, nodes and busy
  devices one after the other and then works through the list for up to a
  minute, while devices come and go (`OpensOnce`, `SparesHeld`, `FindsRadio`).
  For `main` it must be one more way to open a port (`ImplementsOpening`).

`PROJECT.json` lists the hazards one by one, each at its line.

## 2. Modules

| Module | Models | Role |
|---|---|---|
| `RecentPackets` | `struct RecentPackets` | the filter as variables and the operation `Insert`; extended by the next one and by `Relay` |
| `RecentPacketsCalls` | any sequence of `insert` calls and restarts | properties of the filter |
| `SeenWindow` | what the filter promises | abstract specification: new exactly when not among the last `Capacity` new keys |
| `RecentPacketsProofs` | | proofs; `RelayProofs` takes its lemmas about `Insert` with INSTANCE |
| `BridgeThreads` | `Bridge::run` | the threads, the flag and the channel; properties |
| `BridgeRun` | what `Bridge::run` promises `main` | abstract specification: frames are handled in order, the run ends for a cause, and nothing of it reads once it is back |
| `BridgeThreadsProofs` | | proofs |
| `Relay` | the two handlers and what they call | extends `RecentPackets`; properties |
| `RelayProofs` | | proofs |
| `FrameReader` | `FrameReader` and `frame_payload` | the parser as variables and the operation `Feed` |
| `FrameLine` | a clean line with frames and noise | properties of both ends together |
| `FrameFifo` | what framing promises | abstract specification: a queue of payloads |
| `FrameBytes` | the parser on arbitrary bytes | comparison with a definition of the frames of a byte sequence |
| `FramingProofs` | | proofs about `FrameLine` and `FrameBytes` |
| `Handshake` | `run_handshake`, for a session and for a probe | the loop with its deadlines, and an external device; properties |
| `HandshakeProofs` | | proofs |
| `Session` | `main`, `open_serial`, `run_session`, `wait_for_reboot` | one session after the other, each part a step; properties |
| `SessionProofs` | | proofs |
| `ChannelSetup` | `load_raven_channels`, `merge_channels`, key expansion and the channels of `run_session` | the tables of radio, Raven and bridge; properties |
| `ChannelSetupProofs` | | proofs |
| `AutoDetect` | `open_serial` with `auto`, `detect`, `candidates`, `busy_devices`, `scan` | the scan and what changes around it; properties, among them that it implements the opening of the port in `Session` |
| `AutoDetectProofs` | | proofs |
| `MCRecentPackets`, `MCRelay`, `MCHandshake`, `MCChannelSetup`, `MCAutoDetect` | | keys, packets, configurations, channel tables and devices for TLC |

Operators named after an operation with a suffix (`InsertOffByOne`,
`ReportNothing`, ...) are variants: the operation with a plausible slip. No
specification uses them; they show that the properties notice such a slip.

### The filter (`RecentPackets`, `RecentPacketsCalls`)

`order` and `set` are the fields of the struct; `Insert(k)` is `insert` with
its early return, the eviction and the push in one step, because the handlers
call it without interruption. `accepted` and `answer` are history: what was
answered "new" in this session and the last answer. `Restart` is the new
`Bridge` of the next session.

### The threads (`BridgeThreads`)

`pc[t]` says where thread `t` is: at the loop condition (`check`), in its
blocking call (`read`, `nap`), about to send (`send`, `report`), or gone
(`done`). `main` is the dispatching thread: spawning, `dispatch`, then `stop`,
`close`, the three joins. One action is one access to shared state: a load of
the flag, one send, one `recv` with the handling of its event. The handling can
be one step because no other thread reads what it changes. A batch of frames
from one read is sent frame by frame (`pending`), so other threads interleave.
`rxOpen` is the receiver: after `Close` every send fails and its thread leaves.
`Senders` are the threads that keep the channel connected; an unborn timer
counts through the sender that `run` still holds. When a spawn fails, `run`
returns through `?` and its receiver and sender go with it; the flag stays down.
The readers that run by then go on until a send tells them that the channel is
closed, and a reader sends only what it has whole: `Idle`, a timeout or a chunk
that completes no frame, brings it back to its next read any number of times.

The relaxed load of the flag is modelled as a current read. A stale read is a
`CheckStop` that comes later, after which the thread goes through one more
read; every such behaviour is also one where the load came before `Stop`.

`ImplementsBridgeRun` hides the threads. In `BridgeRun` a run takes frames off
the port and datagrams off the socket, handles the frames one by one in the
order they came, ends at the frame that tells of a reboot or when a side is
given up, and then is stopped and returns. `Waiting` are the frames of the
channel and of the reader's batch together, so sending is no step of the run.
`Reading` says which sides may still be read: each until the flag is up, then
one whose reader is already in its blocking call, for that call; after a failed
start also one that has yet to get there. So the run can only return when nothing
of it reads the port or the socket.

### The handlers (`Relay`)

A packet is a record of the fields the handlers look at. A ciphertext is the
pair of data and key; `Opener` tries the channels with the packet's hash in
table order, and a key opens what it enciphered, or what the constant
`FalseDecode` says it misreads. The radio and the LAN are external. The radio
hands over each packet once, and reports what the bridge gave it as it was given
it, with the transport `ForRadio` wrote (only what came through its own MQTT
client gets another mark, `Marked`, external); the LAN keeps every multicast
packet and may deliver it any number of times, in any order, in a later session,
or never. Hash and key are fields of a channel of their own, so that channels
may share the one, the other, or both, as two names with the same letters and
one PSK do (`Alike`). Multicast loopback is off on the socket (`udp.rs:20`), so
the echo of an own packet needs another station that repeats it, or, as in the
second finding's simplest form, another bridge that heard the same packet;
`handle_serial_frame` expects such echoes (`bridge.rs:287`). A failed multicast
or serial write is a choice of the step; the packet stays in the filter, as in
the code. `log` is history: for each packet a handler remembered, what arrived,
what left and where to, and what the filter answered.

### The framing (`FrameReader`, `FrameLine`, `FrameBytes`)

`state` is the enum with the number it carries (the high length byte, or the
expected length), `buf` the field, `frames` everything `feed` has returned.
`FrameLine` puts frames on the line byte by byte, and any bytes between them as
long as START1 is not followed by START2 there; a frame may directly follow a
START1 of the noise. `FrameBytes` feeds every sequence of bytes, so also frames
that are cut off, lengths over the limit, and headers inside payloads. Its reference
definition speaks of the input as a whole: `MetHeaders` says which places of the
start bytes are headers (every one but those between a header and the place
behind its payload), `Complete` which of them have all of their payload, and
`FramesAt` that these payloads, in order, are what was returned.

### The handshake (`Handshake`)

One pass of the loop is `top` (the two deadlines and the resend, in the order of
the code) and `read`. A read gives nothing, an error or a frame; `ReadIgnored`,
`ReadSettings`, `ReadRebooted` and `ReadComplete` are the arms of the `match`.
`info` holds, for each part, the configuration it came from, so that a mixture
shows. Time is in ticks. A pass takes less than one, since a read and a write
end with the port's timeout of 500 ms, so `Tick` may happen once in each pass.

The device is external: a radio sends its configuration, all of it and then the
id it was asked with, starts again when it is asked again, and forgets what it
was doing when it reboots, which it announces; its configuration changes only
with a reboot. It may still be in the middle of a dump for an earlier client. Any
device may send noise: text that looks like a frame, an echo of the request.
What is sent arrives; `FrameLine` is about that. Two requests never have the
same random id.

### The session loop (`Session`)

`at` is where `main` is: opening the port, shaking hands, writing channels,
waiting for the reboot, bridging. `ingress` and `attempted` are main's
variables, `delay` that of `open_serial`, `info` what the last handshake
captured. A handshake that succeeds captures the radio's settings as they are
(`OneConfig` of `Handshake`: unless the news of a reboot is behind them, which
the bridge reads and ends the session for); every way a handshake, a write, a
read or a bridge can fail is `PortLost`. The radio keeps what it is sent and
reboots for a new MQTT configuration, after any delay; a radio whose firmware
lacks MQTT drops the configuration. It may also crash at any time, and then
comes back with some of what was written since the handshake. The settings are
changed by nobody else, and it stays the same radio.

### The channels (`ChannelSetup`)

The part of `run_session` that `Session` abstracts to "the channels without
downlink". `Handshake` fills `info.channels` and the bridge's `channels`,
`MergeKnown` and `MergeNew` are the two branches of the loop in
`merge_channels`, `Listed` adds the downlink, `Install` is one write.
`SessionEnds` breaks a session off before any write, and the next one reads
Raven's files anew and starts from the radio as it then is. A file is missing,
broken, without an object, or an object whose `channels` are absent, null, of
the wrong kind, or a list; `Merged` is `deep_merge` as far as the channels go,
and `Load` every way to end up with none. A PSK is a size and a content, and
`Expand` gives the default key's variants their long form, so that a radio with
the short form and a file with the long one agree. A
channel past the last slot is written and lost (`Stores`, external).
`StartBridge` may fall back to phone ingress, as the MQTT setup does; the rest
of that is in `Session`. The role, which follows from the index, is left out.
The code goes through the radio's channels in the order of their slots;
`InOrder(S)` is the set with the one list that does so, and `Extended` makes of
such a list what is appended for the downlink.

The handshake pushes every channel frame (`serial.rs:257`), so a slot comes
twice when a dump for an earlier client, or the beginning of one that a resent
request broke off, is in front of the dump that completes it. `Heard` puts such
a rest in front of the slots. `merge_channels` changes the first entry it finds
and leaves the second alone; what the bridge enciphers with, and what is
written for the downlink, are both the first (`FirstFor`), so
`BridgeMatchesRadio` speaks of the first entry of each slot, and `RavenWins` of
the first with each name. (`Handshake` asks another question, whether what is
captured is of one configuration, and keeps the channels as a set.) The frames
of such a rest are taken to say what the radio has at the handshake; a rest that is
older than a write of the session before is not modelled.

A namekey that starts with its space gives a channel with an empty name
(`raven.rs:109-118`), `Unnamed`. The radio shows it by the name of its preset,
so it looks like the primary channel, the next session does not find it under
its empty name, and each session installs it in one more slot. The model does
the same. Nothing says what should become of such a channel; `NoTwins` excepts
it (`MayShare`, with the history variable `blank`), `BridgeMatchesRadio` asks
its key only, and the other channels keep all their guarantees.

`ChannelSetupAssumption` says that slot 0 is in use and that the preset has a
name. Channels of the radio may have one name from the start; `NoTwins` is about
the names writes give.

### The scan (`AutoDetect`)

`pc` is where `open_serial` is. `ListLinks` reads the directory of links,
`FollowLink` resolves one of them, `ListAcm` and `ListUsb` read the device nodes
that are not on the list yet; between any two of these steps something may be
plugged in, out or elsewhere. A link that leads nowhere by the time it is
followed is dropped, a node that is gone by then is kept, since the code falls
back to the path itself. Names are a stem and a number and sorted in that order
(`natural_key`). `Snapshot` is `busy_devices`; it walks `/proc` in one step, as
its order and duration only decide which of the changes around it it sees. A
`/proc`, a directory of open files or a link that cannot be read is passed over
(`autodetect.rs:125-151`): `hidden` are the ports held by programs that it cannot
look into, another user's for one, and `Seen` are the others.
`SkipBusy`, `OpenPort`, `OpenError`, `ProbeAnswers` and `ProbeFails` are the
ways through one round of `scan`, and `NoneAnswered` is the wait before the
next. The probe ends as `Handshake` says: with the configuration if it is the
radio, unless a fault comes between, and with nothing otherwise. A port that
another program took after the snapshot may still open here, or may not; one
that is open here nobody else gets, as the serial library opens it exclusively.
`opened`, `keeps` (what a program that can be looked into has held since the
snapshot) and `losses` are history. `README.md:33` promises that "a port that
another program already has open is skipped"; `SparesHeld` says it of the
programs the bridge can see, and of the others the code keeps no such promise.

`ImplementsOpening` maps the scan to `Session` with a fixed radio: `found` is
where the session goes on ("install"), everything else is "open"; the delay is
the delay, and a lost port is a fault. So what `Session` says of the program does
not depend on how the port is opened.

## 3. Runs

| Run | Bounds | Shows |
|---|---|---|
| `filter` | 5 keys, capacity 3, 7 acceptances a session | `InStep`, `NoEarlyRepeat`, and the refinement to `SeenWindow` |
| `threads` | 2 frames in batches of up to 2, 1 datagram, 3 intervals, nonce of 3 values | the safety and the liveness of the threads, the refinement to `BridgeRun`, no deadlock |
| `relay` | 3 mesh and 4 LAN packets, two tables, one misreading key, capacity 2, 4 log entries, 2 sessions | `OncePerWindow`, `LanOnlyStaysOnLan`, `PeerReadsRadio`, `RadioReadsPeer` |
| `relay_back_to_lan` | 2 mesh and 3 LAN packets, capacity 2, 1 session, 3 entries | the first finding |
| `relay_back_to_radio` | the same with 2 sessions | the second finding |
| `frame_line` | 3 byte values, limit 3, all 40 payloads, 3 frames | `Delivered`, `ImplementsFifo` |
| `frame_bytes` | 3 byte values, limit 3, all inputs of up to 11 bytes | `ReadsEveryFrame` |
| `handshake` | 2 configurations of 2 slots, 2 reboots, 2 frames on the line, timeout of 3 ticks, first frame within 2, resend after 1 | `OneConfig`, `NotForgotten`, `KnowsNode`, `GivesUpInTime`, `Returns`, the inductive invariant |
| `session` | 2 channels, fixed port and auto, any radio, 3 faults, the real delays | `ProxyReady`, `KeepsProxy`, `WaitsLonger`, `Settles`, the inductive invariant |
| `session_configures` | as `session`, 1 fault | the third finding |
| `channels` | 4 radios of 4 slots, 18 pairs of Raven files with lists of up to 3 channels, 3 sessions | `BridgeMatchesRadio`, `RavenWins`, `NoTwins`, `KeepsPlaces` |
| `scan` | a radio and another device, 4 nodes, 3 changes or faults, holders in sight or hidden, the real delays | `OpensOnce`, `SparesHeld`, `FindsRadio`, `ImplementsOpening` |

Why the bounds are enough. In `filter`, five keys against three places let each
key be evicted and come back, and seven acceptances let the window pass over
itself twice. In `threads`, two frames are the least with a batch, or with one
frame behind the other; the datagram is queued before, between or behind them. A
nonce of three values comes back to the ping value at the third tick. `relay`
needs four entries: a packet, the two others that fill the filter of two, and
the packet again; its tables hold channels with the same hash, with the same
hash and key, an open channel, and one channel alone. In `frame_line` the limit
3 with 3 byte values needs both length bytes for the largest frame, and payloads
contain the start bytes; in `frame_bytes`, eleven bytes hold two frames with
garbage, or a frame behind a length over the limit. In `handshake` a dump has
six frames and a line of two, so a reboot can hit it with some frames read, some
on the line and some not sent, twice; a probe has two resends before it must
give up, and the timeout is longer than that. In `session` three faults are
enough for one in each of three consecutive sessions, more than the two the
setup takes. In `channels` the lists name a channel twice, the unnamed primary
by its preset, one without a name beside it, and more new ones than there are
slots; the radios have a gap in their slots, two channels with one name, and
short and long forms of one key; every rest of a dump may come before the
handshake's own; each file can be missing,
broken or without an object, and the override can replace, delete, spoil or say
nothing of the channels; three sessions let one break off, the next find other
files, and a third read what both wrote. In `scan` one node sorts before the
other only by number, one is of the second stem, and one is reached by a link
alone. Three changes are a device that leaves and comes back elsewhere while
another program opens a port, or a device that is moved twice.

Deadlock is checked in the runs of the threads (`Over` is the end of a session),
of the line, of the handshake (`Ended`), of the session loop (`Rest` is a
bridge that goes on) and of the scan (`InSession` is the session that has the
port). The filter never stops. `Relay`, `FrameBytes` and
`ChannelSetup` stop only at their bounds (`MaxLog`, `MaxSessions`, `MaxInput`),
so it is switched off there.

Fairness. `FairSpec` of `BridgeThreads` gives weak fairness to each of the four
threads: every read has a timeout of 500 ms, the nap is 250 ms, and a write to
the port has a timeout, so no thread stays in a step for ever. Nothing is
assumed of the radio, of the network, of an error ever happening, or of
spawning. In `Handshake` the loop and the clock go on, and nothing is asked of
the device. In `Session` the program goes on: handshake and wait have deadlines
(`Returns`), and as the attempts to open the port never end, one finds a radio
that is there. In `AutoDetect` the scan goes on, since each of its probes ends
by `Returns`; a session whose device is gone ends, since its reads then fail
(`DeadReaderEndsRun` of the threads); and a link is put right at some time,
which is the work of the system and outside the program.

### Findings

The first two are the same sentence of `README.md:58` against the code: "Packets are
tracked by sender and ID so they aren't forwarded back to the direction they
came from."

* `NotBackToLan`: `handle_serial_frame` calls `recent.insert` and does not look
  at the answer (`bridge.rs:288`). A packet that another station multicast is
  remembered when it is taken from the LAN. The write of it to the radio fails,
  which is only logged, and when the radio then hears the packet over the air the
  bridge multicasts it to the LAN again. (A radio that did get the packet
  suppresses it as known; one that did not has nothing to suppress.)
* `NotBackToRadio`: a session starts with an empty filter (`bridge.rs:105`) and
  the old socket (`main.rs:270`). A packet forwarded to the LAN just before a
  reboot, whose copy is read just after it, is written back to the radio.

Within a session the way to the radio does keep the promise: `OncePerWindow`.

* `ConfiguresFirst`: "the bridge configures the radio on first start"
  (`README.md:68`). `mqtt_setup_attempted` is set before the configuration is
  written (`main.rs:235`). If that write fails, on a radio that has MQTT and
  could run it, the session ends, and the next one logs that the radio did not
  keep the configuration and falls back to phone ingress until the program is
  restarted, although the radio never got it.

## 4. Proofs

Everything below holds for every value of the constants, under the assumptions
named in the modules (`SessionAssumption`: the first delay is positive and not
over the maximum; `CapacityAssumption`: the capacity is positive;
`BoundsAssumption`: the bounds are naturals and the nonce has more than two
values; `FramingAssumption`: the start bytes are two different bytes and the
limit fits in two of them; `HandshakeAssumption`: the times are naturals, the
first frame is not expected later than the whole, and a resend is at least a
tick off; `RelayAssumption`: packets have their fields, a decoded payload has no
key, a table is a sequence; `AutoDetectAssumption`: devices and things are
finite sets of names, and the delays as in `Session`; `ChannelSetupAssumption`:
above).

**Filter** (`RecentPacketsProofs`). `NoEarlyRepeat` is not inductive: nothing in
it ties the history to the queue. `IInv` adds that queue and set agree
(`InStep`) and that the queue is the recent end of the history
(`OrderIsRecent`). What one `Insert` does to the queue is in two lemmas,
`InsertShifts` and `InsertKeepsInStep`, which `RelayProofs` uses too. From
`IInv` `SetIsWindow` follows: the set is the window of `SeenWindow`, so both
give the same answer to every call. Theorems `AlwaysIInv`, `StaysInStep`,
`NeverEarlyRepeat`, `Refinement`.

**Threads** (`BridgeThreadsProofs`). The safety properties lean on each other
through the state of the protocol, so `IInv` joins `TypeOK`, `Protocol` (how
flag, receiver, cause and joins follow the dispatching thread), `Batch` (what the
serial reader holds) and three of the properties. One lemma per action or group
of actions shows that it is preserved; `NoFrameLost` needs facts about `Tail` and
`Append` (`TailKeepsRest`, `AppendKeepsQueued`).

The refinement to `BridgeRun` goes thread by thread. What the mapping does is in
three lemmas, `PhaseFacts`, `WaitingFacts` and `ReadingMoves`. The serial
reader's read is `Take` (`SerialReadRun`): the frames of the batch wait from
then on, under the numbers that follow the last one read. A send moves a frame
from the batch to the channel and changes nothing of the run (`SentFramesWait`).
A reader that leaves for an error, or comes out of its call with the flag up, is
`Lose`. For `recv` the invariant is needed: the timer holds a sender, so there
is an event (`TimerHoldsSender`); `NoFrameLost` says that the oldest frame of
the channel is the next to be handled (`OldestFrame`), so the step is `Handle`,
and the rest goes on waiting (`HandledFrameLeaves`); an error in the channel
means by `EndHasCause` that its reader is gone, so the step is `EndForLoss`.
That there is no cause before there is an end is a conjunct of `Protocol` of its
own. At the last join all three threads are done, so nothing reads when the run
returns. Theorems `AlwaysIInv`, `NeverDeaf`, `NeverDisconnected`,
`EndsForCause`, `LeavesNoThread`, `FramesArrive`, `NonceSafe`, `LastTake`,
`RunRefinement`.

**Framing** (`FramingProofs`). `Delivered` becomes inductive with `InStep`,
which says for each position in the frame what the parser knows: after noise it
waits for the byte that comes, then follows the header, then holds the first
bytes of the payload. The arithmetic is in `LengthBytes`: the two length bytes
give the length back. Theorems `AlwaysIInv`, `FramesDelivered`, `Refinement`.

For arbitrary bytes, `ReadsEveryFrame` says that the headers met exist, and not
where the reader is among them. `BytesIInv` names both: `Found(H)` (the
headers `H` are met, and the frames returned are the payloads of the complete
ones) and `Placed(H)` (each parser state says whether a header may have started
at one of the last three bytes, and in a payload that the buffer is the part of
it behind the last header of `H`). What makes it inductive is `Started`: a place
counts as started only behind everything met, so a START1 that follows a START1
starts again, and one within a payload does not. `NoneMet` and `OneMet` say how
`H` follows the input, `FramesKept` and `FramesGrow` what that does to the
frames; `SearchStep`, `HeaderStep` and `PayloadStep` are the states of the
parser. Theorem `EveryFrameRead`.

**Session loop** (`SessionProofs`). `ProxyReady` speaks of the radio, which the
program last saw at the handshake. `IInv` bridges the gap: `StillSo` (what was
captured still holds, through writes and crashes), `Covered` (a channel without
downlink is on the list of what is still to be written), and `AttemptWorks`
(without a fault the one attempt turns the proxy on). One lemma for each of
these, one step per action. Theorems `AlwaysIInv`, `ProxyIsReady`,
`ProxyIsKept`, `DelayGrows`.

**Handlers** (`RelayProofs`). `OncePerWindow` speaks of the log, the filter of
its queue. `StillRemembered` joins them: a key this session accepted is in the
queue with only later ones behind it, or `Capacity` others came after it. When a
full queue drops a key, the keys behind it are `Capacity` different ones of the
log, which is a fact about cardinalities (`InsertKeepsInStep` and
`FiniteSetTheorems`). The content properties follow from `SentFits` (what left is
what the channels make of what came), as `Encrypt` and `Opener` both look for the
first channel that fits; that there is a first is the well-order of the naturals.
Theorems `AlwaysIInv`, `NeverTwice`, `NeverReturns`, `PeerAlwaysReads`,
`RadioAlwaysReads`.

**Handshake** (`HandshakeProofs`). That a success has one configuration
(`OneConfig`) is a fact about everything on its way. `Labelled` says that the
frames of the line can be labelled with the configuration they were sent under,
which changes only behind a reboot notice, and that in front of each end of an
answer the whole answer was delivered, in the line or already in `info`;
`Sending` says the same of what the radio has still to send. As a label changes
only with a reboot, what was captured is what the radio has if none is on the
line behind the end of the answer (`WholeAtEnd`). For the time,
`InPass` says how far it is in each part of a pass, and `Silent` that nothing a
port without a radio says counts as an answer. Theorems `AlwaysIInv`,
`GivesOneConfig`, `NeverForgotten`, `AlwaysKnowsNode`, `EndsInTime`.

**Scan** (`AutoDetectProofs`). `TriedOnce` (a port is on the list once, and not
any more when it was opened) is kept by each step of the listing, whatever
changed since the last; `KnownBusy` (what was held in sight at the snapshot and
is held still is known to be busy) ties `keeps` to the list. The refinement
theorem goes action by action: every step of the listing and of the round is a
stutter of `Session`, the wait is its failed attempt, and the probe that answers
its success. Theorems `AlwaysIInv`, `SparesWhatIsHeld`, `OpensEachOnce`,
`Refinement`.

**Channels** (`ChannelSetupProofs`). `NoTwins` and `KeepsPlaces` speak of the
radio alone, at every moment, and a session writes to it from a list it made
long before. `IInv` says what holds of that list and of the table while a
session is on its way (`Active`): the entries of the table for one index have
one name, and those for two have two but for what `NoTwins` excepts
(`WellNamed`), every slot in use and every entry of the list has its place in
the table under the name it is shown with (`AllPlaced`), and the radio will
agree with the first entry of the table for each slot once the list is
installed, of which the last entry for a slot counts (`Agrees`, with `Pending`
and `WillFit`). That the entry a merge changes is the first with its name and
also the first for its index is `ExistingFinds`. So a write cannot give a second
slot a name, and with an empty list, when the bridge starts, `Agrees` is
`BridgeMatchesRadio`. `Merging` follows the merge: the key of each first entry
with a name (`Counts`) is that of the last of Raven's channels merged so far
with the name, or the radio's, and every other entry has the radio's. That the
list of a proxy is complete (`ListedStep`) rests on `Captured`: until then
nothing was written, so what the handshake captured is what the radio has. A
session may break off anywhere, since nothing but the two properties is kept to
the next. Theorems `AlwaysIInv`, `NoTwinsEver`, `PlacesKept`, `BridgeMatches`,
`RavenAlwaysWins`.

Only model-checked is liveness (`StopReturns`, `DeadReaderEndsRun`,
`HeartbeatKeepsUp`, `Returns`, `Settles`, `FindsRadio`), which is out of the
prover's reach. Every invariant and every action property of the runs that pass
is a theorem, and so is every refinement. A proof that needs induction over data is
avoided by stating what a function does instead of computing it: the order of a
list as the set of the lists that are in order (`InOrder`), the frames of an
input by the places they are at (`FramesAt`), both of which TLC evaluates too.

## 5. Not modelled

* Bytes of protobuf messages, of AES, of the hash and of base64, and the text of
  JSON files: pure functions without state. What they do to the program (a key
  that opens or misreads, a hash that collides, a file that cannot be read) is.
* Socket options, the command line, logging: pure I/O.
* The list of ports of systems other than Linux (`autodetect.rs:55-69`): one
  call of a library.
* Write timeouts of the port: a write that blocks delays the dispatching
  thread, which the interleavings already allow.
* A radio that is exchanged for another, or set up by somebody else, while the
  program runs; a line that drops bytes.
* The unbounded channel and the events left in it when a session ends: the code
  promises nothing about them, and the model loses them as the code does.
* What readers that survive a failed spawn (`SpawnFails`) take from the next
  session; `LastTakeAfterFailedStart` says that it is one batch of frames,
  or one datagram, each, and the bytes of the frames they never complete.
* The mock port, the stress harness, packaging and CI are not the program.

## 6. Plan

Written so far, in this order: the filter, the threads, the handlers, the
framing, the session loop, the handshake, the channels, the scan, with the
proofs of all of them. What could be added:

1. A composition of the handlers with `BridgeRun` in place of the threads, and
   two bridges on one LAN, each with its own radio on one mesh.
2. An abstract specification of a handshake (one dump of the radio, or an end
   in time) that `Handshake` implements and `Session` and `AutoDetect` use.
3. The writes of `Session` as an abstraction of those of `ChannelSetup`, which
   has the table, the radio and the breaks but not the MQTT setup and reboots.
4. `NotBackToLan` and `NotBackToRadio` under the conditions that make them true,
   as a proposal for what the documentation could promise.
