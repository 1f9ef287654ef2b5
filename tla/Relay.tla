-------------------------------- MODULE Relay --------------------------------
(***************************************************************************)
(* What the bridge does with packets: handle_serial_frame and              *)
(* handle_udp_packet of src/src/bridge.rs, with the duplicate filter, the  *)
(* channel table and the encryption between the two sides.  One handler    *)
(* runs at a time, on the dispatching thread of module BridgeThreads.      *)
(*                                                                         *)
(* The radio and the other stations of the LAN are external: the radio     *)
(* hands over every packet it learns once and says where it came from, and *)
(* whatever is multicast can be delivered any number of times, in any      *)
(* order, late, or never.                                                  *)
(***************************************************************************)
EXTENDS RecentPackets, FiniteSets, SequencesExt

CONSTANTS
    MyNode,         \* config.my_node_num
    Broadcast,      \* BROADCAST_ADDR
    NoKey,          \* an empty channel key
    Tables,         \* the channel tables a handshake may bring, sequences of
                    \* [index, name, hash, key]
    FalseDecode,    \* pairs <<used, tried>>: deciphering with the tried key
                    \* what the used key enciphered happens to parse as Data
    MeshPackets,    \* packets the radio may hear over the air
    PeerPackets,    \* packets other stations may multicast
    MaxLog,         \* bound: handler calls that record a packet
    MaxSessions     \* bound: sessions

Addr(p) == <<p.from, p.id>>

Field == {"from", "id", "to", "channel", "pki", "transport", "payload"}

Decoded(d) == [kind |-> "decoded", data |-> d, key |-> NoKey]
Encrypted(d, k) == [kind |-> "encrypted", data |-> d, key |-> k]
Garbage == "garbage"

ASSUME RelayAssumption ==
    /\ \A p \in MeshPackets \cup PeerPackets : DOMAIN p = Field
    /\ \A p \in MeshPackets :
          p.payload.kind = "decoded" => p.payload = Decoded(p.payload.data)
    /\ \A t \in Tables : t \in Seq(ToSet(t))
    /\ Key = {Addr(p) : p \in MeshPackets \cup PeerPackets}
    /\ MaxLog \in Nat /\ MaxSessions \in Nat

VARIABLES
    channels,       \* self.channels
    ingress,        \* self.config.ingress
    lan,            \* every packet multicast so far, or by others at any time
    radioKnows,     \* packets the radio has already learned
    toBridge,       \* FromRadio packets on their way to the bridge
    log,            \* what the handlers did, in order (history)
    session         \* how many sessions there were

vars == <<order, set, channels, ingress, lan, radioKnows, toBridge, log, session>>

\* An entry of the log: packet `was` arrived and `sent` left towards `to`;
\* new is the answer of the filter.
Entry(to, was, sent) ==
    [to |-> to, was |-> was, sent |-> sent, new |-> Accepts(Addr(was)), session |-> session]

Record(e) == Len(log) < MaxLog /\ log' = Append(log, e)

Init ==
    /\ Empty
    /\ channels \in Tables /\ ingress \in {"MqttProxy", "Phone"}
    /\ lan = PeerPackets /\ radioKnows = {} /\ toBridge = {}
    /\ log = <<>> /\ session = 1

-----------------------------------------------------------------------------
(* Channels and keys. *)

\* Variant: the packet keeps its channel index.
EncryptKeepsIndex(p) ==
    LET i == SelectInSeq(channels, LAMBDA c : c.index = p.channel) IN
    IF p.payload.kind # "decoded" \/ i = 0 THEN p
    ELSE IF channels[i].key = NoKey THEN p
    ELSE [p EXCEPT !.payload = Encrypted(p.payload.data, channels[i].key)]

\* encrypt_packet: only a decoded payload on a known channel with a key is
\* enciphered, and then the channel's hash replaces its index.
Encrypt(p) ==
    LET i == SelectInSeq(channels, LAMBDA c : c.index = p.channel) IN
    IF p.payload.kind # "decoded" \/ i = 0 THEN p
    ELSE IF channels[i].key = NoKey THEN p
    ELSE [p EXCEPT !.payload = Encrypted(p.payload.data, channels[i].key),
                   !.channel = channels[i].hash]

\* Variant: the first channel with the hash is the only one tried.
OpenerFirstHash(p) ==
    SelectInSeq(channels, LAMBDA c : c.hash = p.channel /\ c.key # NoKey)

\* The position of the first channel whose key gives a parsable payload, 0 if none.
Opener(p) ==
    SelectInSeq(channels, LAMBDA c :
        /\ c.hash = p.channel /\ c.key # NoKey
        /\ c.key = p.payload.key \/ <<p.payload.key, c.key>> \in FalseDecode)

\* decrypt_packet, for a packet some channel opens.
Decrypt(p) ==
    LET c == channels[Opener(p)] IN
    [p EXCEPT !.payload = Decoded(IF c.key = p.payload.key THEN p.payload.data ELSE Garbage),
              !.channel = c.index]

\* downlink_channel_id finds a name: that of a channel with this hash, or
\* "PKI" for a direct message.
HasDownlink(p) ==
    \/ \E i \in DOMAIN channels : channels[i].hash = p.channel
    \/ p.pki
    \/ p.channel = 0 /\ p.to # Broadcast

-----------------------------------------------------------------------------
(* From the radio to the LAN. *)

\* The marks of a packet that came to the radio from the LAN.
FromLan == {"udp", "mqtt"}

\* Variant: the packet is not remembered.
NoInsert(p) == UNCHANGED recentVars

\* transport_mechanism and pki_encrypted let the packet through.
Forwards(p) == p.transport \notin FromLan /\ ~p.pki

\* self.recent.insert: the answer is not looked at.
Remember(p) == Insert(Addr(p))

\* handle_serial_frame, for a frame that holds a packet.  A failed multicast
\* is only logged, after the packet was remembered.
HandleSerialFrame(p) ==
    /\ p \in toBridge /\ toBridge' = toBridge \ {p}
    /\ IF Forwards(p)
       THEN /\ Remember(p)
            /\ Record(Entry("lan", p, Encrypt(p)))
            /\ \E sent \in BOOLEAN : lan' = IF sent THEN lan \cup {Encrypt(p)} ELSE lan
       ELSE UNCHANGED <<order, set, log, lan>>
    /\ UNCHANGED <<channels, ingress, radioKnows, session>>

-----------------------------------------------------------------------------
(* From the LAN to the radio. *)

\* Variant: a refused packet is handed over all the same.
RefusesNothing(p) ==
    p.payload.kind # "encrypted" \/ p.from \in {0, MyNode}

\* The packets handle_udp_packet drops: not enciphered, from this radio, or
\* recently seen.
Refuses(p) ==
    \/ p.payload.kind # "encrypted"
    \/ p.from \in {0, MyNode}
    \/ ~Accepts(Addr(p))

\* The packet can be put in the form the radio takes.
Deliverable(p) == IF ingress = "MqttProxy" THEN HasDownlink(p) ELSE Opener(p) # 0

\* Variant: the phone's packet keeps the mark its sender's radio gave it.
ForRadioUnstamped(p) == IF ingress = "MqttProxy" THEN p ELSE Decrypt(p)

\* What is written: the packet as received, for the MQTT proxy; decoded and
\* marked as coming from the LAN, as a phone's packet.
ForRadio(p) ==
    IF ingress = "MqttProxy" THEN p ELSE [Decrypt(p) EXCEPT !.transport = "udp"]

\* What the radio makes of a packet it is handed: its MQTT client marks what
\* comes out of an envelope, a phone's packet keeps the mark it was written
\* with (external).
Marked(q) == IF ingress = "MqttProxy" THEN [q EXCEPT !.transport = "mqtt"] ELSE q

\* The radio takes a packet it does not know, and may report it back (external).
Learns(q) ==
    /\ radioKnows' = radioKnows \cup {Addr(q)}
    /\ toBridge' = IF Addr(q) \in radioKnows THEN toBridge ELSE toBridge \cup {Marked(q)}

\* handle_udp_packet.  The packet is remembered before it is known whether
\* it can be delivered, and whether the write succeeds.
HandleUdpPacket(p) ==
    /\ p \in lan
    /\ ~Refuses(p)
    /\ Insert(Addr(p))
    /\ IF Deliverable(p)
       THEN /\ Record(Entry("radio", p, ForRadio(p)))
            /\ \/ Learns(ForRadio(p))
               \/ UNCHANGED <<radioKnows, toBridge>>    \* the write failed
       ELSE /\ Record(Entry("nowhere", p, p))
            /\ UNCHANGED <<radioKnows, toBridge>>
    /\ UNCHANGED <<channels, ingress, lan, session>>

-----------------------------------------------------------------------------
(* Sessions and surroundings. *)

\* A session ended and main has started the next one: a new handshake, a new
\* Bridge, an empty filter, the same socket.  What the radio was sending is
\* lost or not, and a rebooted radio knows nothing.
NewSession ==
    /\ session < MaxSessions /\ session' = session + 1
    /\ Forget
    /\ channels' \in Tables /\ ingress' \in {ingress, "Phone"}
    /\ radioKnows' \in {radioKnows, {}}
    /\ toBridge' \in {toBridge, {}}
    /\ UNCHANGED <<lan, log>>

\* The radio hears a packet over the air for the first time.
RadioHears(p) ==
    /\ p \in MeshPackets /\ Addr(p) \notin radioKnows
    /\ radioKnows' = radioKnows \cup {Addr(p)}
    /\ toBridge' = toBridge \cup {p}
    /\ UNCHANGED <<order, set, channels, ingress, lan, log, session>>

Next ==
    \/ \E p \in toBridge : HandleSerialFrame(p)
    \/ \E p \in lan : HandleUdpPacket(p)
    \/ NewSession
    \/ \E p \in MeshPackets : RadioHears(p)

Spec == Init /\ [][Next]_vars

-----------------------------------------------------------------------------
(* Properties. *)

Packet == MeshPackets \cup PeerPackets

\* The packets the filter accepted between two entries of the log.
Between(i, j) == {Addr(log[m].was) : m \in {n \in (i + 1)..(j - 1) : log[n].new}}

Again(i, j) == i < j /\ Addr(log[i].was) = Addr(log[j].was)

\* A packet the bridge has accepted from either side is not written to the
\* radio again in this session until Capacity others were accepted: not its
\* multicast echo, not a duplicate datagram, not one that was dropped or
\* whose write failed (bridge.rs:287-288, 325-329).
OncePerWindow ==
    \A i, j \in 1..Len(log) :
        Again(i, j) /\ log[i].new /\ log[j].to = "radio" /\ log[i].session = log[j].session
            => Cardinality(Between(i, j)) >= Capacity

\* What only the LAN has sent does not come back to it through the radio: the
\* bridge stamps what it writes as a phone, and looks for that stamp, and for
\* the radio's own on what came through its MQTT client, before it multicasts
\* (bridge.rs:275-280, 358).
LanOnlyStaysOnLan ==
    \A i \in 1..Len(log) :
        log[i].to = "lan" => \E p \in MeshPackets : Addr(p) = Addr(log[i].was)

\* A wrong key opens the packet: it comes before the right one, or instead
\* of it, and what it gives happens to parse.
Misread(p) == <<p.payload.key, channels[Opener(p)].key>> \in FalseDecode

\* The channels with these indices have the same hash and the same key, as two
\* names with the same letters and one PSK do: no receiver can tell them apart.
Alike(index, other) ==
    \E c, d \in DOMAIN channels :
        /\ channels[c].index = index /\ channels[d].index = other
        /\ channels[c].hash = channels[d].hash /\ channels[c].key = channels[d].key

\* A station with the same channels reads in the datagram what the radio
\* said, on the channel the radio said it or one that nobody can tell from it,
\* also when channels share a hash (encrypt_packet bridge.rs:380-407 against
\* decrypt_packet 411-447).
PeerReadsRadio ==
    \A i \in 1..Len(log) :
        LET e == log[i] IN
        /\ e.to = "lan" /\ e.session = session
        /\ e.was.payload.kind = "decoded" /\ e.sent.payload.kind = "encrypted"
        => /\ Opener(e.sent) # 0
           /\ \/ Misread(e.sent)
              \/ /\ Decrypt(e.sent).payload = e.was.payload
                 /\ Alike(Decrypt(e.sent).channel, e.was.channel)

\* A packet written as the phone's holds what its sender enciphered, and
\* names the channel with the sender's key, unless a wrong key gave a
\* parsable payload (bridge.rs:411-447).
RadioReadsPeer ==
    \A i \in 1..Len(log) :
        LET e == log[i] IN
        e.to = "radio" /\ e.session = session /\ e.sent.payload.kind = "decoded"
        => \/ Misread(e.was)
           \/ /\ e.sent.payload.data = e.was.payload.data
              /\ \E c \in DOMAIN channels :
                    channels[c].index = e.sent.channel /\ channels[c].key = e.was.payload.key

\* README.md:58 for the way to the LAN: a packet that came from the LAN is
\* not sent back to it.  The code does not look at the filter on this way:
\* the answer of insert is dropped (bridge.rs:288).
NotBackToLan ==
    \A i, j \in 1..Len(log) :
        Again(i, j) /\ log[i].to = "radio" /\ log[i].session = log[j].session
            => log[j].to # "lan"

\* README.md:58 for the way to the radio, without regard to sessions: a
\* packet that came from the radio is not written back to it.  A new session
\* has an empty filter and the old socket (bridge.rs:105, main.rs:270).
NotBackToRadio ==
    \A i, j \in 1..Len(log) :
        Again(i, j) /\ log[i].to = "lan" /\ log[j].to = "radio"
            => Cardinality(Between(i, j)) >= Capacity

-----------------------------------------------------------------------------
(* What holds in between, from which the properties follow. *)

\* Types, as far as the proofs need them: what travels has all its fields.
TypeOK ==
    /\ order \in Seq(Key) /\ channels \in Tables /\ session \in Nat
    /\ log \in Seq(ToSet(log))
    /\ \A p \in lan \cup toBridge : DOMAIN p = Field /\ Addr(p) \in Key
    /\ \A i \in 1..Len(log) : log[i].session \in 0..session

\* What the radio was handed carries a mark of the LAN, so that only what it
\* heard elsewhere leaves for the LAN.
OnlyHeardLeaves ==
    /\ \A p \in toBridge : p.transport \notin FromLan => p \in MeshPackets
    /\ \A i \in 1..Len(log) : log[i].to = "lan" => log[i].was \in MeshPackets

\* What this session sent is what its channels made of the packet.
SentFits ==
    \A i \in 1..Len(log) :
        LET e == log[i] IN
        /\ e.to = "lan" /\ e.session = session => e.sent = Encrypt(e.was)
        /\ e.to = "radio" /\ e.session = session =>
              /\ DOMAIN e.was = Field /\ e.was.payload.kind = "encrypted"
              /\ \/ e.sent = e.was
                 \/ Opener(e.was) # 0 /\ e.sent = [Decrypt(e.was) EXCEPT !.transport = "udp"]

\* A key this session accepted is in the filter, and the keys behind it were
\* accepted after it; or Capacity others were.
StillRemembered ==
    \A i \in 1..Len(log) :
        log[i].new /\ log[i].session = session =>
            \/ Cardinality(Between(i, Len(log) + 1)) >= Capacity
            \/ \E q \in 1..Len(order) :
                  /\ order[q] = Addr(log[i].was)
                  /\ \A r \in (q + 1)..Len(order) : order[r] \in Between(i, Len(log) + 1)

\* The inductive invariant.
IInv ==
    TypeOK /\ InStep /\ OnlyHeardLeaves /\ SentFits /\ StillRemembered /\ OncePerWindow
=============================================================================
