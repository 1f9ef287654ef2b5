---------------------------- MODULE ChannelSetup ----------------------------
(***************************************************************************)
(* What a session makes of the radio's channels and Raven's: the part of   *)
(* run_session of src/src/main.rs before the MQTT setup, with              *)
(* load_raven_channels and merge_channels of src/src/raven.rs, one Raven   *)
(* channel and one write at a time.  A write may fail and end the session; *)
(* the next one reads Raven's files again and finds the radio as it is.    *)
(***************************************************************************)
EXTENDS Integers, Sequences, SequencesExt, FiniteSetsExt, FiniteSets

CONSTANTS
    Slots,          \* channel slots of the radio
    Names, Psks,    \* names of channels, and PSKs
    Tables,         \* channel tables a radio may start with
    Files,          \* what raven.conf and raven.conf.override may be
    DefaultName,    \* modem_preset_name of the radio's preset
    MaxSessions     \* bound: sessions

Slot == 0..(Slots - 1)

\* A slot without a channel, and a channel without a name of its own.
Disabled == [name |-> "disabled"]
Unnamed == "unnamed"

Settings == [name : Names, psk : Psks, downlink : BOOLEAN]

\* channel_display_name, with use_preset.
DisplayName(name) == IF name = Unnamed THEN DefaultName ELSE name

InUse(table) == {i \in Slot : table[i] # Disabled}

\* The value of "channels" in a file: "absent", "null", "wrong" (no list, or one
\* with an entry parse_namekey makes no name and key of), or a list.
Value(kind) == [kind |-> kind, list |-> <<>>]
Listing(list) == [kind |-> "list", list |-> list]

\* A file that is not there, one that cannot be read or is no JSON, one with
\* JSON that is no object, and one with an object.
Missing == [state |-> "missing", channels |-> Value("absent")]
Broken == [state |-> "broken", channels |-> Value("absent")]
NoObject == [state |-> "noObject", channels |-> Value("absent")]
Object(value) == [state |-> "object", channels |-> value]

\* The name is what precedes the last space of a namekey, and may be empty.
RavenChannels == [name : Names, psk : Psks]

File ==
    {f \in [state : {"missing", "broken", "noObject", "object"},
            channels : [kind : {"absent", "null", "wrong", "list"}, list : Seq(RavenChannels)]] :
        /\ f.state # "object" => f.channels.kind = "absent"
        /\ f.channels.kind # "list" => f.channels.list = <<>>}

ASSUME ChannelSetupAssumption ==
    /\ Slots \in Nat \ {0} /\ MaxSessions \in Nat
    /\ DefaultName \in Names \ {Unnamed}
    /\ Files \subseteq [base : File, over : File]
    /\ \A table \in Tables : table \in [Slot -> Settings \cup {Disabled}] /\ table[0] # Disabled

VARIABLES
    ingress,    \* ingress
    files,      \* Raven's two files, as this session found them
    raven,      \* the channels they give
    at,         \* where the session is
    radio,      \* the radio's channels: name, PSK and downlink, by slot
    info,       \* info.channels: the channels the handshake captured
    todo,       \* Raven's channels still to be merged
    channels,   \* channels: the table of the bridge
    maxIndex,   \* max_index
    toInstall,  \* to_install, and what is left of it
    session,    \* number of the session
    first,      \* the radio's channels before the first session (history)
    blank       \* Raven has had a channel without a name (history)

configVars == <<ingress, files, raven, first, blank>>
vars == <<configVars, at, radio, info, todo, channels, maxIndex, toInstall, session>>

\* expand_psk: none, a variant of the default key, or a key as it is.
Expand(psk) ==
    IF psk.size = 1 THEN [size |-> 16, of |-> <<"default", psk.of>>] ELSE psk

\* channel_key_from_proto.
Key(index, name, psk) == [index |-> index, name |-> name, key |-> Expand(psk)]

Init ==
    /\ ingress \in {"MqttProxy", "Phone"}
    /\ files = [base |-> Missing, over |-> Missing] /\ raven = <<>>
    /\ at = "handshake" /\ radio \in Tables /\ first = radio
    /\ info = <<>> /\ todo = <<>> /\ channels = <<>> /\ maxIndex = 0
    /\ toInstall = <<>> /\ session = 1 /\ blank = FALSE

-----------------------------------------------------------------------------
(* load_raven_channels. *)

\* Variant: an override without channels counts for none.
MergedAlways(f) == f.over.channels

\* deep_merge, as far as the channels go: null deletes, a value replaces.
\* (An object replaces too, and is then no list.)
Merged(f) ==
    IF f.over.state # "object" \/ f.over.channels.kind = "absent" THEN f.base.channels
    ELSE IF f.over.channels.kind = "null" THEN Value("absent") ELSE f.over.channels

\* No file, an error in one of them or in one entry: the radio's channels only.
Load(f) ==
    IF f.base.state = "object" /\ f.over.state # "broken" THEN Merged(f).list ELSE <<>>

\* The elements of S, in order: there is one such list.
InOrder(S) ==
    {s \in [1..Cardinality(S) -> S] :
        (\A m, n \in DOMAIN s : m < n => s[m] < s[n]) /\ \A i \in S : \E n \in DOMAIN s : s[n] = i}

\* What a dump of these slots may leave on the line before the one that completes
\* the handshake: the end of one for an earlier client, and the beginning of one
\* that a resent request broke off (Handshake).  Its slots come once more.
Heard(used, end, begin) == SubSeq(used, end, Len(used)) \o SubSeq(used, 1, begin) \o used

\* The handshake, the channel keys, and the start of merge_channels.  Every
\* channel frame is kept, also one for a slot that is known already.
Handshake ==
    /\ at = "handshake"
    /\ \E used \in InOrder(InUse(radio)) :
       \E end \in 1..(Len(used) + 1), begin \in 0..(Len(used) - 1) :
           LET slots == Heard(used, end, begin)
           IN  /\ info' = [n \in DOMAIN slots |-> [index |-> slots[n], settings |-> radio[slots[n]]]]
               /\ channels' = [n \in DOMAIN slots |->
                      Key(slots[n], DisplayName(radio[slots[n]].name), radio[slots[n]].psk)]
    /\ maxIndex' = Max(InUse(radio))
    /\ files' \in Files /\ raven' = Load(files')
    /\ blank' = (blank \/ \E rc \in ToSet(raven') : rc.name = Unnamed)
    /\ todo' = raven' /\ toInstall' = <<>> /\ at' = "merge"
    /\ UNCHANGED <<ingress, first, radio, session>>

-----------------------------------------------------------------------------
(* merge_channels. *)

\* make_channel_proto: all other settings are the defaults.
Proto(index, rc) ==
    [index |-> index, settings |-> [name |-> rc.name, psk |-> rc.psk, downlink |-> FALSE]]

\* Variant: Raven's channels are all added.
ExistingNever(rc) == 0

\* The first channel with the name of Raven's.  (The code also looks for an
\* empty name at index 0; a display name is never empty, and what Raven adds
\* without a name has another index.)
Existing(rc) == SelectInSeq(channels, LAMBDA c : c.name = rc.name)

Merge ==
    /\ at = "merge" /\ todo # <<>>
    /\ todo' = Tail(todo)
    /\ UNCHANGED <<configVars, at, radio, info, session>>

\* Variant: the radio's key counts.
MergeKnownKeeps ==
    /\ Merge /\ Existing(Head(todo)) # 0
    /\ UNCHANGED <<channels, toInstall, maxIndex>>

\* A known name gets Raven's key, if that is another; a second entry with the
\* name, or for the same slot, keeps what it has.
MergeKnown ==
    /\ Merge /\ Existing(Head(todo)) # 0
    /\ LET rc == Head(todo)
           n == Existing(rc)
       IN  IF channels[n].key = Expand(rc.psk)
           THEN UNCHANGED <<channels, toInstall>>
           ELSE /\ channels' = [channels EXCEPT ![n] = Key(@.index, rc.name, rc.psk)]
                /\ toInstall' = Append(toInstall, Proto(channels[n].index, rc))
    /\ UNCHANGED maxIndex

\* Variant: a new name gets the last index in use.
MergeNewInPlace ==
    /\ Merge /\ Existing(Head(todo)) = 0
    /\ channels' = Append(channels, Key(maxIndex, Head(todo).name, Head(todo).psk))
    /\ toInstall' = Append(toInstall, Proto(maxIndex, Head(todo)))
    /\ UNCHANGED maxIndex

\* A new name gets the next index.
MergeNew ==
    /\ Merge /\ Existing(Head(todo)) = 0
    /\ maxIndex' = maxIndex + 1
    /\ channels' = Append(channels, Key(maxIndex', Head(todo).name, Head(todo).psk))
    /\ toInstall' = Append(toInstall, Proto(maxIndex', Head(todo)))

-----------------------------------------------------------------------------
(* run_session, with what it makes of the lists. *)

\* The list with more of the radio's channels, all of it with downlink.
Extended(more) ==
    LET all == toInstall \o [n \in DOMAIN more |-> info[more[n]]]
    IN  [n \in DOMAIN all |-> [all[n] EXCEPT !.settings.downlink = TRUE]]

\* Variant: a channel that needs downlink is listed although it is already.
WithDownlinkTwice ==
    {Extended(more) : more \in InOrder({n \in DOMAIN info : ~info[n].settings.downlink})}

\* The first entry of a list for its slot.
FirstFor(list, n) == \A m \in 1..(n - 1) : list[m].index # list[n].index

\* What is installed in proxy mode: also the radio's channels that lack
\* downlink, each slot once and unless it is on the list.
WithDownlink ==
    LET lacks(ch) == ~ch.settings.downlink /\ \A c \in ToSet(toInstall) : c.index # ch.index
    IN  {Extended(more) :
             more \in InOrder({n \in DOMAIN info : FirstFor(info, n) /\ lacks(info[n])})}

Listed ==
    /\ at = "merge" /\ todo = <<>>
    /\ IF ingress = "MqttProxy" THEN toInstall' \in WithDownlink ELSE UNCHANGED toInstall
    /\ at' = "install"
    /\ UNCHANGED <<configVars, radio, info, todo, channels, maxIndex, session>>

\* The radio stores a channel it has a slot for (external).
Stores(ch) ==
    IF ch.index \in Slot THEN [radio EXCEPT ![ch.index] = ch.settings] ELSE radio

\* send_set_channel.
Install ==
    /\ at = "install" /\ toInstall # <<>>
    /\ radio' = Stores(Head(toInstall)) /\ toInstall' = Tail(toInstall)
    /\ UNCHANGED <<configVars, at, info, todo, channels, maxIndex, session>>

\* Bridge::new, with this session's channels; before it, the MQTT setup may
\* have given the proxy up.
StartBridge ==
    /\ at = "install" /\ toInstall = <<>>
    /\ at' = "bridge" /\ ingress' \in {ingress, "Phone"}
    /\ UNCHANGED <<files, raven, first, blank, radio, info, todo, channels, maxIndex, toInstall, session>>

\* A write fails, or the bridge ends: the next session starts over.
SessionEnds ==
    /\ at \in {"install", "bridge"} /\ session < MaxSessions
    /\ at' = "handshake" /\ session' = session + 1
    /\ UNCHANGED <<configVars, radio, info, todo, channels, maxIndex, toInstall>>

Next ==
    \/ Handshake \/ MergeKnown \/ MergeNew \/ Listed \/ Install \/ StartBridge \/ SessionEnds

Spec == Init /\ [][Next]_vars

-----------------------------------------------------------------------------
(* Properties. *)

\* A bridge only runs with channels the radio has too, under the same index, name
\* and key, and in proxy mode with downlink: what one enciphers, the other can
\* read. It enciphers with the first entry for an index (bridge.rs:380-407), so a
\* slot captured twice does not bring a key back that Raven has replaced.  Only
\* a channel for which the radio has no slot is the bridge's alone, and one that
\* Raven gives no name the radio shows under another (main.rs:185-223,
\* raven.rs:136-200).
BridgeMatchesRadio ==
    at = "bridge" =>
        \A n \in DOMAIN channels :
            LET c == channels[n] IN
            FirstFor(channels, n) /\ c.index \in Slot =>
                /\ radio[c.index] # Disabled
                /\ c.name # Unnamed => DisplayName(radio[c.index].name) = c.name
                /\ Expand(radio[c.index].psk) = c.key
                /\ ingress = "MqttProxy" => radio[c.index].downlink

\* The channels of Raven that count: the override's, if it has a say in them.
InForce ==
    LET from == IF files.over.channels.kind = "absent" THEN files.base ELSE files.over
        lost == files.base.state # "object" \/ "broken" \in {files.base.state, files.over.state}
    IN  IF lost THEN <<>> ELSE from.channels.list

\* The table of the bridge is what the radio had when the session began, with
\* Raven's key in the first entry with each name of the Raven channels in force,
\* the last one for a name that comes twice, and nothing besides the two
\* (README.md:83-87, raven.rs:27-52, 146-194).
RavenWins ==
    LET names == {rc.name : rc \in ToSet(InForce)}
        had == {Key(ch.index, DisplayName(ch.settings.name), ch.settings.psk) : ch \in ToSet(info)}
    IN  at = "bridge" =>
            /\ {c.name : c \in ToSet(channels)} = names \cup {c.name : c \in had}
            /\ \A n \in DOMAIN channels :
                   LET c == channels[n] IN
                   IF c.name \in names /\ \A m \in 1..(n - 1) : channels[m].name # c.name
                   THEN c.key = Expand(InForce[Max({k \in DOMAIN InForce : InForce[k].name = c.name})].psk)
                   ELSE c \in had

\* Two slots have shown one name from the start, or a channel without a name of
\* its own is shown by the preset's.
MayShare(i, j, name) ==
    \/ blank /\ name = DefaultName
    \/ {i, j} \subseteq InUse(first) /\ DisplayName(first[i].name) = DisplayName(first[j].name)

\* No write gives a name to a second slot, whenever a session breaks off, also
\* when the handshake captured a slot twice: channels that had different names
\* keep them. Only a channel that Raven gave no name does not count: a radio
\* shows it by its preset's name, under which other channels may go (raven.rs:149-194).
NoTwins ==
    \A i, j \in InUse(radio) :
        i # j /\ DisplayName(radio[i].name) = DisplayName(radio[j].name)
            => MayShare(i, j, DisplayName(radio[i].name))

\* A channel keeps its slot and its name from session to session, also when
\* Raven has more channels than the radio has slots: whoever uses it on the
\* mesh still finds it (raven.rs:158-176).
KeepsPlaces ==
    \A i \in Slot :
        first[i] # Disabled
            => radio[i] # Disabled /\ DisplayName(radio[i].name) = DisplayName(first[i].name)
=============================================================================
