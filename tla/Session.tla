------------------------------- MODULE Session -------------------------------
(***************************************************************************)
(* The life of the program: main, open_serial and run_session of           *)
(* src/src/main.rs, with wait_for_reboot of src/src/serial.rs.  One        *)
(* session follows the other: open the port, shake hands, write to the     *)
(* radio what it needs, bridge.  What a handshake does is module Handshake *)
(* and what a bridge does is module BridgeThreads; here each is a step     *)
(* with its possible ends.  The radio is external: it keeps what it is     *)
(* sent, if its firmware has the feature, and reboots for it.              *)
(***************************************************************************)
EXTENDS Integers, FiniteSets

CONSTANTS
    Channel,        \* the radio's channels
    CliIngress,     \* --ingress
    Reconnect,      \* RECONNECT_DELAY, 2 s
    MaxReopen,      \* MAX_REOPEN_DELAY, 30 s
    MaxFaults       \* bound: lost ports, failed writes, reboots without cause

Ingress == {"MqttProxy", "Phone"}

ASSUME SessionAssumption ==
    /\ CliIngress \in Ingress
    /\ Reconnect \in Nat /\ MaxReopen \in Nat
    /\ 0 < Reconnect /\ Reconnect <= MaxReopen
    /\ MaxFaults \in Nat

VARIABLES
    auto,       \* --port auto
    at,         \* where main is
    delay,      \* the delay of open_serial
    info,       \* what the last handshake captured of the radio's settings
    toInstall,  \* channels to be written to the radio
    ingress,    \* ingress of main
    attempted,  \* mqtt_setup_attempted of main
    radio,      \* the radio's settings: proxy enabled, channels with downlink
    hasMqtt,    \* the firmware is built with MQTT
    due,        \* the radio is going to reboot for its new configuration
    said,       \* a reboot it has announced and main has not read of
    configured, \* the radio was sent an MQTT configuration (history)
    slow,       \* a wait for a reboot was given up (history)
    faults      \* faults so far (history)

vars == <<auto, at, delay, info, toInstall, ingress, attempted, radio, hasMqtt,
          due, said, configured, slow, faults>>

mainVars == <<toInstall, ingress, attempted, slow>>
radioVars == <<radio, hasMqtt, due, said, configured>>

Settings == [proxy : BOOLEAN, downlink : SUBSET Channel]

Init ==
    /\ auto \in BOOLEAN /\ at = "open" /\ delay = Reconnect
    /\ radio \in Settings /\ info = radio
    /\ hasMqtt \in BOOLEAN /\ (radio.proxy => hasMqtt)
    /\ toInstall = {} /\ ingress = CliIngress /\ attempted = FALSE
    /\ due = FALSE /\ said = FALSE /\ configured = FALSE /\ slow = FALSE /\ faults = 0

\* What went wrong happens at most MaxFaults times.
Fault == faults < MaxFaults /\ faults' = faults + 1

-----------------------------------------------------------------------------
(* open_serial. *)

\* Variant: the delay is not limited.
LongerUnlimited(d) == 2 * d

\* (delay * 2).min(MAX_REOPEN_DELAY)
Longer(d) == IF 2 * d < MaxReopen THEN 2 * d ELSE MaxReopen

\* The port does not open, or no port answers the probe.
OpenFails ==
    /\ at = "open"
    /\ delay' = Longer(delay)
    /\ UNCHANGED <<auto, at, info, mainVars, radioVars, faults>>

\* A fixed port opens, and the handshake is still to come.
OpenFixed ==
    /\ at = "open" /\ ~auto
    /\ at' = "handshake"
    /\ UNCHANGED <<auto, delay, info, mainVars, radioVars, faults>>

\* Variant: channels that need downlink are left alone.
MissingNothing(settings) == {}

\* The channels the loop over info.channels collects (beside Raven's).
Missing(settings) == IF ingress = "MqttProxy" THEN Channel \ settings.downlink ELSE {}

\* A handshake captures the radio's settings.
Captured ==
    /\ at' = "install"
    /\ info' = radio
    /\ toInstall' = Missing(radio)
    /\ UNCHANGED <<auto, delay, ingress, attempted, slow, radioVars, faults>>

\* The probe that finds the port is the handshake of the session.
Detect == at = "open" /\ auto /\ Captured

\* Variant: a second handshake changes nothing of what is known.
HandshakeStale ==
    /\ at = "handshake" /\ at' = "install"
    /\ UNCHANGED <<auto, delay, info, mainVars, radioVars, faults>>

Handshake == at = "handshake" /\ Captured

\* main waits and opens a port with the delay of a fresh open_serial; what
\* the old port still held is gone.
Reopen ==
    /\ at' = "open" /\ delay' = Reconnect
    /\ said' = FALSE

\* A handshake, a write or a read fails, and so does a bridge that loses the
\* port or cannot start its threads; or the reboot that is due takes the
\* port away.
PortLost ==
    /\ at \in {"handshake", "install", "wait", "bridge"}
    /\ Reopen
    /\ \/ Fault /\ UNCHANGED due
       \/ due /\ due' = FALSE /\ UNCHANGED faults
    /\ UNCHANGED <<auto, info, mainVars, radio, hasMqtt, configured>>

-----------------------------------------------------------------------------
(* What the radio is told. *)

\* send_set_channel with downlink enabled, for one of the channels.  A radio
\* that has just rebooted may have missed it.
Install(c) ==
    /\ at = "install" /\ c \in toInstall
    /\ toInstall' = toInstall \ {c}
    /\ \/ radio' = [radio EXCEPT !.downlink = @ \cup {c}]
       \/ said /\ UNCHANGED radio
    /\ UNCHANGED <<auto, at, delay, info, ingress, attempted, slow, hasMqtt, due, said, configured, faults>>

Installed == at = "install" /\ toInstall = {}

\* The proxy is not wanted, or is on already.
StartBridge ==
    /\ Installed
    /\ ingress = "Phone" \/ info.proxy
    /\ at' = "bridge"
    /\ UNCHANGED <<auto, delay, info, mainVars, radioVars, faults>>

\* The proxy is off although the radio was to enable it.
FallBack ==
    /\ Installed
    /\ ingress = "MqttProxy" /\ ~info.proxy /\ attempted
    /\ ingress' = "Phone" /\ at' = "bridge"
    /\ UNCHANGED <<auto, delay, info, toInstall, attempted, slow, radioVars, faults>>

\* The radio gets the configuration: with MQTT it keeps it and will reboot,
\* without MQTT it may reboot all the same (external).
Configure ==
    /\ configured' = TRUE
    /\ \/ /\ radio' = [radio EXCEPT !.proxy = hasMqtt]
          /\ due' \in IF hasMqtt THEN {TRUE} ELSE {due, TRUE}
       \/ said /\ UNCHANGED <<radio, due>>
    /\ UNCHANGED <<hasMqtt, said>>

\* The configuration is written, or the write fails and ends the session.
SendMqttConfig ==
    \/ at' = "wait" /\ Configure /\ UNCHANGED <<delay, faults>>
    \/ Reopen /\ Fault /\ UNCHANGED <<radio, hasMqtt, due, configured>>

\* Variant: the attempt is not remembered.
SetUpForgotten ==
    /\ Installed
    /\ ingress = "MqttProxy" /\ ~info.proxy /\ ~attempted
    /\ SendMqttConfig
    /\ UNCHANGED <<auto, info, mainVars>>

\* The proxy is to be enabled.  The attempt counts before the configuration
\* is written.
SetUp ==
    /\ Installed
    /\ ingress = "MqttProxy" /\ ~info.proxy /\ ~attempted
    /\ attempted' = TRUE
    /\ SendMqttConfig
    /\ UNCHANGED <<auto, info, toInstall, ingress, slow>>

\* wait_for_reboot or the bridge hears of a reboot: the port is kept.
SeeReboot ==
    /\ at \in {"wait", "bridge"} /\ said
    /\ at' = "handshake" /\ said' = FALSE
    /\ UNCHANGED <<auto, delay, info, mainVars, radio, hasMqtt, due, configured, faults>>

\* MQTT_REBOOT_TIMEOUT is over without a word of a reboot.
WaitTooLong ==
    /\ at = "wait" /\ ~said
    /\ ingress' = "Phone" /\ at' = "bridge" /\ slow' = TRUE
    /\ UNCHANGED <<auto, delay, info, toInstall, attempted, radioVars, faults>>

\* The bridge loses the socket: the program exits.
UdpFailed ==
    /\ at = "bridge" /\ Fault
    /\ at' = "exited"
    /\ UNCHANGED <<auto, delay, info, mainVars, radioVars>>

-----------------------------------------------------------------------------
(* The radio (external). *)

\* What a radio that crashes may still have of what this session wrote.
Kept ==
    {r \in Settings :
        /\ r.proxy \in {info.proxy, radio.proxy}
        /\ info.downlink \subseteq r.downlink /\ r.downlink \subseteq radio.downlink}

\* It reboots, because it has to or for no reason, and says so; an open
\* handshake takes note by itself and starts over.
RadioReboots ==
    /\ \/ due /\ due' = FALSE /\ UNCHANGED <<radio, faults>>
       \/ /\ Fault /\ due' = FALSE
          /\ radio' \in IF at \in {"install", "wait", "bridge"} THEN Kept ELSE {radio}
    /\ said' = (at \in {"install", "wait", "bridge"})
    /\ UNCHANGED <<auto, at, delay, info, mainVars, hasMqtt, configured>>

-----------------------------------------------------------------------------
Proceed ==
    \/ OpenFixed \/ Detect \/ Handshake
    \/ (\E c \in Channel : Install(c))
    \/ StartBridge \/ FallBack \/ SetUp \/ SeeReboot \/ WaitTooLong

\* The bridge goes on, or the program has exited.
Rest == at \in {"bridge", "exited"} /\ UNCHANGED vars

Next == Proceed \/ OpenFails \/ PortLost \/ UdpFailed \/ RadioReboots \/ Rest

Spec == Init /\ [][Next]_vars

\* main is never stuck: a handshake and a wait for a reboot have deadlines,
\* writes a timeout, and a radio that is there is found by one of the
\* attempts to open its port, which never end.
FairSpec == Spec /\ WF_vars(Proceed)

-----------------------------------------------------------------------------
(* Properties. *)

TypeOK ==
    /\ auto \in BOOLEAN
    /\ at \in {"open", "handshake", "install", "wait", "bridge", "exited"}
    /\ delay \in Reconnect..MaxReopen
    /\ info \in Settings /\ toInstall \in SUBSET Channel
    /\ ingress \in Ingress /\ attempted \in BOOLEAN
    /\ radio \in Settings /\ hasMqtt \in BOOLEAN
    /\ due \in BOOLEAN /\ said \in BOOLEAN
    /\ configured \in BOOLEAN /\ slow \in BOOLEAN /\ faults \in 0..MaxFaults

\* What a handshake found enabled still is.
StillSo ==
    /\ radio.proxy => hasMqtt
    /\ info.proxy => radio.proxy
    /\ info.downlink \subseteq radio.downlink

\* Every channel takes downlink or is about to be told to.
Covered ==
    /\ at \in {"install", "wait", "bridge"} /\ ingress = "MqttProxy" /\ ~said
           => radio.downlink \cup toInstall = Channel
    /\ at \in {"wait", "bridge"} => toInstall = {}
    /\ at = "bridge" /\ ingress = "MqttProxy" => info.proxy

\* Without a fault only the attempt makes the radio reboot, and it works.
AttemptWorks ==
    faults = 0 =>
        /\ ~attempted => ~due /\ ~said
        /\ attempted /\ hasMqtt => radio.proxy /\ (at = "install" => info.proxy)

\* A radio that can run the proxy gets to run it: without a fault, and with
\* a reboot in time, the program does not fall back (main.rs:225-262).
KeepsProxy == hasMqtt /\ faults = 0 /\ ~slow => ingress = CliIngress

\* The inductive invariant behind ProxyReady and KeepsProxy: what is known of
\* the radio holds, what is missing is on its way (main.rs:171-262).
IInv == TypeOK /\ StillSo /\ Covered /\ AttemptWorks /\ KeepsProxy

\* A bridge that hands packets to the MQTT proxy runs on a radio that has it
\* enabled and takes downlink on every channel, whatever was lost on the way,
\* unless a reboot is announced and about to end it (main.rs:205-262).
ProxyReady ==
    at = "bridge" /\ ingress = "MqttProxy" /\ ~said
        => radio.proxy /\ radio.downlink = Channel

\* Between two attempts to open the port the program waits longer each time,
\* up to the maximum (main.rs:132-157, README.md:33).
WaitsLonger ==
    [][OpenFails => /\ delay' <= MaxReopen
                    /\ delay < delay' \/ delay = MaxReopen]_vars

\* Once the faults cease, the program ends up bridging: no radio makes it
\* configure, wait and shake hands for ever (main.rs:228-235, README.md:70).
Settles == <>[](at \in {"bridge", "exited"})

\* README.md:68: "the bridge configures the radio on first start".  The
\* program does not give the proxy up before it has sent a radio that can have
\* it its configuration.  The code counts the attempt before it writes (main.rs:235).
ConfiguresFirst == hasMqtt => ingress = CliIngress \/ configured
=============================================================================
