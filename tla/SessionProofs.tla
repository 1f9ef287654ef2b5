---------------------------- MODULE SessionProofs ----------------------------
(***************************************************************************)
(* What holds of the session loop for any set of channels, any delays and  *)
(* any number of faults.                                                   *)
(***************************************************************************)
EXTENDS Session, TLAPS

\* The initial states are as they should be.
LEMMA Starts == Init => IInv
  <1>1. ASSUME Init PROVE TypeOK
    <2>1. /\ at \in {"open", "handshake", "install", "wait", "bridge", "exited"}
          /\ delay \in Reconnect..MaxReopen /\ faults \in 0..MaxFaults
      BY <1>1, SessionAssumption DEF Init
    <2>2. /\ attempted \in BOOLEAN /\ hasMqtt \in BOOLEAN /\ due \in BOOLEAN
          /\ said \in BOOLEAN /\ configured \in BOOLEAN /\ slow \in BOOLEAN
          /\ auto \in BOOLEAN
      BY <1>1, Zenon DEF Init
    <2>3. info \in Settings /\ radio \in Settings /\ toInstall \in SUBSET Channel
      BY <1>1 DEF Init
    <2>4. ingress \in Ingress
      BY <1>1, SessionAssumption DEF Init
    <2> QED  BY <2>1, <2>2, <2>3, <2>4 DEF TypeOK
  <1>2. Init => StillSo /\ Covered /\ AttemptWorks /\ KeepsProxy
    BY SessionAssumption DEF Init, StillSo, Covered, AttemptWorks, KeepsProxy, Settings, Ingress
  <1> QED  BY <1>1, <1>2 DEF IInv

\* The delay stays within its limits.
LEMMA LongerInRange == \A d \in Reconnect..MaxReopen : Longer(d) \in Reconnect..MaxReopen
  BY SessionAssumption DEF Longer

LEMMA TypesStep == TypeOK /\ [Next]_vars => TypeOK'
  <1> SUFFICES ASSUME TypeOK, [Next]_vars PROVE TypeOK'
    OBVIOUS
  <1> USE SessionAssumption DEF TypeOK, Ingress, mainVars, radioVars
  <1>1. CASE OpenFails
    BY <1>1, LongerInRange DEF OpenFails
  <1>2. CASE OpenFixed
    BY <1>2 DEF OpenFixed
  <1>3. CASE Detect
    BY <1>3 DEF Detect, Captured, Missing
  <1>4. CASE Handshake
    BY <1>4 DEF Handshake, Captured, Missing
  <1>5. CASE PortLost
    <2>1. at' = "open" /\ delay' \in Reconnect..MaxReopen /\ faults' \in 0..MaxFaults
      BY <1>5 DEF PortLost, Reopen, Fault
    <2>2. said' \in BOOLEAN /\ due' \in BOOLEAN
      BY <1>5, Zenon DEF PortLost, Reopen
    <2> QED  BY <1>5, <2>1, <2>2 DEF PortLost
  <1>6. ASSUME NEW c \in Channel, Install(c) PROVE TypeOK'
    BY <1>6 DEF Install, Settings
  <1>7. CASE StartBridge
    BY <1>7 DEF StartBridge, Installed
  <1>8. CASE FallBack
    BY <1>8 DEF FallBack, Installed
  <1>9. CASE SetUp
    <2>1. /\ at' \in {"open", "wait"} /\ delay' \in Reconnect..MaxReopen
          /\ faults' \in 0..MaxFaults
      BY <1>9 DEF SetUp, SendMqttConfig, Reopen, Fault
    <2>2. radio' \in Settings
      BY <1>9 DEF SetUp, SendMqttConfig, Configure, Settings
    <2>3. due' \in BOOLEAN
      BY <1>9, Zenon DEF SetUp, SendMqttConfig, Configure
    <2>4. said' \in BOOLEAN /\ configured' \in BOOLEAN /\ hasMqtt' \in BOOLEAN
      BY <1>9, Zenon DEF SetUp, SendMqttConfig, Configure, Reopen
    <2>5. attempted' \in BOOLEAN
      BY <1>9, Zenon DEF SetUp
    <2> QED  BY <1>9, <2>1, <2>2, <2>3, <2>4, <2>5 DEF SetUp
  <1>10. CASE SeeReboot
    BY <1>10 DEF SeeReboot
  <1>11. CASE WaitTooLong
    BY <1>11 DEF WaitTooLong
  <1>12. CASE UdpFailed
    BY <1>12 DEF UdpFailed, Fault
  <1>13. CASE RadioReboots
    <2>1. radio' \in Settings
      BY <1>13 DEF RadioReboots, Kept
    <2>2. faults' \in 0..MaxFaults
      BY <1>13 DEF RadioReboots, Fault
    <2>3. due' \in BOOLEAN
      BY <1>13, Zenon DEF RadioReboots
    <2>4. said' \in BOOLEAN
      BY <1>13, SMT DEF RadioReboots
    <2> QED  BY <1>13, <2>1, <2>2, <2>3, <2>4 DEF RadioReboots
  <1>14. CASE UNCHANGED vars
    BY <1>14 DEF vars
  <1> QED
    BY <1>1, <1>2, <1>3, <1>4, <1>5, <1>6, <1>7, <1>8, <1>9, <1>10, <1>11, <1>12, <1>13, <1>14
    DEF Next, Proceed, Rest

\* What a handshake captured outlives reboots and writes.
LEMMA StillSoStep == IInv /\ [Next]_vars => StillSo'
  <1> SUFFICES ASSUME IInv, [Next]_vars PROVE StillSo'
    OBVIOUS
  <1> USE DEF IInv, TypeOK, StillSo, Settings, mainVars, radioVars
  <1>1. CASE Detect \/ Handshake
    BY <1>1 DEF Detect, Handshake, Captured
  <1>2. ASSUME NEW c \in Channel, Install(c) PROVE StillSo'
    BY <1>2 DEF Install
  <1>3. CASE SetUp
    <2>1. CASE UNCHANGED <<radio, hasMqtt, info>>
      BY <2>1
    <2>2. CASE radio' = [radio EXCEPT !.proxy = hasMqtt] /\ UNCHANGED <<hasMqtt, info>>
      BY <2>2
    <2> QED  BY <1>3, <2>1, <2>2 DEF SetUp, SendMqttConfig, Configure
  <1>4. CASE RadioReboots
    <2>1. UNCHANGED <<info, hasMqtt>>
      BY <1>4 DEF RadioReboots
    <2>2. CASE radio' = radio
      BY <2>1, <2>2
    <2>3. CASE radio' \in Kept
      BY <2>1, <2>3 DEF Kept
    <2> QED  BY <1>4, <2>2, <2>3 DEF RadioReboots
  <1>5. CASE UNCHANGED <<radio, hasMqtt, info>>
    BY <1>5
  <1> QED
    BY <1>1, <1>2, <1>3, <1>4, <1>5
    DEF Next, Proceed, Rest, vars, OpenFails, OpenFixed, PortLost, StartBridge, FallBack,
        SeeReboot, WaitTooLong, UdpFailed

\* A channel without downlink stays on the list until it is written.
LEMMA CoveredStep == IInv /\ [Next]_vars => Covered'
  <1> SUFFICES ASSUME IInv, [Next]_vars PROVE Covered'
    OBVIOUS
  <1> USE DEF IInv, TypeOK, Covered, Settings, mainVars, radioVars
  <1>1. CASE Detect \/ Handshake
    BY <1>1 DEF Detect, Handshake, Captured, Missing
  <1>2. ASSUME NEW c \in Channel, Install(c) PROVE Covered'
    BY <1>2 DEF Install
  <1>3. CASE SetUp
    <2>1. CASE at' = "open"
      BY <2>1
    <2>2. CASE at' = "wait" /\ Configure
      <3>1. radio'.downlink = radio.downlink /\ said' = said
        BY <2>2 DEF Configure
      <3> QED  BY <1>3, <2>2, <3>1 DEF SetUp, Installed
    <2> QED  BY <1>3, <2>1, <2>2 DEF SetUp, SendMqttConfig, Reopen
  <1>4. CASE RadioReboots
    BY <1>4 DEF RadioReboots
  <1>5. CASE StartBridge \/ FallBack
    BY <1>5 DEF StartBridge, FallBack, Installed, Ingress
  <1>6. CASE WaitTooLong
    BY <1>6 DEF WaitTooLong
  <1>7. CASE at' \in {"open", "handshake", "exited"}
    BY <1>7
  <1>8. CASE UNCHANGED vars
    BY <1>8 DEF vars
  <1>9. CASE OpenFails
    BY <1>9 DEF OpenFails
  <1> QED
    BY <1>1, <1>2, <1>3, <1>4, <1>5, <1>6, <1>7, <1>8, <1>9
    DEF Next, Proceed, Rest, OpenFixed, PortLost, Reopen, SeeReboot, UdpFailed

\* The one attempt needs no second.
LEMMA AttemptStep == IInv /\ [Next]_vars => AttemptWorks' /\ KeepsProxy'
  <1> SUFFICES ASSUME IInv, [Next]_vars PROVE AttemptWorks' /\ KeepsProxy'
    OBVIOUS
  <1> USE DEF IInv, TypeOK, StillSo, AttemptWorks, KeepsProxy, Settings, mainVars, radioVars
  <1>1. CASE Detect \/ Handshake
    BY <1>1 DEF Detect, Handshake, Captured
  <1>2. ASSUME NEW c \in Channel, Install(c) PROVE AttemptWorks' /\ KeepsProxy'
    BY <1>2 DEF Install
  <1>3. CASE SetUp
    <2>1. UNCHANGED <<ingress, slow, hasMqtt>> /\ at' # "install" /\ attempted'
      BY <1>3 DEF SetUp, SendMqttConfig, Reopen, Configure
    <2>2. CASE Fault
      BY <2>1, <2>2 DEF Fault
    <2>3. CASE Configure /\ faults' = faults
      <3>1. ~attempted
        BY <1>3 DEF SetUp
      <3>2. faults = 0 => radio'.proxy = hasMqtt
        BY <2>3, <3>1 DEF Configure
      <3> QED  BY <2>1, <2>3, <3>2
    <2> QED  BY <1>3, <2>2, <2>3 DEF SetUp, SendMqttConfig
  <1>4. CASE RadioReboots
    BY <1>4 DEF RadioReboots, Fault
  <1>5. CASE FallBack
    BY <1>5 DEF FallBack, Installed
  <1>6. CASE WaitTooLong
    BY <1>6 DEF WaitTooLong
  <1>7. CASE PortLost
    BY <1>7 DEF PortLost, Reopen, Fault
  <1>8. CASE UdpFailed
    BY <1>8 DEF UdpFailed, Fault
  <1>9. CASE SeeReboot
    BY <1>9 DEF SeeReboot
  <1>10. CASE StartBridge
    BY <1>10 DEF StartBridge
  <1>11. CASE OpenFails \/ OpenFixed
    BY <1>11 DEF OpenFails, OpenFixed
  <1>12. CASE UNCHANGED vars
    BY <1>12 DEF vars
  <1> QED
    BY <1>1, <1>2, <1>3, <1>4, <1>5, <1>6, <1>7, <1>8, <1>9, <1>10, <1>11, <1>12
    DEF Next, Proceed, Rest

-----------------------------------------------------------------------------
\* The invariant of the session loop holds for any channels, delays and
\* number of faults (main.rs:103-264).
THEOREM AlwaysIInv == Spec => []IInv
  <1>1. IInv /\ [Next]_vars => IInv'
    BY TypesStep, StillSoStep, CoveredStep, AttemptStep DEF IInv
  <1> QED  BY Starts, <1>1, PTL DEF Spec

\* A bridge that hands packets to the MQTT proxy runs on a radio that is
\* ready for it (main.rs:205-262).
THEOREM ProxyIsReady == Spec => []ProxyReady
  <1>1. IInv => ProxyReady
    BY DEF IInv, TypeOK, StillSo, Covered, ProxyReady, Settings
  <1> QED  BY AlwaysIInv, <1>1, PTL

\* Without a fault a radio that can run the proxy gets to run it
\* (main.rs:225-262).
THEOREM ProxyIsKept == Spec => []KeepsProxy
  <1>1. IInv => KeepsProxy
    BY DEF IInv
  <1> QED  BY AlwaysIInv, <1>1, PTL

\* The delays grow up to their maximum, whatever the two are
\* (main.rs:132-157).
THEOREM DelayGrows == Spec => WaitsLonger
  <1> DEFINE A == /\ delay' <= MaxReopen
                  /\ delay < delay' \/ delay = MaxReopen
  <1>1. IInv /\ [Next]_vars => [OpenFails => A]_vars
    <2> SUFFICES ASSUME IInv, OpenFails PROVE A
      OBVIOUS
    <2>1. delay \in Reconnect..MaxReopen /\ delay' = Longer(delay)
      BY DEF IInv, TypeOK, OpenFails
    <2> QED  BY <2>1, SessionAssumption DEF Longer
  <1> QED  BY AlwaysIInv, <1>1, PTL DEF Spec, WaitsLonger
=============================================================================
