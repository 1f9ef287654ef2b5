------------------------------- MODULE BridgeRun -------------------------------
(***************************************************************************)
(* What Bridge::run of src/src/bridge.rs promises to main, with the        *)
(* threads and the channel out of sight: the frames of the port are        *)
(* handled one by one in the order they came, the run ends at the frame    *)
(* that tells of a reboot or when a side is gone, and once it is back      *)
(* nothing of it reads the port or the socket.                             *)
(***************************************************************************)
EXTENDS Integers

CONSTANT MaxBatch   \* bound: frames completed by one read of the port

Side == {"serial", "udp"}

VARIABLES
    phase,      \* "starting", "running", "ending", "stopped", then "returned"; or "failed"
    end,        \* the SessionEnd
    taken,      \* frames taken off the port
    waiting,    \* those to be handled, each with its place and whether it tells of a reboot
    handled,    \* frames handled
    datagrams,  \* datagrams taken off the socket
    reading     \* the sides something may still be taken from

vars == <<phase, end, taken, waiting, handled, datagrams, reading>>

Init ==
    /\ phase = "starting" /\ end = "none"
    /\ taken = 0 /\ waiting = {} /\ handled = 0 /\ datagrams = 0
    /\ reading = Side

Open == {"starting", "running"}

\* Before the stop frames and datagrams may be taken again and again; after it,
\* or after a failed start, what is taken next from a side is the last. Reads
\* that bring nothing whole are stutters here.
ReadSide(s) ==
    /\ s \in reading
    /\ reading' = IF phase \in Open \cup {"ending"} THEN reading ELSE reading \ {s}

\* The next frames of the radio are taken off the port; they wait for their
\* turn unless the loop is over.
Take ==
    /\ ReadSide("serial")
    /\ \E n \in 1..MaxBatch : \E reboot \in [1..n -> BOOLEAN] :
        /\ taken' = taken + n
        /\ waiting' = IF phase \in Open
                      THEN waiting \cup {[seq |-> taken + i, reboot |-> reboot[i]] : i \in 1..n}
                      ELSE waiting
    /\ UNCHANGED <<phase, end, handled, datagrams>>

Receive ==
    /\ ReadSide("udp")
    /\ datagrams' = datagrams + 1
    /\ UNCHANGED <<phase, end, taken, waiting, handled>>

\* A side is given up.
Lose ==
    /\ \E s \in reading : reading' = reading \ {s}
    /\ UNCHANGED <<phase, end, taken, waiting, handled, datagrams>>

Start ==
    /\ phase = "starting" /\ phase' = "running"
    /\ UNCHANGED <<end, taken, waiting, handled, datagrams, reading>>

\* A thread cannot be started: what waits is dropped, and nothing was handled.
Fail ==
    /\ phase = "starting" /\ phase' = "failed"
    /\ waiting' = {} /\ reading' \in SUBSET reading
    /\ UNCHANGED <<end, taken, handled, datagrams>>

\* The loop ends with cause e; what waits is dropped.
EndWith(e) == phase' = "ending" /\ end' = e /\ waiting' = {}

\* The frame whose turn it is, is handled. A reboot ends the loop there.
Handle ==
    /\ phase = "running"
    /\ \E f \in waiting :
        /\ f.seq = handled + 1
        /\ \/ ~f.reboot /\ waiting' = waiting \ {f} /\ UNCHANGED <<phase, end>>
           \/ f.reboot /\ EndWith("RadioRebooted")
    /\ handled' = handled + 1
    /\ UNCHANGED <<taken, datagrams, reading>>

\* A side that is gone ends the loop.
EndForLoss ==
    /\ phase = "running"
    /\ \/ "serial" \notin reading /\ EndWith("SerialLost")
       \/ "udp" \notin reading /\ EndWith("UdpFailed")
    /\ UNCHANGED <<taken, handled, datagrams, reading>>

Stop ==
    /\ phase = "ending" /\ phase' = "stopped"
    /\ reading' \in SUBSET reading
    /\ UNCHANGED <<end, taken, waiting, handled, datagrams>>

Return ==
    /\ phase = "stopped" /\ reading = {} /\ phase' = "returned"
    /\ UNCHANGED <<end, taken, waiting, handled, datagrams, reading>>

Next == Take \/ Receive \/ Lose \/ Start \/ Fail \/ Handle \/ EndForLoss \/ Stop \/ Return

Spec == Init /\ [][Next]_vars
=============================================================================
