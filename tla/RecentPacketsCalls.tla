-------------------------- MODULE RecentPacketsCalls --------------------------
(***************************************************************************)
(* The filter driven by the calls a process makes: insert with any key, in *)
(* any order, and a fresh filter whenever a new session starts.  The       *)
(* history variables accepted and answer record what the calls returned.   *)
(***************************************************************************)
EXTENDS RecentPackets

CONSTANT MaxAccepted    \* bound: keys accepted in one session

ASSUME MaxAcceptedAssumption == MaxAccepted \in Nat

VARIABLES accepted, answer

vars == <<order, set, accepted, answer>>

NoCall == [key |-> "none", new |-> FALSE]

Init == Empty /\ accepted = <<>> /\ answer = NoCall

\* One call of insert, from handle_serial_frame or handle_udp_packet.
Call(k) ==
    /\ Accepts(k) => Len(accepted) < MaxAccepted
    /\ Insert(k)
    /\ answer' = [key |-> k, new |-> Accepts(k)]
    /\ accepted' = IF Accepts(k) THEN Append(accepted, k) ELSE accepted

\* Bridge::new of the next session.
Restart == Forget /\ accepted' = <<>> /\ answer' = NoCall

Next == Restart \/ \E k \in Key : Call(k)

Spec == Init /\ [][Next]_vars

-----------------------------------------------------------------------------
\* Type invariant of the filter and its history (bridge.rs:52-56).
TypeOK ==
    /\ order \in Seq(Key)
    /\ set \in SUBSET Key
    /\ accepted \in Seq(Key)
    /\ answer \in [key : Key \cup {"none"}, new : BOOLEAN]

\* A packet forwarded once is not forwarded again before Capacity other
\* packets were (bridge.rs:326 drops what insert refuses).
NoEarlyRepeat ==
    \A i, j \in 1..Len(accepted) :
        i < j /\ accepted[i] = accepted[j] => j - i > Capacity

\* The queue is the recent end of the history.
OrderIsRecent ==
    /\ Len(order) = IF Len(accepted) < Capacity THEN Len(accepted) ELSE Capacity
    /\ \A i \in 1..Len(order) : order[i] = accepted[Len(accepted) - Len(order) + i]

\* The inductive invariant: with types, the three facts above.
IInv == TypeOK /\ InStep /\ NoEarlyRepeat /\ OrderIsRecent

\* The filter implements the window of the last Capacity keys: every answer
\* of insert is the one SeenWindow gives (bridge.rs:72-83).
Abstract == INSTANCE SeenWindow WITH accepted <- accepted, answer <- answer
ImplementsSeenWindow == Abstract!Spec
=============================================================================
