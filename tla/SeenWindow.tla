----------------------------- MODULE SeenWindow ------------------------------
(***************************************************************************)
(* What the duplicate filter promises, without its queue and set: a call   *)
(* with key k is answered "new" exactly when k is not among the last       *)
(* Capacity keys that were answered "new" in this session.                 *)
(***************************************************************************)
EXTENDS Naturals, Sequences

CONSTANTS Key, Capacity

VARIABLES
    accepted,   \* every key answered "new" in this session, oldest first
    answer      \* the last call and its answer

Window(s) == {s[i] : i \in {j \in 1..Len(s) : j + Capacity > Len(s)}}

NoCall == [key |-> "none", new |-> FALSE]

Init == accepted = <<>> /\ answer = NoCall

Call(k) ==
    LET new == k \notin Window(accepted) IN
    /\ answer' = [key |-> k, new |-> new]
    /\ accepted' = IF new THEN Append(accepted, k) ELSE accepted

Restart == accepted' = <<>> /\ answer' = NoCall

Next == Restart \/ \E k \in Key : Call(k)

Spec == Init /\ [][Next]_<<accepted, answer>>
=============================================================================
