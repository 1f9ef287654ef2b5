------------------------------ MODULE FrameFifo ------------------------------
(***************************************************************************)
(* What framing promises to both ends of a serial line: the payloads come  *)
(* out whole, once each and in the order they went in.                     *)
(***************************************************************************)
EXTENDS Naturals, Sequences

CONSTANT Payload

VARIABLES sent, frames

Init == sent = <<>> /\ frames = <<>>

Send(p) == sent' = Append(sent, p) /\ UNCHANGED frames

Receive ==
    /\ Len(frames) < Len(sent)
    /\ frames' = Append(frames, sent[Len(frames) + 1])
    /\ UNCHANGED sent

Next == Receive \/ \E p \in Payload : Send(p)

Spec == Init /\ [][Next]_<<sent, frames>>
=============================================================================
