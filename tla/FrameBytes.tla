------------------------------ MODULE FrameBytes ------------------------------
(***************************************************************************)
(* The frame reader fed with arbitrary bytes, against a definition of the  *)
(* frames of a byte sequence that reads it from left to right with the     *)
(* whole of it in view.                                                    *)
(***************************************************************************)
EXTENDS FrameReader

CONSTANT MaxInput   \* bound: bytes fed

ASSUME MaxInputAssumption == MaxInput \in Nat

VARIABLE input      \* the bytes fed so far

bytesVars == <<state, buf, frames, input>>

BytesInit == NewReader /\ input = <<>>

\* feed_bytes feeds the bytes of a chunk one by one; where a chunk ends
\* makes no difference.
FeedByte(b) ==
    /\ Len(input) < MaxInput
    /\ Feed(b)
    /\ input' = Append(input, b)

BytesNext == \E b \in Byte : FeedByte(b)

BytesSpec == BytesInit /\ [][BytesNext]_bytesVars

-----------------------------------------------------------------------------
\* The places where a complete header starts.
Headers == {h \in 1..(Len(input) - 3) : input[h] = START1 /\ input[h + 1] = START2}

Length(h) == input[h + 2] * Base + input[h + 3]

\* Where the search goes on behind a header: after its payload, or, with a
\* length over the limit, where its payload would be.
After(h) == h + 4 + (IF Length(h) <= MaxPacketSize THEN Length(h) ELSE 0)

\* H are the headers met from left to right: one that starts between a header
\* of H and the place behind it is no header, and every other one is.
MetHeaders(H) == \A j \in Headers : j \in H <=> \A h \in H : h < j => After(h) <= j

\* Those with a payload that is there in full.
Complete(H) == {h \in H : Length(h) <= MaxPacketSize /\ After(h) <= Len(input) + 1}

\* The frames are the payloads at starts: those of the complete ones of H, in order.
FramesAt(starts, H) ==
    /\ \A m, n \in DOMAIN starts : m < n => starts[m] < starts[n]
    /\ \A h \in Complete(H) : \E n \in DOMAIN starts : starts[n] = h
    /\ \A n \in DOMAIN starts :
           /\ starts[n] \in Complete(H)
           /\ frames[n] = SubSeq(input, starts[n] + 4, After(starts[n]) - 1)

\* The reader returns exactly the frames of its input: it neither misses a
\* header, nor sees one inside a payload, nor loses its place after a
\* length over the limit (serial_framing.rs:29-76).
ReadsEveryFrame ==
    /\ ReaderTypeOK
    /\ \E H \in SUBSET Headers :
           /\ MetHeaders(H)
           /\ \E starts \in [1..Len(frames) -> H] : FramesAt(starts, H)
=============================================================================
