--------------------------- MODULE MCChannelSetup ---------------------------
(* Tables with and without a name for the primary channel, with a gap, with *)
(* and without downlink, with one short PSK and the long form of it, and    *)
(* with one name for two channels; lists that name a channel twice, the     *)
(* primary by its preset, one without a name, new ones, more than there are *)
(* slots, and one that cannot be read; and overrides that replace, delete,  *)
(* spoil or say nothing of the channels.                                    *)
EXTENDS ChannelSetup

short == [size |-> 1, of |-> 1]
long == Expand(short)
own == [size |-> 32, of |-> 7]

Ch(name, psk, downlink) == [name |-> name, psk |-> psk, downlink |-> downlink]

Table(channelsBySlot) ==
    [i \in Slot |-> IF i \in DOMAIN channelsBySlot THEN channelsBySlot[i] ELSE Disabled]

MCNames == {Unnamed, "LongFast", "A", "B", "C", "D"}
MCPsks == {short, long, own}

MCTables ==
    {Table([i \in {0} |-> Ch(Unnamed, short, FALSE)]),
     Table([i \in 0..1 |-> IF i = 0 THEN Ch(Unnamed, own, TRUE) ELSE Ch("A", short, FALSE)]),
     Table([i \in {0, 2} |-> IF i = 0 THEN Ch("B", own, FALSE) ELSE Ch("A", long, TRUE)]),
     Table([i \in 0..1 |-> IF i = 0 THEN Ch("A", own, FALSE) ELSE Ch("A", short, TRUE)])}

R(name, psk) == [name |-> name, psk |-> psk]
Lists ==
    {<<R("A", own)>>, <<R("LongFast", long)>>, <<R("A", own), R("C", long), R("A", short)>>,
     <<R("C", own), R("LongFast", own), R("D", short)>>,
     <<R(Unnamed, own), R("LongFast", short), R(Unnamed, long)>>}

MCFiles ==
    [base : {Object(Listing(l)) : l \in Lists}, over : {Missing}]
    \cup [base : {Missing, Broken, NoObject}, over : {Missing, Object(Listing(<<R("C", own)>>))}]
    \cup [base : {Object(Listing(<<R("C", short)>>))},
          over : {Missing, Broken, NoObject, Object(Listing(<<R("C", own)>>))}
                 \cup {Object(Value(kind)) : kind \in {"absent", "null", "wrong"}}]
=============================================================================
