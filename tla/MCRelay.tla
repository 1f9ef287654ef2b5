------------------------------- MODULE MCRelay -------------------------------
(* Two tables: one with channels that share a hash, two of them with one    *)
(* key, and an open channel; one with a single channel.  m1 is heard by the *)
(* radio and by another bridge, on the second of the two channels with one  *)
(* key; m2 is the radio's own, on the open channel; m3 is a direct message  *)
(* the radio could not decipher.  The rest comes from the LAN: l1 and l4 on *)
(* the shared hash with two keys, l2 on a channel the radio does not have,  *)
(* l3 as a direct message, own as an echo of the radio's own.               *)
EXTENDS Relay

CONSTANTS kA, kB, kX

Channel(i, n, h, k) == [index |-> i, name |-> n, hash |-> h, key |-> k]

Table1 == <<Channel(0, "A", 8, kA), Channel(1, "B", 8, kB),
            Channel(2, "open", 9, NoKey), Channel(3, "B2", 8, kB)>>
Table2 == <<Channel(0, "B", 8, kB)>>
MCTables == {Table1, Table2}

Pkt(from, id, ch, payload) ==
    [from |-> from, id |-> id, to |-> Broadcast, channel |-> ch, pki |-> FALSE,
     transport |-> "lora", payload |-> payload]

m1 == Pkt(11, 1, 3, Decoded("d1"))
m2 == [Pkt(12, 1, 2, Decoded("d2")) EXCEPT !.transport = "internal"]
m3 == [Pkt(13, 1, 0, Encrypted("d3", kX)) EXCEPT !.pki = TRUE]
m1Peer == Pkt(11, 1, 8, Encrypted("d1", kB))
l1 == Pkt(21, 1, 8, Encrypted("e1", kB))
l2 == Pkt(22, 1, 7, Encrypted("e2", kX))
l3 == [Pkt(23, 1, 0, Encrypted("e3", kX)) EXCEPT !.to = 99]
l4 == Pkt(24, 1, 8, Encrypted("e5", kA))
own == Pkt(MyNode, 1, 8, Encrypted("e4", kA))

SmallMesh == {m1, m2}
SmallPeers == {m1Peer, l1, l2}
WideMesh == {m1, m2, m3}
WidePeers == {m1Peer, l4, l3, own}
SmallKeys == {Addr(p) : p \in SmallMesh \cup SmallPeers}
WideKeys == {Addr(p) : p \in WideMesh \cup WidePeers}
NoFalseDecode == {}
OneFalseDecode == {<<kA, kB>>}
=============================================================================
