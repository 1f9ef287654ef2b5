---------------------------- MODULE MCAutoDetect ----------------------------
(* A radio and another device on four nodes: ttyACM2, ttyACM10, ttyUSB0,   *)
(* and one whose name is not looked for, so that only a link leads there.  *)
EXTENDS AutoDetect

N(stem, number) == [stem |-> stem, number |-> number]
MCDevice == {N(1, 2), N(1, 10), N(2, 0), N(3, 0)}
MCThing == {N(8, 1), N(9, -1)}
MCRadio == N(9, -1)
=============================================================================
