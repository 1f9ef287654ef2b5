---------------------------- MODULE MCHandshake ----------------------------
(* Two configurations of a radio with two channel slots: with v2 the second *)
(* is disabled.                                                             *)
EXTENDS Handshake

MCVersion == {"v1", "v2"}
MCActive == [v \in MCVersion |-> IF v = "v1" THEN 1..2 ELSE {1}]
=============================================================================
