---------------------------- MODULE MCWorldSocket ----------------------------
(* Constants of WorldSocket for TLC. *)
EXTENDS WorldSocket, TLC

CONSTANTS w1, w2

OnePacketSize == {2}
TwoWorkers == {w1, w2}
=============================================================================
