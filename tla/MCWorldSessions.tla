--------------------------- MODULE MCWorldSessions ---------------------------
(* Instances of WorldSessions.tla for TLC. *)
EXTENDS WorldSessions, TLC

Symmetry == Permutations(SessionId)
=============================================================================
