-------------------------- MODULE MCRemoteCommands --------------------------
(* Instances of RemoteCommands.tla for TLC. *)
EXTENDS RemoteCommands

CONSTANTS ra1, ra2

(* One connection and the SOAP thread come back for a second command. *)
MCCommands == [s \in Source |-> IF s \in {ra1, Soap} THEN 2 ELSE 1]
=============================================================================
