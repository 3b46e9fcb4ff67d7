--------------------------- MODULE MCMapSessions ---------------------------
(* Instances of MapSessions.tla for TLC. *)
EXTENDS MapSessions

CONSTANTS alice, bob

(* One client sends a packet of any kind, the other only acknowledgements. *)
MCKinds == [s \in Session |-> IF s = alice THEN DOMAIN Processing ELSE {}]
MCPackets == [s \in Session |-> IF s = alice THEN 1 ELSE 0]
=============================================================================
