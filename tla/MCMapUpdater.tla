---------------------------- MODULE MCMapUpdater ----------------------------
(* Instances of MapUpdater.tla for TLC. *)
EXTENDS MapUpdater, TLC

CONSTANTS b1, b2, i1, i2, i3

(* Two dungeons, one of them with two instances. *)
TwoDungeons == (i1 :> b1) @@ (i2 :> b1) @@ (i3 :> b2)
=============================================================================
