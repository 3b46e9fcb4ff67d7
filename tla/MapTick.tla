------------------------------- MODULE MapTick -------------------------------
(* What one map tick of the world server promises, whatever threads carry it   *)
(* out: serial phases, in which only the world thread touches the game world,  *)
(* alternate with ticks, in which live maps are updated in any order and in    *)
(* parallel, each at most once; a map is never destroyed while it is updated.  *)
(* MapUpdater.tla implements this specification.                               *)

CONSTANTS
    Map,            \* every map object that may ever exist
    Instance        \* the maps that a map update may destroy

VARIABLES
    phase,          \* "serial" or "tick"
    alive,          \* the maps that exist
    running,        \* the maps being updated now
    done            \* the maps whose update has ended in the current tick

tickVars == <<phase, alive, running, done>>

TickInit ==
    /\ phase = "serial"
    /\ alive = {}
    /\ running = {}
    /\ done = {}

(* Between two ticks the world thread creates maps, or unloads them all. *)
Create(m) ==
    /\ phase = "serial"
    /\ alive' = alive \union {m}
    /\ UNCHANGED <<phase, running, done>>

Unload ==
    /\ phase = "serial"
    /\ alive' = {}
    /\ UNCHANGED <<phase, running, done>>

StartTick ==
    /\ phase = "serial"
    /\ phase' = "tick"
    /\ done' = {}
    /\ UNCHANGED <<alive, running>>

BeginUpdate(m) ==
    /\ phase = "tick"
    /\ m \in alive \ (running \union done)
    /\ running' = running \union {m}
    /\ UNCHANGED <<phase, alive, done>>

EndUpdate(m) ==
    /\ m \in running
    /\ running' = running \ {m}
    /\ done' = done \union {m}
    /\ UNCHANGED <<phase, alive>>

(* An instance is destroyed by the update of the map it belongs to. *)
Destroy(m) ==
    /\ phase = "tick"
    /\ m \in Instance \ (running \union done)
    /\ alive' = alive \ {m}
    /\ UNCHANGED <<phase, running, done>>

EndTick ==
    /\ phase = "tick"
    /\ running = {}
    /\ phase' = "serial"
    /\ UNCHANGED <<alive, running, done>>

TickNext ==
    \/ \E m \in Map : Create(m) \/ BeginUpdate(m) \/ EndUpdate(m)
    \/ \E m \in Instance : Destroy(m)
    \/ Unload \/ StartTick \/ EndTick

TickSpec == TickInit /\ [][TickNext]_tickVars

=============================================================================
