---------------------------- MODULE AtomicCommit ----------------------------
(* What the users of a database pool rely on: a transaction they hand over is  *)
(* carried out as a whole and once, at some later time, or not at all.         *)
(* SqlWorkerPool.tla implements this while no connection is lost.              *)

CONSTANTS Transaction

VARIABLES outcome       \* of each transaction

AtomicInit == outcome = [t \in Transaction |-> "new"]

Becomes(t, from, to) ==
    /\ outcome[t] = from
    /\ outcome' = [outcome EXCEPT ![t] = to]

HandOver(t) == Becomes(t, "new", "waiting")
Apply(t)    == Becomes(t, "waiting", "applied")

(* One that fails is dropped; a shutdown drops all those not yet begun. *)
Drop(D) ==
    /\ \A t \in D : outcome[t] = "waiting"
    /\ outcome' = [t \in Transaction |-> IF t \in D THEN "dropped" ELSE outcome[t]]

AtomicNext ==
    \/ \E t \in Transaction : HandOver(t) \/ Apply(t)
    \/ \E D \in SUBSET Transaction : Drop(D)

AtomicSpec == AtomicInit /\ [][AtomicNext]_outcome
=============================================================================
