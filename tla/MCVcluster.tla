----------------------------- MODULE MCVcluster -----------------------------
(* The objects and the specs of the instance of VclusterReconciler.         *)
EXTENDS VclusterReconciler

OwnedObjects == {Child(n) : n \in Names} \cup {External(n) : n \in Names}
LiveObjects  == {App(n) : n \in Names} \cup {Upstream(n) : n \in Names}

Reserving == [net |-> TRUE, register |-> TRUE, release |-> TRUE]

VclusterSpecs == {Reserving, [Reserving EXCEPT !.net = FALSE, !.register = FALSE]}
====
