---------------------------- MODULE MCAllocation ----------------------------
(* The specs that the instances of AllocationReconciler choose from.        *)
EXTENDS AllocationReconciler

AllocationObjects == {Secret} \cup Maps

Both == [map |-> TRUE, labels |-> TRUE, dns |-> FALSE, release |-> TRUE]

AllocationSpecs == {Both, [Both EXCEPT !.dns = TRUE]}
LabelSpecs      == {[Both EXCEPT !.map = FALSE]}
====
