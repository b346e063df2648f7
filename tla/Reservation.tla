---------------------------- MODULE Reservation ----------------------------
(***************************************************************************)
(* What every reconciler of this operator promises about the clusterbook   *)
(* pool, whatever it publishes and where: a name that holds addresses is   *)
(* not given more, a resource in service shows an address that is its own, *)
(* and no address is taken from a resource in service.                     *)
(*                                                                         *)
(* The controllers implement it: holder is the pool of the clusterbook     *)
(* server, shown the status.ip of the resources that are not being         *)
(* deleted.                                                                *)
(***************************************************************************)
CONSTANTS
    Names,     \* reservation keys (spec.clusterName, spec.name)
    IPs,       \* addresses of the pool
    None       \* no name, no address

VARIABLES
    holder,    \* the name an address is assigned to, not all of them ours
    shown      \* the address a resource in service shows

Init ==
    /\ holder = [i \in IPs |-> holder[i]]
    /\ \A i \in IPs : holder[i] \notin Names
    /\ shown = [n \in Names |-> None]

\* A name that holds nothing is assigned free addresses.
Take(n, S) ==
    /\ \A i \in IPs : holder[i] # n
    /\ \A i \in S : holder[i] = None
    /\ holder' = [i \in IPs |-> IF i \in S THEN n ELSE holder[i]]
    /\ UNCHANGED shown

\* A resource comes to show an address that its name holds ...
Show(n, i) ==
    /\ holder[i] = n /\ shown[n] = None
    /\ shown' = [shown EXCEPT ![n] = i]
    /\ UNCHANGED holder

\* ... and no longer shows it: it is deleted, or stops reserving.
Hide(n) ==
    /\ shown' = [shown EXCEPT ![n] = None]
    /\ UNCHANGED holder

\* A name that is out of service gives an address back.
GiveBack(n, i) ==
    /\ shown[n] = None /\ holder[i] = n
    /\ holder' = [holder EXCEPT ![i] = None]
    /\ UNCHANGED shown

Next ==
    \E n \in Names :
       \/ Hide(n)
       \/ \E i \in IPs : Show(n, i) \/ GiveBack(n, i)
       \/ \E S \in SUBSET IPs : Take(n, S)

Spec == Init /\ [][Next]_<<holder, shown>>

(***************************************************************************)
(* What follows from it: an address on show is held by the one that shows  *)
(* it, hence no two resources in service show the same address.            *)
(***************************************************************************)
ShownIsHeld == \A n \in Names : shown[n] # None => holder[shown[n]] = n
====
