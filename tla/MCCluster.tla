------------------------------ MODULE MCCluster ------------------------------
(* The specs that the instances of ClusterReconciler choose from.           *)
EXTENDS ClusterClaims, TLC

\* Reserve an IP, render the Secret from the kubeconfig.
Plain     == [net |-> TRUE, skip |-> FALSE, kind |-> FALSE, enrich |-> FALSE,
              dns |-> FALSE, useFQDN |-> FALSE, preserve |-> FALSE,
              release |-> FALSE, lb |-> "none", count |-> 0]
WithDNS   == [Plain EXCEPT !.dns = TRUE, !.useFQDN = TRUE]
Releasing == [Plain EXCEPT !.release = TRUE]

\* The same on a Secret of somebody else.
Enriching   == [Plain EXCEPT !.enrich = TRUE]
EnrichRange == [Enriching EXCEPT !.lb = "count", !.count = 1]
EnrichSkip  == [Enriching EXCEPT !.skip = TRUE, !.lb = "pinned"]
EnrichOut   == [Enriching EXCEPT !.release = TRUE]

ReservationSpecs == {Enriching, EnrichRange}
ReleasingSpecs   == {Releasing}
RenderSpecs      == {Releasing, WithDNS}
EnrichSpecs      == {EnrichOut, EnrichSkip}

\* Of the runs that end in a counterexample.
EnrichOutSpecs   == {EnrichOut}

Symmetric == Permutations(Clusters) \cup Permutations(IPs) \cup Permutations(Managers)
====
