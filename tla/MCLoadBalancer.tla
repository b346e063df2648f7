--------------------------- MODULE MCLoadBalancer ---------------------------
(* The specs that the instances of LoadBalancerReconciler choose from.      *)
EXTENDS LoadBalancerReconciler

LBPools == {Pool(n) : n \in Names}

\* Pin to a Service or to a pool, and give the IP back at the end, or not.
LBSpecs == [target : Services \cup {"pool"}, dns : {TRUE}, release : BOOLEAN]

\* Only Services.
ServiceSpecs == [target : Services, dns : {FALSE}, release : {TRUE}]
====
