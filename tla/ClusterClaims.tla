---------------------------- MODULE ClusterClaims ----------------------------
(***************************************************************************)
(* What the documentation, the comments and the tests of the repository    *)
(* say of a ClusterbookCluster and the code does not keep.  Each formula   *)
(* is the property of a run that ends in a counterexample.                 *)
(***************************************************************************)
EXTENDS ClusterReconciler

\* Nobody is going to reconcile c any more.
Quiet(c) ==
    \A m \in Managers :
       /\ key[m] # c /\ c \notin queue[m]
       /\ \A k \in Kinds : synced[m][k][c]

(***************************************************************************)
(* releaseOnDelete "releases the clusterbook IP when the CR is deleted":   *)
(* once the CR is gone and nobody works on it, it holds no address.        *)
(***************************************************************************)
ReleasedOnDelete ==
    \A c \in Clusters : api["cr"][c] = None /\ Quiet(c) => Held(c) = {}
====
