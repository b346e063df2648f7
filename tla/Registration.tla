---------------------------- MODULE Registration ----------------------------
(***************************************************************************)
(* What the ClusterbookCluster controller promises to somebody who emits a *)
(* ClusterbookCluster in render mode: the Vcluster controller is such a    *)
(* one.  ClusterReconciler is shown to implement it, and                   *)
(* VclusterReconciler is composed with it in place of the whole of the     *)
(* other controller.                                                       *)
(*                                                                         *)
(* What it promises about progress is RenderFollows and DeletionCompletes  *)
(* of ClusterReconciler; VclusterReconciler assumes no more than these.    *)
(***************************************************************************)
EXTENDS Naturals

CONSTANTS Names    \* the names of ClusterbookClusters

VARIABLES
    child,     \* the ClusterbookCluster: "none", "new", "kept", "deleting"
    source,    \* the latest revision of its kubeconfig Secret so far
    argo       \* the revision the ArgoCD cluster Secret shows; 0: no Secret

Init ==
    /\ child = [n \in Names |-> "none"]
    /\ source = [n \in Names |-> 0]
    /\ argo = [n \in Names |-> 0]

\* A child goes from one phase to another, a Secret to another revision.
Child(n, from, to) ==
    /\ child[n] = from
    /\ child' = [child EXCEPT ![n] = to]
    /\ UNCHANGED <<source, argo>>

Show(n, r) == argo' = [argo EXCEPT ![n] = r] /\ UNCHANGED <<child, source>>

\* Its user creates and deletes a ClusterbookCluster and writes its kubeconfig.
Create(n) == Child(n, "none", "new")
Drop(n)   == Child(n, "new", "none")
Delete(n) == Child(n, "kept", "deleting")
Rotate(n) == source' = [source EXCEPT ![n] = @ + 1] /\ UNCHANGED <<child, argo>>

\* The controller adds its finalizer before it does anything else, renders
\* revisions that there have been, never an older one, and lets a deleted
\* child go.
Adopt(n) == Child(n, "new", "kept")

Render(n, r) ==
    /\ child[n] \in {"kept", "deleting"}
    /\ r \in 1..source[n] /\ r >= argo[n]
    /\ Show(n, r)

Retire(n) == Child(n, "deleting", "none")

\* The Secret is deleted: by the finalizer, the garbage collector, a user.
Remove(n) == Show(n, 0)

Next ==
    \E n \in Names :
       \/ Create(n) \/ Drop(n) \/ Delete(n) \/ Rotate(n) \/ Adopt(n)
       \/ Retire(n) \/ Remove(n)
       \/ \E r \in 1..source[n] : Render(n, r)

Spec == Init /\ [][Next]_<<child, source, argo>>
====
