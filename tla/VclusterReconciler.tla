------------------------- MODULE VclusterReconciler -------------------------
(***************************************************************************)
(* The Vcluster controller (src/controller/vcluster_reconciler.go).  A     *)
(* Vcluster reserves an IP, has ArgoCD install the vcluster through an     *)
(* Application, waits for the kubeconfig the chart leaves on the host      *)
(* cluster, publishes it with another server URL in a Secret of its own    *)
(* and emits a ClusterbookCluster that reads that Secret: the other        *)
(* controller turns it into an ArgoCD cluster Secret.                      *)
(*                                                                         *)
(* That other controller, which runs in the same manager, appears as       *)
(* Registration, which ClusterReconciler is shown to implement.            *)
(*                                                                         *)
(* Abstractions: the values of the chart are the address and whether the   *)
(* FQDN is among the extra SANs; the upstream kubeconfig stays the same    *)
(* while the vcluster is installed; the host cluster is read live, as an   *)
(* explicit target is; the child's status, whose updates wake the          *)
(* controller once more, is left out.                                      *)
(***************************************************************************)
EXTENDS Controller, Sequences

CONSTANTS
    MaxRevisions,      \* bound: versions of each external kubeconfig Secret
    MaxDisturbances    \* bound: edits, faults and second lives together

Child(n)    == <<"child", n>>       \* the ClusterbookCluster
External(n) == <<"external", n>>    \* the Secret vc-<name>-external
App(n)      == <<"app", n>>         \* the Application vcluster-<name>
Upstream(n) == <<"upstream", n>>    \* the Secret vc-<name> on the host

\* net: there is a networkKey, and with it a provider config.
ValidSpecs == [net : BOOLEAN, register : BOOLEAN, release : BOOLEAN]

\* In the status, app and child are argoCDApplicationRef and
\* clusterbookClusterRef.
Vclusters ==
    [uid : Nat, deleting : BOOLEAN, fin : BOOLEAN, spec : SpecChoices,
     ip : IPs \cup {None}, info : Infos, app : BOOLEAN, child : BOOLEAN]

\* ClusterbookClusters: uid is the owner's.
Children == [uid : Nat, fin : BOOLEAN, deleting : BOOLEAN]

Applications == [uid : Nat, ip : IPs \cup {None}, san : BOOLEAN]

ASSUME VclusterAssumption ==
    /\ Cached = {Child(n) : n \in Names} \cup {External(n) : n \in Names}
    /\ Live = {App(n) : n \in Names} \cup {Upstream(n) : n \in Names}
    /\ {MaxRevisions, MaxDisturbances} \subseteq Nat
    /\ SpecChoices \subseteq ValidSpecs
    /\ None \notin Vclusters \cup Children

VARIABLES
    ext,       \* the server URLs of the revisions of each external Secret
    argo       \* the revision that each ArgoCD cluster Secret shows

allVars == <<vars, ext, argo>>

NewVcluster(uid, s) ==
    [uid |-> uid, deleting |-> FALSE, fin |-> FALSE, spec |-> s,
     ip |-> None, info |-> "nil", app |-> FALSE, child |-> FALSE]

-----------------------------------------------------------------------------
\* Without networkKey there is no reservation.
EnsureReservation ==
    \/ pc = "ensure" /\ obj.spec.net /\ EnsureIP("info")
    \/ /\ pc = "ensure" /\ ~obj.spec.net /\ Goto("app")
       /\ UNCHANGED <<obj, loc, k8sVars, poolVars, budgetVars>>

\* CreateDNS is hard-wired on.
ReserveIPs     == Reserve(TRUE, "info")
GetClusterInfo == GetInfo("app")

\* Mistake: set no owner reference.
NoOwner == 0

\* What SetControllerReference sets.  It refuses an owner of another kind or
\* name only: what an earlier Vcluster of the name has left is adopted.
Owner   == obj.uid
Mine(o) == o.uid = Owner

\* upsertApplication, with the values of buildHelmValues.
UpsertApplication ==
    /\ pc = "app"
    /\ Put(App(key), [uid |-> Owner, ip |-> loc.ip, san |-> loc.info = "fqdn"])
    /\ Goto("upstream")
    /\ UNCHANGED <<obj, loc, view, poolVars, budgetVars>>

\* readUpstreamKubeconfig on the host cluster.  Until it is there, record
\* what is known and come back later.
ReadUpstream ==
    /\ pc = "upstream"
    /\ \/ /\ api[Upstream(key)] # None
          /\ NoPut /\ Goto("external") /\ UNCHANGED <<obj, loc>>
       \/ /\ api[Upstream(key)] = None
          /\ IF key \in fresh THEN Put(key, [WithAddress(obj) EXCEPT !.app = TRUE])
                              ELSE NoPut
          /\ Fail
    /\ UNCHANGED <<view, poolVars, budgetVars>>

\* externalServerURL.
Server == IF loc.info = "fqdn" THEN "fqdn" ELSE "service"

Published == Goto(IF obj.spec.register THEN "child" ELSE "status") /\ UNCHANGED <<obj, loc>>

\* writeExternalKubeconfig: CreateOrUpdate on the cached Secret.  Create it,
\* or update its content, or its owner only; find it as desired or take
\* AlreadyExists for a success; or fail on a conflict.
WriteExternal ==
    LET e == External(key)
        seen == view[e]
        same == seen # None /\ ext[key][seen.rev] = Server
        asDesired == same /\ Mine(seen) IN
    /\ pc = "external"
    /\ \/ /\ IF seen = None THEN api[e] = None ELSE ~same /\ synced[e]
          /\ Len(ext[key]) < MaxRevisions
          /\ ext' = [ext EXCEPT ![key] = Append(@, Server)]
          /\ Put(e, [uid |-> Owner, rev |-> Len(ext[key]) + 1])
          /\ Published
       \/ /\ same /\ ~asDesired /\ synced[e]
          /\ Put(e, [seen EXCEPT !.uid = Owner])
          /\ Published /\ UNCHANGED ext
       \/ /\ IF seen = None THEN api[e] # None ELSE asDesired
          /\ NoPut /\ Published /\ UNCHANGED ext
       \/ /\ seen # None /\ ~asDesired /\ ~synced[e]
          /\ NoPut /\ Fail /\ UNCHANGED ext
    /\ UNCHANGED <<view, poolVars, budgetVars>>

\* upsertChildCluster: CreateOrUpdate on the cached child, whose spec is the
\* same every time.  A child that is being deleted is updated like any other.
UpsertChild ==
    LET c == Child(key)
        seen == view[c]
        asDesired == seen # None /\ Mine(seen) IN
    /\ pc = "child"
    /\ \/ /\ seen = None /\ api[c] = None
          /\ Put(c, [uid |-> Owner, fin |-> FALSE, deleting |-> FALSE])
          /\ Goto("status") /\ UNCHANGED <<obj, loc>>
       \/ /\ seen # None /\ ~asDesired /\ synced[c]
          /\ Put(c, [seen EXCEPT !.uid = Owner])
          /\ Goto("status") /\ UNCHANGED <<obj, loc>>
       \/ /\ IF seen = None THEN api[c] # None ELSE asDesired
          /\ NoPut /\ Goto("status") /\ UNCHANGED <<obj, loc>>
       \/ /\ seen # None /\ ~asDesired /\ ~synced[c]
          /\ NoPut /\ Fail
    /\ UNCHANGED <<view, poolVars, budgetVars>>

\* The reference to the child follows argoCD.register.
UpdateStatus ==
    pc = "status" /\
    PublishStatus([WithAddress(obj) EXCEPT !.app = TRUE, !.child = obj.spec.register])

-----------------------------------------------------------------------------
\* What the API server makes of the deletion of a child.
Deleted(c) == IF c.fin THEN [c EXCEPT !.deleting = TRUE] ELSE None

\* Mistake: strip the child's finalizer along with it.
ForceDeleteChild ==
    /\ pc = "undo"
    /\ IF obj.child THEN Put(Child(key), None) ELSE NoPut
    /\ Goto("unapp")
    /\ UNCHANGED <<obj, loc, view, poolVars, budgetVars>>

\* finalize deletes the child, if the status names one, without waiting for
\* it, ...
DeleteChildCluster ==
    LET c == Child(key) IN
    /\ pc = "undo"
    /\ IF obj.child /\ api[c] # None THEN Put(c, Deleted(api[c])) ELSE NoPut
    /\ Goto("unapp")
    /\ UNCHANGED <<obj, loc, view, poolVars, budgetVars>>

\* ... then the Application, on which upsertApplication has set no finalizer,
\* and gives the IP back if there is a networkKey.
DeleteApplication ==
    /\ pc = "unapp"
    /\ IF obj.app THEN Put(App(key), None) ELSE NoPut
    /\ Goto(IF obj.spec.net THEN AfterUndo(obj) ELSE "unfinalize")
    /\ UNCHANGED <<obj, loc, view, poolVars, budgetVars>>

-----------------------------------------------------------------------------
\* ArgoCD installs what the Application asks for.  What it has installed stays
\* when an Application without ArgoCD's finalizer is deleted.
Install(n) ==
    /\ api[App(n)] # None /\ api[Upstream(n)] = None
    /\ EnvPut(Upstream(n), "kubeconfig") /\ UNCHANGED budgetVars

\* The garbage collector deletes what a Vcluster that is gone has owned.
Orphaned(n, o) ==
    /\ api[o] # None /\ api[o].uid # 0
    /\ api[n] # None => api[n].uid # api[o].uid

CollectOwned(n) ==
    /\ \/ \E o \in {App(n), External(n)} : Orphaned(n, o) /\ EnvPut(o, None)
       \/ Orphaned(n, Child(n)) /\ EnvPut(Child(n), Deleted(api[Child(n)]))
    /\ UNCHANGED budgetVars

\* Somebody deletes the child or the kubeconfig Secret.
LoseOwned(n) ==
    /\ Edit
    /\ \/ api[Child(n)] # None /\ EnvPut(Child(n), Deleted(api[Child(n)]))
       \/ api[External(n)] # None /\ EnvPut(External(n), None)

-----------------------------------------------------------------------------
(***************************************************************************)
(* The ClusterbookCluster controller.                                      *)
(***************************************************************************)
Phase(n) ==
    LET c == api[Child(n)] IN
    IF c = None THEN "none" ELSE IF c.deleting THEN "deleting"
    ELSE IF c.fin THEN "kept" ELSE "new"

Registered == INSTANCE Registration
                 WITH child <- [n \in Names |-> Phase(n)],
                      source <- [n \in Names |-> Len(ext[n])]


AdoptChild(n) ==
    /\ Phase(n) = "new"
    /\ EnvPut(Child(n), [api[Child(n)] EXCEPT !.fin = TRUE])
    /\ UNCHANGED <<budgetVars, ext, argo>>
    /\ Registered!Adopt(n)

RetireChild(n) ==
    /\ Phase(n) = "deleting"
    /\ EnvPut(Child(n), None)
    /\ UNCHANGED <<budgetVars, ext, argo>>
    /\ Registered!Retire(n)

RenderArgo(n, r) == UNCHANGED <<vars, ext>> /\ Registered!Render(n, r)

\* The Secret goes with the child.
RemoveArgo(n) ==
    /\ Phase(n) # "kept" /\ argo[n] # 0
    /\ UNCHANGED <<vars, ext>>
    /\ Registered!Remove(n)

\* What the other controller does sooner or later (RenderFollows there),
\* besides letting a deleted child go (DeletionCompletes).
ChildProgress(n) ==
    \/ AdoptChild(n) \/ RemoveArgo(n)
    \/ /\ Phase(n) = "kept" /\ api[External(n)] # None
       /\ RenderArgo(n, Len(ext[n]))

-----------------------------------------------------------------------------
Init ==
    /\ InitWith([o \in {} |-> None])
    /\ ext = [n \in Names |-> <<>>]
    /\ argo = [n \in Names |-> 0]

Reconcile ==
    /\ \/ /\ \/ AddFinalizer \/ EnsureReservation \/ ReserveIPs \/ GetClusterInfo
             \/ UpsertApplication \/ ReadUpstream \/ UpsertChild \/ UpdateStatus
             \/ DeleteChildCluster \/ DeleteApplication \/ ReleaseIP \/ RemoveFinalizer
          /\ UNCHANGED ext
       \/ WriteExternal
    /\ UNCHANGED argo

Misfortune ==
    \/ FailedCall({"app", "upstream", "external", "child", "undo", "unapp"})
    \/ LostReply(TRUE) \/ IgnoredError("app") \/ Crash

Disturbable ==
    edits + faults + Cardinality({n \in Names : births[n] > 1}) < MaxDisturbances

Disturbance ==
    /\ Disturbable
    /\ Misfortune \/ \E n \in Names : EditCR(n, SpecChoices) \/ LoseOwned(n)
    /\ UNCHANGED <<ext, argo>>

Users(n) ==
    /\ \/ (births[n] = 0 \/ Disturbable) /\ CreateCR(n, NewVcluster)
       \/ DeleteCR(n)
    /\ UNCHANGED <<ext, argo>>

\* Mistake: For, without Owns.
WakesItself(o) == Names \cap {o}

\* For and Owns: the CRs that an event queues.
Wakes(o) == {n \in Names : o \in {n, Child(n), External(n)}}

\* One informer each for Vclusters, ClusterbookClusters and Secrets.
Informers == {Names, {Child(n) : n \in Names}, {External(n) : n \in Names}}

Delivery     == (\E K \in Informers : Deliver(K, Wakes)) /\ UNCHANGED <<ext, argo>>
StartWork(n) == Start(n) /\ UNCHANGED <<ext, argo>>
ArgoCD(n)    == Install(n) /\ UNCHANGED <<ext, argo>>
Collect(n)   == CollectOwned(n) /\ UNCHANGED <<ext, argo>>

ChildController(n) ==
    \/ AdoptChild(n) \/ RetireChild(n) \/ RemoveArgo(n)
    \/ \E r \in 1..Len(ext[n]) : RenderArgo(n, r)

Next ==
    \/ Reconcile \/ Disturbance \/ Delivery
    \/ \E n \in Names :
          StartWork(n) \/ ArgoCD(n) \/ Collect(n) \/ ChildController(n) \/ Users(n)

Spec == Init /\ [][Next]_allVars

(***************************************************************************)
(* The worker finishes what it started, the queue is first in, first out,  *)
(* the watches deliver and the garbage collector runs; ArgoCD installs;    *)
(* the other controller keeps its promises.  The subscripts are what each  *)
(* of these changes.                                                       *)
(***************************************************************************)
FairSpec ==
    /\ Spec
    /\ WF_pc(Reconcile) /\ WF_synced(Delivery)
    /\ \A n \in Names :
          /\ SF_queue(StartWork(n)) /\ WF_api(Collect(n)) /\ WF_api(ArgoCD(n))
          /\ WF_<<api, argo>>(ChildProgress(n)) /\ WF_api(RetireChild(n))

-----------------------------------------------------------------------------
TypeOK ==
    /\ WorkOK
    /\ pc = "info" => loc.ip \in IPs
    /\ \A n \in Names :
          /\ api[n] \in Vclusters \cup {None}
          /\ api[App(n)] # None => api[App(n)] \in Applications
          /\ api[External(n)] # None =>
                api[External(n)] \in [uid : Nat, rev : 1..Len(ext[n])]
          /\ argo[n] \in 0..Len(ext[n])

(***************************************************************************)
(* A Vcluster that wants it ends up registered with ArgoCD under the       *)
(* server URL of its kubeconfig Secret, with a certificate that covers it, *)
(* although the child and the Secret may be lost, caches lag and           *)
(* GetClusterInfo's error is dropped.  The URL is the one that goes with   *)
(* the reservation if no call ever failed: after a dropped error nothing   *)
(* wakes the controller, unless it changed the Secret.  As long as others  *)
(* have not used up the pool.                                              *)
(***************************************************************************)
Serves(n) ==
    /\ api[n] # None
    /\ ~api[n].deleting /\ api[n].spec.register
    /\ api[n].spec.net => Held(n) \cup Free # {}

Follows(n) ==
    /\ argo[n] # 0 /\ api[External(n)] # None /\ api[App(n)] # None
    /\ api[External(n)].rev = argo[n]
    /\ api[App(n)].san <=> ext[n][argo[n]] = "fqdn"
    /\ faults = 0 => (api[App(n)].san <=> api[n].spec.net)

ArgoCDFollows == \A n \in Names : <>[](Serves(n) => Follows(n))

(***************************************************************************)
(* Whatever the controller, users and the garbage collector do to a child  *)
(* and to its kubeconfig Secret, after crashes and from stale caches, is   *)
(* what Registration lets a user do: the promises of the other controller  *)
(* hold here.                                                              *)
(***************************************************************************)
UsesRegistration == Registered!Spec

(***************************************************************************)
(* A Vcluster that is deleted goes away, and so do the child, the          *)
(* kubeconfig Secret, the Application and the cluster Secret ArgoCD has of *)
(* it, though finalize only asks for the child's deletion, does not know   *)
(* of a child once argoCD.register has been set to false, leaves the       *)
(* kubeconfig Secret alone, may come before a status names anything, and   *)
(* the next Vcluster of the name may take over what is left.  The vcluster *)
(* itself, with the kubeconfig on its host, is not among these.            *)
(***************************************************************************)
Leaving(n) == births[n] > 0 /\ (api[n] # None => api[n].deleting)

Cleared(n) ==
    argo[n] = 0 /\ \A o \in {n, Child(n), External(n), App(n)} : api[o] = None

TornDown == \A n \in Names : []<>(Leaving(n) => Cleared(n))
====
