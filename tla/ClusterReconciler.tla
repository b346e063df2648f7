------------------------- MODULE ClusterReconciler -------------------------
(***************************************************************************)
(* The ClusterbookCluster controller (src/controller/reconciler.go)        *)
(* between the two systems it keeps in step: the Kubernetes API server,    *)
(* which it reads through informer caches and writes with optimistic       *)
(* concurrency, and the clusterbook server, which hands out IPs.           *)
(*                                                                         *)
(* Every call to either system is a step of its own, so that the steps of  *)
(* users, watches, the garbage collector, a crash and other managers fall  *)
(* between them.  A cached read and the write that depends on it are one   *)
(* step: the write carries the resourceVersion of the read, so whatever    *)
(* happens between the two already shows as a copy that is out of date.    *)
(*                                                                         *)
(* Abstractions:                                                           *)
(*  - a ClusterbookCluster is named by its spec.clusterName;               *)
(*  - resourceVersions are the flags synced (a cached copy is the current  *)
(*    version) and fresh (so is the worker's copy of the CR); a write that *)
(*    changes nothing leaves them alone;                                   *)
(*  - a kubeconfig is its revision number, and so is its SHA-256;          *)
(*  - the labels and annotations of a Secret are the facts they publish;   *)
(*  - there is one clusterbook network pool.                               *)
(***************************************************************************)
EXTENDS Naturals, FiniteSets

CONSTANTS
    Managers,      \* operator processes; each runs one reconcile worker
    Clusters,      \* names of ClusterbookClusters
    IPs,           \* addresses of the clusterbook pool
    Pinned,        \* stands for a range pinned by spec.lbRange.start/stop
    None,          \* the empty string, a missing object, no key in work
    Bare,          \* a foreign Secret that carries no clusterbook metadata
    SpecChoices,   \* the specs users write
    Mangles,       \* the listing reports createDNS reservations as "DNS"
    MaxCreates,    \* bound: lives of each name
    MaxRevisions,  \* bound: kubeconfig revisions of each cluster
    MaxEdits,      \* bound: spec edits and Secret changes made by others
    MaxFaults      \* bound: failed calls, lost replies and crashes

\* The fields of a spec, and what the CRD's validation rules admit.
Specs == [net : BOOLEAN, skip : BOOLEAN, kind : BOOLEAN, enrich : BOOLEAN,
          dns : BOOLEAN, useFQDN : BOOLEAN, preserve : BOOLEAN,
          release : BOOLEAN, lb : {"none", "pinned", "count"}, count : Nat]

ValidSpec(s) ==
    /\ s \in Specs
    /\ s.skip \/ s.kind \/ s.net
    /\ s.net \/ s.preserve
    /\ s.lb = "count" <=> s.count > 0

ASSUME SpecAssumption == \A s \in SpecChoices : ValidSpec(s)

ASSUME NoneAssumption ==
    /\ None \notin Managers \cup Clusters \cup IPs \cup {Pinned, Bare}
    /\ Pinned \notin IPs

ASSUME BoundAssumption ==
    /\ {MaxCreates, MaxRevisions, MaxEdits, MaxFaults} \subseteq Nat
    /\ Mangles \in BOOLEAN

-----------------------------------------------------------------------------
VARIABLES
    api,       \* the API server: api[kind][c]
    view,      \* the informer cache of each manager: view[m][kind][c]
    synced,    \* that cached copy is the current version
    queue,     \* the work queue of each manager
    pc,        \* what the worker of each manager does next
    key,       \* the name it reconciles
    obj,       \* its copy of the ClusterbookCluster
    fresh,     \* that copy still is the current version
    loc,       \* the local variables of Reconcile
    holder,    \* clusterbook: the cluster an IP is assigned to
    dns,       \* clusterbook: the assignment has a DNS record
    births,    \* creations of each name so far; the last one is its uid
    edits,     \* changes made by others so far
    faults     \* faults so far

k8sVars    == <<api, view, synced, fresh>>
workVars   == <<pc, key, obj, loc, queue>>
poolVars   == <<holder, dns>>
budgetVars == <<births, edits, faults>>
vars       == <<k8sVars, workVars, poolVars, budgetVars>>

-----------------------------------------------------------------------------
(***************************************************************************)
(* The objects of the API server: the ClusterbookCluster, the rendered     *)
(* Secret cluster-<name>, the Secret named by existingSecretRef and the    *)
(* revision of the one named by kubeconfigSecretRef, 0 when it is missing. *)
(***************************************************************************)
Kinds  == {"cr", "argo", "foreign", "source"}
Ranges == SUBSET (IPs \cup {Pinned})
Infos  == {"nil", "plain", "fqdn"}     \* no answer, no FQDN, with FQDN
Hosts  == IPs \cup {None, "fqdn", "kubeconfig"}
Conds  == {"Unknown", "True", "False"} \* of the Ready condition

CRs == [uid : Nat, deleting : BOOLEAN, fin : BOOLEAN, spec : SpecChoices,
        ip : IPs \cup {None}, lb : Ranges, rev : Nat, ready : BOOLEAN,
        info : Infos, cond : Conds]

ArgoSecrets == [uid : Nat, rev : Nat, ip : IPs \cup {None}, lb : Ranges,
                info : Infos, ready : BOOLEAN, server : Hosts]

Metadata == [ip : IPs \cup {None}, lb : Ranges, info : Infos]

Objects(k) ==
    CASE k = "cr"      -> CRs \cup {None}
      [] k = "argo"    -> ArgoSecrets \cup {None}
      [] k = "foreign" -> Metadata \cup {None, Bare}
      [] k = "source"  -> Nat

\* A missing object is none of them.
ASSUME ObjectAssumption == None \notin CRs \cup ArgoSecrets

NewCR(uid, s) == [uid |-> uid, deleting |-> FALSE, fin |-> FALSE, spec |-> s,
                  ip |-> None, lb |-> {}, rev |-> 0, ready |-> FALSE,
                  info |-> "nil", cond |-> "Unknown"]

Locals == [ip : IPs \cup {None}, lb : Ranges, info : Infos, rev : Nat,
           server : Hosts, ready : BOOLEAN, cond : Conds, again : BOOLEAN]

NoLocals == [ip |-> None, lb |-> {}, info |-> "nil", rev |-> 0, server |-> None,
             ready |-> FALSE, cond |-> "Unknown", again |-> FALSE]

Steps == {"idle", "finalizer", "ensure", "reserve", "drift", "update", "info",
          "render", "upsert", "enrich", "status", "delete", "strip",
          "release", "unfinalize"}

-----------------------------------------------------------------------------
\* What clusterbook has assigned to c, and what it can still assign.
Held(c) == {i \in IPs : holder[i] = c}
Free    == {i \in IPs : holder[i] = None}

\* Mistakes: match every entry of the listing, match none.
AnyListed(c)  == {i \in IPs : holder[i] # None}
NoneListed(c) == {}

\* GetIPs as the reconciler reads it: the entries whose Cluster is c.
Listed(c) == {i \in Held(c) : ~(Mangles /\ dns[i])}

RegistrationOnly(s) == s.skip \/ (s.kind /\ ~s.net)

\* Mistake: publish an empty range as a range.
EmptyLB(s) == IF s.lb = "pinned" THEN {Pinned} ELSE {None}

\* The load-balancer range when it can only come from the spec ...
PinnedLB(s) == IF s.lb = "pinned" THEN {Pinned} ELSE {}

\* ... and of a CR whose IP is in status.
ResolvedLB(cr) == IF cr.spec.lb = "count" THEN cr.lb ELSE PinnedLB(cr.spec)

BuildServer(s, ip, info) ==
    IF s.preserve THEN "kubeconfig"
    ELSE IF s.useFQDN /\ info = "fqdn" THEN "fqdn" ELSE ip

-----------------------------------------------------------------------------
\* How a worker moves on: to the next step, to an error, which queues the
\* name again, and to the end, which does so only with RequeueAfter.
Goto(m, step) ==
    /\ pc' = [pc EXCEPT ![m] = step]
    /\ UNCHANGED <<key, obj, queue>>

Idle(m) ==
    /\ pc'  = [pc EXCEPT ![m] = "idle"]
    /\ key' = [key EXCEPT ![m] = None]
    /\ obj' = [obj EXCEPT ![m] = None]
    /\ loc' = [loc EXCEPT ![m] = NoLocals]

Requeue(m, c) == queue' = [queue EXCEPT ![m] = @ \cup {c}]

\* Mistake: log the error and return nil.
Forget(m) == Idle(m) /\ UNCHANGED queue

Fail(m) == Idle(m) /\ Requeue(m, key[m])

Return(m) ==
    Idle(m) /\ IF loc[m].again THEN Requeue(m, key[m]) ELSE UNCHANGED queue

(***************************************************************************)
(* A write to the API server.  One that changes the object makes every     *)
(* cached copy out of date, and every worker's copy but the writer's.      *)
(***************************************************************************)
Write(writer, k, c, new) ==
    IF new = api[k][c]
    THEN UNCHANGED <<api, synced, fresh>>
    ELSE /\ api' = [api EXCEPT ![k][c] = new]
         /\ synced' = [n \in Managers |-> [synced[n] EXCEPT ![k][c] = FALSE]]
         /\ fresh' = [n \in Managers |->
                        fresh[n] /\ ~(k = "cr" /\ key[n] = c /\ n # writer)]

AllSynced == [k \in Kinds |-> [c \in Clusters |-> TRUE]]

NoWrite == UNCHANGED <<api, synced, fresh>>

-----------------------------------------------------------------------------
(***************************************************************************)
(* Reconcile, step by step.                                                *)
(***************************************************************************)
\* Mistake: go to work before the finalizer is there.
FirstWork(cr) ==
    IF cr.deleting
    THEN IF ~cr.fin THEN "idle" ELSE IF cr.spec.enrich THEN "strip" ELSE "delete"
    ELSE "ensure"

\* Where Reconcile goes once the provider config is loaded.
FirstStep(cr) ==
    IF cr.deleting
    THEN IF ~cr.fin THEN "idle" ELSE IF cr.spec.enrich THEN "strip" ELSE "delete"
    ELSE IF ~cr.fin THEN "finalizer" ELSE "ensure"

\* A worker takes a name and reads the CR from its cache.  A provider config
\* that cannot be loaded puts the name straight back: no step.
Start(m, c) ==
    /\ pc[m] = "idle" /\ c \in queue[m]
    /\ queue' = [queue EXCEPT ![m] = @ \ {c}]
    /\ LET cr == view[m]["cr"][c] IN
       IF cr = None \/ FirstStep(cr) = "idle"
       THEN UNCHANGED <<pc, key, obj, loc, fresh>>
       ELSE /\ pc'  = [pc EXCEPT ![m] = FirstStep(cr)]
            /\ key' = [key EXCEPT ![m] = c]
            /\ obj' = [obj EXCEPT ![m] = cr]
            /\ loc' = [loc EXCEPT ![m].ready = cr.ready]
            /\ fresh' = [fresh EXCEPT ![m] = synced[m]["cr"][c]]
    /\ UNCHANGED <<api, view, synced, poolVars, budgetVars>>

AddFinalizer(m) ==
    /\ pc[m] = "finalizer"
    /\ IF fresh[m]
       THEN LET new == [obj[m] EXCEPT !.fin = TRUE] IN
            /\ Write(m, "cr", key[m], new)
            /\ obj' = [obj EXCEPT ![m] = new]
            /\ pc' = [pc EXCEPT ![m] = "ensure"]
            /\ UNCHANGED <<key, loc, queue>>
       ELSE Fail(m) /\ NoWrite
    /\ UNCHANGED <<view, poolVars, budgetVars>>

\* The step that publishes the allocation on a Secret.
Publish(s) == IF s.enrich THEN "enrich" ELSE "render"

\* Registration-only, or ensureReservation up to its Reserve call: trust
\* status.ip, else look the name up in the listing, else reserve.
EnsureReservation(m) ==
    LET cr == obj[m] IN
    /\ pc[m] = "ensure"
    /\ \/ /\ RegistrationOnly(cr.spec)
          /\ loc' = [loc EXCEPT ![m].lb = PinnedLB(cr.spec)]
          /\ Goto(m, Publish(cr.spec))
       \/ /\ ~RegistrationOnly(cr.spec) /\ cr.ip # None
          /\ loc' = [loc EXCEPT ![m].ip = cr.ip, ![m].lb = ResolvedLB(cr)]
          /\ Goto(m, "drift")
       \/ /\ ~RegistrationOnly(cr.spec) /\ cr.ip = None
          /\ \E i \in Listed(key[m]) :
                loc' = [loc EXCEPT ![m].ip = i, ![m].lb = PinnedLB(cr.spec)]
          /\ Goto(m, "drift")
       \/ /\ ~RegistrationOnly(cr.spec) /\ cr.ip = None /\ Listed(key[m]) = {}
          /\ Goto(m, "reserve") /\ UNCHANGED loc
    /\ UNCHANGED <<k8sVars, poolVars, budgetVars>>

\* What the clusterbook server does with a reserve request for c: the first
\* IP of its answer and the others.
Assign(c, s, first, others) ==
    /\ first \in Free /\ others \subseteq Free \ {first}
    /\ Cardinality(others) = s.count
    /\ holder' = [i \in IPs |-> IF i \in others \cup {first} THEN c ELSE holder[i]]
    /\ dns' = [i \in IPs |-> IF i \in others \cup {first} THEN s.dns ELSE dns[i]]

\* The request is refused when the pool is too small.
Reserve(m) ==
    LET s == obj[m].spec IN
    /\ pc[m] = "reserve"
    /\ \/ \E first \in IPs, others \in SUBSET IPs :
             /\ Assign(key[m], s, first, others)
             /\ loc' = [loc EXCEPT ![m].ip = first,
                          ![m].lb = IF s.lb = "count" THEN others ELSE PinnedLB(s)]
             /\ Goto(m, "drift")
       \/ /\ Cardinality(Free) < 1 + s.count
          /\ Fail(m) /\ UNCHANGED poolVars
    /\ UNCHANGED <<k8sVars, budgetVars>>

\* What the clusterbook server does with an update request.
SetDNS(i, on) ==
    /\ dns' = [dns EXCEPT ![i] = on /\ holder[i] # None]
    /\ UNCHANGED holder

\* Mistake: compare only what was just reserved.
CheckReserved(m) ==
    LET i == loc[m].ip IN
    /\ pc[m] = "drift"
    /\ Goto(m, IF holder[i] # None /\ dns[i] # obj[m].spec.dns /\ obj[m].ip = None
               THEN "update" ELSE "info")
    /\ UNCHANGED <<loc, k8sVars, poolVars, budgetVars>>

\* reconcileDNSDrift reads the listing ...
CheckDrift(m) ==
    LET i == loc[m].ip IN
    /\ pc[m] = "drift"
    /\ Goto(m, IF holder[i] # None /\ dns[i] # obj[m].spec.dns
               THEN "update" ELSE "info")
    /\ UNCHANGED <<loc, k8sVars, poolVars, budgetVars>>

\* ... and calls UpdateIP when the DNS state differs from the spec.
UpdateIP(m) ==
    /\ pc[m] = "update"
    /\ SetDNS(loc[m].ip, obj[m].spec.dns)
    /\ Goto(m, "info")
    /\ UNCHANGED <<loc, k8sVars, budgetVars>>

\* The clusterbook server's answer to GetClusterInfo.
ClusterInfo(c) == IF \E i \in Held(c) : dns[i] THEN "fqdn" ELSE "plain"

GetClusterInfo(m) ==
    /\ pc[m] = "info"
    /\ loc' = [loc EXCEPT ![m].info = ClusterInfo(key[m])]
    /\ Goto(m, Publish(obj[m].spec))
    /\ UNCHANGED <<k8sVars, poolVars, budgetVars>>

\* Mistake: keep to the revision in the status.
RecordedRevision(m) ==
    IF obj[m].rev # 0 THEN obj[m].rev ELSE view[m]["source"][key[m]]

\* The kubeconfig loadKubeconfig reads, from the cache.
Revision(m) == view[m]["source"][key[m]]

\* What the probe of /readyz may report: it answered 200, or it did not.
Probe == BOOLEAN

\* Render mode: load the kubeconfig, build the server URL and, until
\* it has answered once, probe the cluster.
LoadKubeconfig(m) ==
    LET l == loc[m] IN
    /\ pc[m] = "render"
    /\ \/ Revision(m) = 0 /\ Fail(m)
       \/ /\ Revision(m) # 0
          /\ \E answers \in Probe :
                loc' = [loc EXCEPT ![m] =
                   [l EXCEPT !.rev = Revision(m),
                             !.server = BuildServer(obj[m].spec, l.ip, l.info),
                             !.ready = l.ready \/ answers,
                             !.again = ~l.ready /\ ~answers]]
          /\ Goto(m, "upsert")
    /\ UNCHANGED <<k8sVars, poolVars, budgetVars>>

\* The end of both modes: the Ready condition, then the status.
Published(m, cond) ==
    /\ loc' = [loc EXCEPT ![m].cond = cond]
    /\ Goto(m, "status")

\* The Secret upsertArgoSecret asks for.
Desired(m) ==
    [uid |-> obj[m].uid, rev |-> loc[m].rev, ip |-> loc[m].ip,
     lb |-> loc[m].lb, info |-> loc[m].info, ready |-> loc[m].ready,
     server |-> loc[m].server]

\* CreateOrUpdate on the cached Secret: create it, take AlreadyExists for a
\* success, or update it.  With its StringData it never is as desired, so the
\* update is always sent and conflicts on a copy that is out of date.  The
\* owner reference of an earlier CR of that name is replaced.
UpsertArgoSecret(m) ==
    LET c == key[m]
        seen == view[m]["argo"][c]
        current == synced[m]["argo"][c] IN
    /\ pc[m] = "upsert"
    /\ \/ /\ seen = None /\ api["argo"][c] = None
          /\ Write(m, "argo", c, Desired(m)) /\ Published(m, "True")
       \/ /\ seen = None /\ api["argo"][c] # None
          /\ NoWrite /\ Published(m, "True")
       \/ /\ seen # None /\ current
          /\ Write(m, "argo", c, Desired(m)) /\ Published(m, "True")
       \/ /\ seen # None /\ ~current
          /\ NoWrite /\ Fail(m)
    /\ UNCHANGED <<view, poolVars, budgetVars>>

\* Enrich mode: merge the metadata onto the foreign Secret, if it is there.
EnrichExistingSecret(m) ==
    LET c == key[m]
        meta == [ip |-> loc[m].ip, lb |-> loc[m].lb, info |-> loc[m].info] IN
    /\ pc[m] = "enrich"
    /\ \/ /\ view[m]["foreign"][c] = None
          /\ NoWrite /\ Published(m, "False")
       \/ /\ view[m]["foreign"][c] # None /\ synced[m]["foreign"][c]
          /\ Write(m, "foreign", c, meta) /\ Published(m, "True")
       \/ /\ view[m]["foreign"][c] # None /\ ~synced[m]["foreign"][c]
          /\ NoWrite /\ Fail(m)
    /\ UNCHANGED <<view, poolVars, budgetVars>>

\* The CR with the status Reconcile publishes at the end.
NewStatus(m) ==
    LET l == loc[m] IN
    [obj[m] EXCEPT !.ip = l.ip, !.lb = l.lb, !.rev = l.rev, !.ready = l.ready,
                   !.cond = l.cond, !.info = IF l.info = "nil" THEN @ ELSE l.info]

\* Mistake: a status patch that carries no resourceVersion.
PatchStatus(m) ==
    LET new == NewStatus(m)
        cr == api["cr"][key[m]] IN
    /\ pc[m] = "status"
    /\ IF cr = None THEN NoWrite
       ELSE Write(m, "cr", key[m], [cr EXCEPT !.ip = new.ip, !.ready = new.ready])
    /\ Return(m)
    /\ UNCHANGED <<view, poolVars, budgetVars>>

\* A conflict is only logged.
UpdateStatus(m) ==
    /\ pc[m] = "status"
    /\ IF fresh[m] THEN Write(m, "cr", key[m], NewStatus(m)) ELSE NoWrite
    /\ Return(m)
    /\ UNCHANGED <<view, poolVars, budgetVars>>

-----------------------------------------------------------------------------
(***************************************************************************)
(* finalize.                                                               *)
(***************************************************************************)
\* The call that follows the cleanup of the Secret.
AfterCleanup(cr) ==
    IF ~RegistrationOnly(cr.spec) /\ cr.spec.release /\ cr.ip # None
    THEN "release" ELSE "unfinalize"

\* Render mode: delete cluster-<name>, whoever owns it by now.
DeleteArgoSecret(m) ==
    /\ pc[m] = "delete"
    /\ Write(m, "argo", key[m], None)
    /\ Goto(m, AfterCleanup(obj[m]))
    /\ UNCHANGED <<view, loc, poolVars, budgetVars>>

\* Mistake: ignore the conflict, as the deletion of the Secret does.
StripAndForget(m) ==
    /\ pc[m] = "strip"
    /\ IF view[m]["foreign"][key[m]] # None /\ synced[m]["foreign"][key[m]]
       THEN Write(m, "foreign", key[m], Bare) ELSE NoWrite
    /\ Goto(m, AfterCleanup(obj[m]))
    /\ UNCHANGED <<view, loc, poolVars, budgetVars>>

StripEnrichedMetadata(m) ==
    LET c == key[m] IN
    /\ pc[m] = "strip"
    /\ \/ /\ view[m]["foreign"][c] = None
          /\ NoWrite /\ Goto(m, AfterCleanup(obj[m])) /\ UNCHANGED loc
       \/ /\ view[m]["foreign"][c] # None /\ synced[m]["foreign"][c]
          /\ Write(m, "foreign", c, Bare)
          /\ Goto(m, AfterCleanup(obj[m])) /\ UNCHANGED loc
       \/ /\ view[m]["foreign"][c] # None /\ ~synced[m]["foreign"][c]
          /\ NoWrite /\ Fail(m)
    /\ UNCHANGED <<view, poolVars, budgetVars>>

\* What the clusterbook server does with a release request: it names an IP,
\* not the cluster that gives it back.
Unassign(i) ==
    /\ holder' = [holder EXCEPT ![i] = None]
    /\ dns' = [dns EXCEPT ![i] = FALSE]

ReleaseIP(m) ==
    /\ pc[m] = "release"
    /\ Unassign(obj[m].ip)
    /\ Goto(m, "unfinalize")
    /\ UNCHANGED <<loc, k8sVars, budgetVars>>

\* Mistake: a patch that carries no resourceVersion.
PatchFinalizer(m) ==
    /\ pc[m] = "unfinalize"
    /\ Write(m, "cr", key[m], None) /\ Idle(m)
    /\ UNCHANGED <<view, queue, poolVars, budgetVars>>

\* Without its last finalizer the deleted object is gone.
RemoveFinalizer(m) ==
    /\ pc[m] = "unfinalize"
    /\ IF fresh[m]
       THEN Write(m, "cr", key[m], None) /\ Idle(m) /\ UNCHANGED queue
       ELSE NoWrite /\ Fail(m)
    /\ UNCHANGED <<view, poolVars, budgetVars>>

-----------------------------------------------------------------------------
(***************************************************************************)
(* Faults, at most MaxFaults of them.                                      *)
(***************************************************************************)
Fault == faults < MaxFaults /\ faults' = faults + 1

\* A call whose error Reconcile returns; the listing is only read when
\* status.ip is empty.
FailedCall(m) ==
    /\ Fault
    /\ \/ pc[m] \in {"finalizer", "reserve", "drift", "update", "upsert",
                     "enrich", "strip", "release", "unfinalize"}
       \/ pc[m] = "ensure" /\ ~RegistrationOnly(obj[m].spec) /\ obj[m].ip = None
    /\ Fail(m)
    /\ UNCHANGED <<k8sVars, poolVars, births, edits>>

\* A reserve, update or release request is served, but its answer is lost.
LostReply(m) ==
    /\ Fault
    /\ \/ /\ pc[m] = "reserve"
          /\ \E first \in IPs, others \in SUBSET IPs :
                Assign(key[m], obj[m].spec, first, others)
       \/ pc[m] = "update" /\ SetDNS(loc[m].ip, obj[m].spec.dns)
       \/ pc[m] = "release" /\ Unassign(obj[m].ip)
    /\ Fail(m)
    /\ UNCHANGED <<k8sVars, births, edits>>

\* GetClusterInfo, the Secret's deletion and the status update may fail
\* without Reconcile returning the error.
IgnoredError(m) ==
    /\ Fault
    /\ \/ pc[m] = "info" /\ Goto(m, Publish(obj[m].spec)) /\ UNCHANGED loc
       \/ pc[m] = "delete" /\ Goto(m, AfterCleanup(obj[m])) /\ UNCHANGED loc
       \/ pc[m] = "status" /\ Return(m)
    /\ UNCHANGED <<k8sVars, poolVars, births, edits>>

\* A manager dies and comes back with new caches and every name queued.
Crash(m) ==
    /\ Fault
    /\ Idle(m)
    /\ view' = [view EXCEPT ![m] = api]
    /\ synced' = [synced EXCEPT ![m] = AllSynced]
    /\ queue' = [queue EXCEPT ![m] = {c \in Clusters : api["cr"][c] # None}]
    /\ UNCHANGED <<api, fresh, poolVars, births, edits>>

-----------------------------------------------------------------------------
(***************************************************************************)
(* Informers and the watches of SetupWithManager.  There is one informer   *)
(* for the CRs and one for all Secrets; the watch behind it is ordered, so *)
(* a cache is always some past state of all its objects.  Every event of a *)
(* CR and of the Secret it owns queues the name; clustersForSecret looks   *)
(* the other two Secrets up in the specs of the cached CRs.                *)
(***************************************************************************)
Informers == {{"cr"}, {"argo", "foreign", "source"}}

\* Mistake (issue #109): watch only what the operator owns.
EnqueuesOwned(m, k, c) == k \in {"cr", "argo"}

Enqueues(m, k, c) ==
    LET cr == view[m]["cr"][c] IN
    \/ k \in {"cr", "argo"}
    \/ k = "foreign" /\ cr # None /\ cr.spec.enrich
    \/ k = "source" /\ cr # None /\ ~cr.spec.enrich

Deliver(m, K) ==
    LET events == {e \in K \X Clusters : ~synced[m][e[1]][e[2]]} IN
    /\ events # {}
    /\ view' = [view EXCEPT ![m] =
                  [k \in Kinds |-> IF k \in K THEN api[k] ELSE view[m][k]]]
    /\ synced' = [synced EXCEPT ![m] =
                    [k \in Kinds |-> IF k \in K THEN AllSynced[k] ELSE synced[m][k]]]
    /\ queue' = [queue EXCEPT ![m] = @ \cup
                   {e[2] : e \in {e \in events : Enqueues(m, e[1], e[2])}}]
    /\ UNCHANGED <<api, fresh, pc, key, obj, loc, poolVars, budgetVars>>

\* The informers' periodic resync (every ten hours unless configured).
Resync(m) ==
    /\ queue' = [queue EXCEPT ![m] =
                   @ \cup {c \in Clusters : view[m]["cr"][c] # None}]
    /\ UNCHANGED <<k8sVars, pc, key, obj, loc, poolVars, budgetVars>>

-----------------------------------------------------------------------------
(***************************************************************************)
(* Users, other controllers and the garbage collector.                     *)
(***************************************************************************)
EnvWrite(k, c, new) ==
    Write(None, k, c, new) /\ UNCHANGED <<view, workVars, poolVars>>

Edit == edits < MaxEdits /\ edits' = edits + 1 /\ UNCHANGED <<births, faults>>

CreateCR(c) ==
    /\ api["cr"][c] = None /\ births[c] < MaxCreates
    /\ births' = [births EXCEPT ![c] = @ + 1]
    /\ \E s \in SpecChoices : EnvWrite("cr", c, NewCR(births[c] + 1, s))
    /\ UNCHANGED <<edits, faults>>

EditCR(c) ==
    LET cr == api["cr"][c] IN
    /\ cr # None /\ Edit
    /\ \E s \in SpecChoices \ {cr.spec} :
          EnvWrite("cr", c, [cr EXCEPT !.spec = s])

DeleteCR(c) ==
    LET cr == api["cr"][c] IN
    /\ cr # None
    /\ ~cr.deleting
    /\ EnvWrite("cr", c, IF cr.fin THEN [cr EXCEPT !.deleting = TRUE] ELSE None)
    /\ UNCHANGED budgetVars

\* The kubeconfig Secret appears, or the cluster is rebuilt.
RotateKubeconfig(c) ==
    /\ api["source"][c] < MaxRevisions
    /\ EnvWrite("source", c, api["source"][c] + 1)
    /\ UNCHANGED budgetVars

\* The owner of the foreign Secret creates or deletes it.
ToggleForeign(c) ==
    /\ Edit
    /\ EnvWrite("foreign", c, IF api["foreign"][c] = None THEN Bare ELSE None)

\* Somebody deletes the rendered Secret.
LoseArgoSecret(c) ==
    /\ api["argo"][c] # None /\ Edit
    /\ EnvWrite("argo", c, None)

\* The CR that the rendered Secret's owner reference names exists.
OwnerExists(c) ==
    api["cr"][c] # None /\ api["cr"][c].uid = api["argo"][c].uid

CollectGarbage(c) ==
    /\ api["argo"][c] # None
    /\ ~OwnerExists(c)
    /\ EnvWrite("argo", c, None)
    /\ UNCHANGED budgetVars

-----------------------------------------------------------------------------
Init ==
    /\ api = [k \in Kinds |-> [c \in Clusters |-> IF k = "source" THEN 0 ELSE None]]
    /\ view = [m \in Managers |-> api]
    /\ synced = [m \in Managers |-> AllSynced]
    /\ queue = [m \in Managers |-> {}]
    /\ pc = [m \in Managers |-> "idle"]
    /\ key = [m \in Managers |-> None]
    /\ obj = [m \in Managers |-> None]
    /\ fresh = [m \in Managers |-> FALSE]
    /\ loc = [m \in Managers |-> NoLocals]
    /\ holder = [i \in IPs |-> None]
    /\ dns = [i \in IPs |-> FALSE]
    /\ births = [c \in Clusters |-> 0]
    /\ edits = 0
    /\ faults = 0

Reconcile(m) ==
    \/ AddFinalizer(m) \/ EnsureReservation(m) \/ Reserve(m) \/ CheckDrift(m)
    \/ UpdateIP(m) \/ GetClusterInfo(m) \/ LoadKubeconfig(m)
    \/ UpsertArgoSecret(m) \/ EnrichExistingSecret(m) \/ UpdateStatus(m)
    \/ DeleteArgoSecret(m) \/ StripEnrichedMetadata(m) \/ ReleaseIP(m)
    \/ RemoveFinalizer(m)

Misfortune(m) ==
    FailedCall(m) \/ LostReply(m) \/ IgnoredError(m) \/ Crash(m)

Environment(c) ==
    \/ CreateCR(c) \/ EditCR(c) \/ DeleteCR(c) \/ RotateKubeconfig(c)
    \/ ToggleForeign(c) \/ LoseArgoSecret(c) \/ CollectGarbage(c)

Next ==
    \/ \E m \in Managers : Reconcile(m) \/ Misfortune(m) \/ Resync(m)
    \/ \E m \in Managers, c \in Clusters : Start(m, c)
    \/ \E m \in Managers, K \in Informers : Deliver(m, K)
    \/ \E c \in Clusters : Environment(c)

Spec == Init /\ [][Next]_vars

(***************************************************************************)
(* A worker finishes what it started, the work queue is first in, first    *)
(* out, watches deliver what changed and the garbage collector runs.       *)
(* Nobody has to edit, delete or fail anything, and nothing may depend on  *)
(* the resync.                                                             *)
(***************************************************************************)
Fairness ==
    /\ \A m \in Managers : WF_vars(Reconcile(m))
    /\ \A m \in Managers, c \in Clusters : SF_vars(Start(m, c))
    /\ \A m \in Managers, K \in Informers : WF_vars(Deliver(m, K))
    /\ \A c \in Clusters : WF_vars(CollectGarbage(c))

FairSpec == Spec /\ Fairness

-----------------------------------------------------------------------------
\* A table of objects by kind and name.
IsStore(a) ==
    /\ a = [k \in Kinds |-> a[k]]
    /\ \A k \in Kinds : a[k] \in [Clusters -> Objects(k)]

\* The type of the state; a busy worker has a name and a CR.
StoreOK ==
    /\ IsStore(api)
    /\ view = [m \in Managers |-> view[m]]
    /\ \A m \in Managers : IsStore(view[m])
    /\ synced \in [Managers -> [Kinds -> [Clusters -> BOOLEAN]]]
    /\ fresh \in [Managers -> BOOLEAN]

WorkOK ==
    /\ queue \in [Managers -> SUBSET Clusters]
    /\ pc \in [Managers -> Steps]
    /\ key \in [Managers -> Clusters \cup {None}]
    /\ obj \in [Managers -> CRs \cup {None}]
    /\ loc \in [Managers -> Locals]
    /\ \A m \in Managers : pc[m] # "idle" => key[m] \in Clusters /\ obj[m] \in CRs
    /\ \A m \in Managers : pc[m] \in {"drift", "update"} => loc[m].ip \in IPs

PoolOK ==
    holder \in [IPs -> Clusters \cup {None}] /\ dns \in [IPs -> BOOLEAN]

BudgetOK ==
    births \in [Clusters -> Nat] /\ edits \in Nat /\ faults \in Nat

TypeOK == StoreOK /\ WorkOK /\ PoolOK /\ BudgetOK

(***************************************************************************)
(* Every IP that a status, a rendered Secret or an enriched Secret shows   *)
(* is assigned to that very cluster, whatever caches, lost replies,        *)
(* crashes and other managers do.  While no CR asks for release on delete: *)
(* status.ip is trusted without asking clusterbook again.                  *)
(***************************************************************************)
Backed(c, i) == i # None => holder[i] = c

PublishedIsHeld ==
    \A c \in Clusters :
       /\ api["cr"][c] # None => Backed(c, api["cr"][c].ip)
       /\ api["argo"][c] # None => Backed(c, api["argo"][c].ip)
       /\ api["foreign"][c] \notin {None, Bare} => Backed(c, api["foreign"][c].ip)

(***************************************************************************)
(* No two clusters in service have an address in common, be it the primary *)
(* one or part of a reserved range: what TestReconcileParallel expects of  *)
(* the IPs of different CRs.                                               *)
(***************************************************************************)
Addresses(c) ==
    LET cr == api["cr"][c] IN
    IF cr = None THEN {} ELSE {i \in IPs : ~cr.deleting /\ (i = cr.ip \/ i \in cr.lb)}

Exclusive ==
    \A c, d \in Clusters : c # d => Addresses(c) \cap Addresses(d) = {}

(***************************************************************************)
(* A cluster that already holds an address is never given another one,     *)
(* however often its CR is reconciled, retried or read from a stale cache: *)
(* what ensureReservation's three layers are for.                          *)
(***************************************************************************)
ReservesOnlyOnce ==
    [][\A c \in Clusters : Held(c) # {} => Held(c)' \subseteq Held(c)]_vars

(***************************************************************************)
(* What the status of a CR records is not taken back by a reconcile that   *)
(* worked from an older copy: clusterReady latches, and status.ip changes  *)
(* only by a CR that is registration-only at that moment.                  *)
(***************************************************************************)
StatusLatches ==
    [][\A c \in Clusters :
         LET old == api["cr"][c]
             new == api'["cr"][c] IN
         old # None /\ new # None /\ new # old =>
            (old.uid = new.uid =>
               /\ old.ready => new.ready
               /\ old.ip # None /\ new.ip # old.ip
                     => new.ip = None /\ RegistrationOnly(old.spec))]_vars

(***************************************************************************)
(* A CR that asks for it is not gone before the IP in its status has been  *)
(* given back, however often finalize fails, crashes or meets an edit.     *)
(***************************************************************************)
ReleasedBeforeGone ==
    [][\A c \in Clusters :
         LET old == api["cr"][c] IN
         old # None /\ api'["cr"][c] = None =>
            (AfterCleanup(old) = "release" => holder[old.ip] # c)]_vars

(***************************************************************************)
(* The rendered Secret never goes back to an older kubeconfig.             *)
(***************************************************************************)
RenderNeverRegresses ==
    [][\A c \in Clusters :
         LET old == api["argo"][c]
             new == api'["argo"][c] IN
         old # None /\ new # None => old.rev <= new.rev]_vars

(***************************************************************************)
(* Enrich mode is reversed on delete: once the CR is gone, the foreign     *)
(* Secret carries no clusterbook metadata.                                 *)
(***************************************************************************)
EnrichReversed ==
    \A c \in Clusters :
       api["cr"][c] = None => api["foreign"][c] \in {None, Bare}

(***************************************************************************)
(* A rebuilt cluster is followed (issue #109): whenever the kubeconfig     *)
(* Secret is at revision r and a CR renders from it, the rendered Secret   *)
(* reaches r, unless the CR stops asking for it.                           *)
(***************************************************************************)
Renders(c) ==
    LET cr == api["cr"][c] IN cr # None /\ cr.spec.enrich = FALSE /\ ~cr.deleting

RenderFollows ==
    \A c \in Clusters : \A r \in 1..MaxRevisions :
       (Renders(c) /\ api["source"][c] >= r)
          ~> (Renders(c) => api["argo"][c] # None /\ api["argo"][c].rev >= r)

(***************************************************************************)
(* A deleted CR goes away.                                                 *)
(***************************************************************************)
DeletionCompletes ==
    \A c \in Clusters :
       (api["cr"][c] # None /\ api["cr"][c].deleting)
          ~> (api["cr"][c] = None \/ ~api["cr"][c].deleting)

(***************************************************************************)
(* spec.createDNS is followed: a recorded IP reaches the DNS state that    *)
(* the spec asks for and keeps it, once users leave the CR alone.          *)
(***************************************************************************)
DNSFollowed(c) ==
    LET cr == api["cr"][c] IN
    cr # None /\ ~cr.deleting /\ ~RegistrationOnly(cr.spec) /\ cr.ip # None
       => dns[cr.ip] = cr.spec.dns

DNSFollows == \A c \in Clusters : <>[]DNSFollowed(c)

(***************************************************************************)
(* The controller implements Reservation: seen from the clusterbook pool   *)
(* and the statuses of the CRs in service, its steps are those of Take,    *)
(* Show, Hide and GiveBack.                                                *)
(***************************************************************************)
Shown ==
    [c \in Clusters |->
       LET cr == api["cr"][c] IN
       IF cr = None THEN None ELSE IF cr.deleting THEN None ELSE cr.ip]

Reserved == INSTANCE Reservation WITH Names <- Clusters, shown <- Shown

ImplementsReservation == Reserved!Spec

(***************************************************************************)
(* The controller implements Registration: a rendered Secret is written    *)
(* only while a CR with the finalizer stands behind it, from a revision    *)
(* there has been, and never goes back to an older one.  With one manager. *)
(***************************************************************************)
Phase(c) ==
    LET cr == api["cr"][c] IN
    IF cr = None THEN "none" ELSE IF cr.deleting THEN "deleting"
    ELSE IF cr.fin THEN "kept" ELSE "new"

Rendered(c) == IF api["argo"][c] = None THEN 0 ELSE api["argo"][c].rev

Registered == INSTANCE Registration
                 WITH Names <- Clusters, source <- api["source"],
                      child <- [c \in Clusters |-> Phase(c)],
                      argo <- [c \in Clusters |-> Rendered(c)]

ImplementsRegistration == Registered!Spec
====
