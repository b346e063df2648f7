----------------------- MODULE LoadBalancerReconciler -----------------------
(***************************************************************************)
(* The ClusterbookLoadBalancer controller                                  *)
(* (src/controller/loadbalancer_reconciler.go).  It pins a reserved IP     *)
(* either to a CiliumLoadBalancerIPPool of its own or to a Service of      *)
(* somebody else, whose previous loadBalancerIP it keeps in an annotation  *)
(* of the CR and puts back when the CR is deleted.                         *)
(*                                                                         *)
(* A Service is its loadBalancerIP.  The pool is <spec.name>-pool; what    *)
(* users choose of it (its name, its selector) is left out.  Only events   *)
(* of the CR wake the controller.                                          *)
(***************************************************************************)
EXTENDS Controller

CONSTANTS
    Services,      \* Services that users create
    Manual,        \* the loadBalancerIP their users gave them
    Empty,         \* no loadBalancerIP
    Retargets      \* users may change what a CR targets

Pool(n) == <<"pool", n>>

\* Exactly one target: a Service or a pool.
ValidSpecs == [target : Services \cup {"pool"}, dns : BOOLEAN, release : BOOLEAN]

\* What the Service carries, and the CRs: prev is the annotation (None: not
\* captured), target the status's poolName or targetServiceRef.
Carried == IPs \cup {Manual, Empty, None}

LoadBalancers ==
    [uid : Nat, deleting : BOOLEAN, fin : BOOLEAN, spec : SpecChoices,
     ip : IPs \cup {None}, info : Infos,
     target : Services \cup {"pool", None}, prev : Carried]

ASSUME LoadBalancerAssumption ==
    /\ Cached = Services /\ Live = {Pool(n) : n \in Names}
    /\ Retargets \in BOOLEAN
    /\ {Manual, Empty, None} \cap IPs = {} /\ "pool" \notin Services
    /\ SpecChoices \subseteq ValidSpecs
    /\ None \notin LoadBalancers

NewLB(uid, s) == [uid |-> uid, deleting |-> FALSE, fin |-> FALSE, spec |-> s,
                  ip |-> None, info |-> "nil", target |-> None, prev |-> None]

\* The step that pins the IP to the target.
Pin(s) == IF s.target = "pool" THEN "pool" ELSE "capture"

EnsureReservation  == EnsureIP("info")
ReserveIPs         == pc = "reserve" /\ Reserve(obj.spec.dns, "info")
GetClusterInfo     == pc = "info" /\ GetInfo(Pin(obj.spec))

-----------------------------------------------------------------------------
\* CreateOrUpdate of the pool.  That of an earlier CR of the same name gets
\* a new owner.  Annotations are merged: a FQDN stays.
UpsertCiliumPool ==
    LET old == api[Pool(key)] IN
    /\ pc = "pool"
    /\ Put(Pool(key),
           [uid |-> obj.uid, ip |-> loc.ip,
            fqdn |-> loc.info = "fqdn" \/ (old # None /\ old.fqdn)])
    /\ Goto("status")
    /\ UNCHANGED <<obj, loc, view, poolVars, budgetVars>>

\* The Service is read from the cache, with its version.
ReadService(s, cr) ==
    /\ loc' = [loc EXCEPT !.seen = view[s]]
    /\ fresh' = IF synced[s] THEN fresh \cup {s} ELSE fresh
    /\ obj' = cr /\ pc' = "patch"
    /\ UNCHANGED <<key, queue>>

\* Mistake: record whatever the Service carries now.
RecaptureService ==
    LET s == obj.spec.target
        new == [obj EXCEPT !.prev = view[s]] IN
    /\ pc = "capture"
    /\ \/ view[s] = None /\ NoPut /\ Fail
       \/ view[s] # None /\ key \in fresh /\ Put(key, new) /\ ReadService(s, new)
       \/ view[s] # None /\ key \notin fresh /\ NoPut /\ Fail
    /\ UNCHANGED <<view, poolVars, budgetVars>>

\* patchServiceLBIP, first half: read the Service and, the first time, write
\* its loadBalancerIP down in the CR.
CaptureService ==
    LET s == obj.spec.target
        new == [obj EXCEPT !.prev = view[s]] IN
    /\ pc = "capture"
    /\ \/ view[s] = None /\ NoPut /\ Fail
       \/ view[s] # None /\ obj.prev # None /\ NoPut /\ ReadService(s, obj)
       \/ /\ view[s] # None /\ obj.prev = None /\ key \in fresh
          /\ Put(key, new) /\ ReadService(s, new)
       \/ view[s] # None /\ obj.prev = None /\ key \notin fresh /\ NoPut /\ Fail
    /\ UNCHANGED <<view, poolVars, budgetVars>>

\* Second half: set the IP, from the copy that was read.
PatchService ==
    LET s == obj.spec.target IN
    /\ pc = "patch"
    /\ \/ /\ loc.seen = loc.ip
          /\ NoPut /\ Goto("status") /\ UNCHANGED <<obj, loc>>
       \/ /\ loc.seen # loc.ip /\ s \in fresh
          /\ Put(s, loc.ip) /\ Goto("status") /\ UNCHANGED <<obj, loc>>
       \/ loc.seen # loc.ip /\ s \notin fresh /\ NoPut /\ Fail
    /\ UNCHANGED <<view, poolVars, budgetVars>>

UpdateStatus ==
    pc = "status" /\ PublishStatus([WithAddress(obj) EXCEPT !.target = obj.spec.target])

-----------------------------------------------------------------------------
\* Mistake: a Service that is gone is an error.
RestoreOrFail ==
    LET s == obj.spec.target
        prior == IF obj.prev = None THEN Empty ELSE obj.prev IN
    /\ pc = "undo" /\ s # "pool"
    /\ \/ /\ view[s] # None /\ (view[s] = prior \/ synced[s])
          /\ IF view[s] = prior THEN NoPut ELSE Put(s, prior)
          /\ Goto(AfterUndo(obj)) /\ UNCHANGED <<obj, loc>>
       \/ /\ view[s] = None \/ (view[s] # prior /\ ~synced[s])
          /\ NoPut /\ Fail
    /\ UNCHANGED <<view, poolVars, budgetVars>>

\* finalize, serviceRef: put the previous loadBalancerIP back.  A missing
\* annotation reads as the empty string.
RestoreService ==
    LET s == obj.spec.target
        prior == IF obj.prev = None THEN Empty ELSE obj.prev IN
    /\ pc = "undo" /\ s # "pool"
    /\ \/ /\ view[s] \in {None, prior}
          /\ NoPut /\ Goto(AfterUndo(obj)) /\ UNCHANGED <<obj, loc>>
       \/ /\ view[s] \notin {None, prior} /\ synced[s]
          /\ Put(s, prior) /\ Goto(AfterUndo(obj)) /\ UNCHANGED <<obj, loc>>
       \/ view[s] \notin {None, prior} /\ ~synced[s] /\ NoPut /\ Fail
    /\ UNCHANGED <<view, poolVars, budgetVars>>

\* finalize, ciliumPool: delete the pool that the status names.
DeletePool ==
    /\ pc = "undo" /\ obj.spec.target = "pool"
    /\ IF obj.target = "pool" THEN Put(Pool(key), None) ELSE NoPut
    /\ Goto(AfterUndo(obj))
    /\ UNCHANGED <<obj, loc, view, poolVars, budgetVars>>

\* The error of the pool's deletion is dropped.
PoolStays ==
    /\ Fault
    /\ pc = "undo" /\ obj.spec.target = "pool" /\ obj.target = "pool"
    /\ Goto(AfterUndo(obj))
    /\ UNCHANGED <<obj, loc, k8sVars, poolVars>>

-----------------------------------------------------------------------------
\* Users create a Service, change its loadBalancerIP, delete it.
CreateService(s) ==
    /\ api[s] = None
    /\ EnvPut(s, Manual)
    /\ UNCHANGED budgetVars

EditService(s) ==
    /\ api[s] # None /\ Edit
    /\ \E v \in {Manual, Empty, None} \ {api[s]} : EnvPut(s, v)

\* The garbage collector removes a pool whose owner is gone.
CollectPool(n) ==
    LET pool == api[Pool(n)] IN
    /\ pool # None
    /\ api[n] # None => api[n].uid # pool.uid
    /\ EnvPut(Pool(n), None)
    /\ UNCHANGED budgetVars

SameTarget(n) == {s \in SpecChoices : Retargets \/ s.target = api[n].spec.target}

-----------------------------------------------------------------------------
Init == \E present \in SUBSET Services : InitWith([s \in present |-> Manual])

Reconcile ==
    \/ AddFinalizer \/ EnsureReservation \/ ReserveIPs \/ GetClusterInfo
    \/ UpsertCiliumPool \/ CaptureService \/ PatchService \/ UpdateStatus
    \/ RestoreService \/ DeletePool \/ ReleaseIP \/ RemoveFinalizer

Misfortune ==
    \/ FailedCall({"pool", "capture", "patch", "undo"}) \/ Crash \/ PoolStays
    \/ pc \in {"reserve", "release"} /\ LostReply(obj.spec.dns)
    \/ pc \in {"info", "status"} /\ IgnoredError(Pin(obj.spec))

Environment ==
    \/ \E n \in Names :
          \/ CreateCR(n, NewLB) \/ DeleteCR(n) \/ CollectPool(n)
          \/ api[n] # None /\ EditCR(n, SameTarget(n))
    \/ \E s \in Services : CreateService(s) \/ EditService(s)

\* One informer for the CRs, one for the Services.
DeliverCRs      == Deliver(Names, Itself)
DeliverServices == Deliver(Services, LAMBDA s : {})

Next ==
    \/ Reconcile \/ Misfortune \/ Environment \/ DeliverCRs \/ DeliverServices
    \/ \E n \in Names : Start(n)

Spec == Init /\ [][Next]_vars

(***************************************************************************)
(* The worker finishes what it started, the queue is first in, first out,  *)
(* and the watches deliver.                                                *)
(***************************************************************************)
FairSpec ==
    /\ Spec
    /\ WF_vars(Reconcile) /\ WF_vars(DeliverCRs) /\ WF_vars(DeliverServices)
    /\ \A n \in Names : SF_vars(Start(n))

-----------------------------------------------------------------------------
TypeOK ==
    /\ WorkOK
    /\ \A n \in Names : api[n] \in LoadBalancers \cup {None}
    /\ \A s \in Services : api[s] \in Carried

(***************************************************************************)
(* The loadBalancerIP that a CR keeps for the Service is one its users     *)
(* gave it, never the operator's own, whatever conflicts, crashes or is    *)
(* stale between the annotation and the patch.  For the first life of a CR *)
(* whose target stays: one that is deleted and created again may still see *)
(* the Service as the earlier one had pinned it.                           *)
(***************************************************************************)
CapturesOriginal ==
    \A n \in Names :
       api[n] # None => (api[n].uid = 1 => api[n].prev \notin IPs)

(***************************************************************************)
(* A Service that a CR names gets the address of the CR, also when the     *)
(* Service appears after the CR: unless the CR is deleted or retargeted,   *)
(* and as long as users edit neither the Service (no watch shows the       *)
(* controller that they did) nor the CR.  In its first life, as above, and *)
(* when the pool is not used up by others.                                 *)
(***************************************************************************)
Targets(n, s) ==
    /\ api[n] # None
    /\ ~api[n].deleting /\ api[n].uid = 1 /\ api[n].spec.target = s

ServicePinned ==
    \A n \in Names, s \in Services :
       (Targets(n, s) /\ api[s] # None /\ Held(n) \cup Free # {})
          ~> (api[s] \in Held(n) \/ ~Targets(n, s) \/ edits > 0)

(***************************************************************************)
(* "restores the target Service's .spec.loadBalancerIP to whatever value   *)
(* it had before the operator patched it" (docs/loadbalancer.md): while    *)
(* users leave Services alone, those carry Manual again when the CRs are   *)
(* gone.                                                                   *)
(***************************************************************************)
RestoredOnDelete ==
    (\A n \in Names : api[n] = None /\ Quiet(n))
       => \A s \in Services : api[s] \in {None, Manual}
====
