------------------------ MODULE AllocationReconciler ------------------------
(***************************************************************************)
(* The ClusterbookAllocation controller                                    *)
(* (src/controller/allocation_reconciler.go).  It publishes a reserved IP  *)
(* in a ConfigMap of its own and as labels and annotations on an ArgoCD    *)
(* cluster Secret of somebody else.  On that Secret it meets a second      *)
(* controller: a ClusterbookCluster in enrich mode (reconciler.go), which  *)
(* writes its own keys there.  Both read the Secret through the same cache *)
(* and write all of it.                                                    *)
(*                                                                         *)
(* The labels and annotations of the Secret are one map; a key is a pair   *)
(* of its owner and a fact.  Of the ClusterbookCluster only what it does   *)
(* to the Secret is here, in one step: ClusterReconciler has the rest.     *)
(***************************************************************************)
EXTENDS Controller, OwnedMetadata

CONSTANTS
    Secret,        \* the cluster Secret all allocations point at
    Enricher,      \* the ClusterbookCluster that enriches it
    KeepsSinks     \* users do not change the sinks of an allocation

Map(n) == <<"map", n>>
Maps   == {Map(n) : n \in Names}

\* At least one sink.
ValidSpecs ==
    {s \in [map : BOOLEAN, labels : BOOLEAN, dns : BOOLEAN, release : BOOLEAN] :
       s.map \/ s.labels}

Allocations ==
    [uid : Nat, deleting : BOOLEAN, fin : BOOLEAN, spec : SpecChoices,
     ip : IPs \cup {None}, info : Infos]

ASSUME AllocationAssumption ==
    /\ Cached = {Secret} \cup Maps /\ Secret \notin Maps /\ Live = {}
    /\ Enricher \notin Names /\ KeepsSinks \in BOOLEAN
    /\ SpecChoices \subseteq ValidSpecs
    /\ None \notin Allocations

VARIABLES
    reg,       \* the ClusterbookCluster: "absent", "plain", "annotated"
               \* (it has spec.annotations) or "deleting"
    due        \* it is queued

regVars   == <<reg, due>>
allocVars == <<vars, regVars>>

NewAllocation(uid, s) ==
    [uid |-> uid, deleting |-> FALSE, fin |-> FALSE, spec |-> s,
     ip |-> None, info |-> "nil"]

\* Where publishing and its reversal go on after the ConfigMap.
Publish(s)   == IF s.map THEN "map" ELSE "labels"
AfterMap(s)  == IF s.labels THEN "labels" ELSE "status"
AfterUnmap(cr) == IF cr.spec.labels THEN "strip" ELSE AfterUndo(cr)

EnsureReservation == EnsureIP("drift")
ReserveIPs        == pc = "reserve" /\ Reserve(obj.spec.dns, "drift")
GetClusterInfo    == pc = "info" /\ GetInfo(Publish(obj.spec))
UpdateStatus      == pc = "status" /\ PublishStatus(WithAddress(obj))

-----------------------------------------------------------------------------
\* The clusterbook server's answer to UpdateIP.
SetDNS(i, on) == dns' = [dns EXCEPT ![i] = on /\ holder[i] # None] /\ UNCHANGED holder

\* Mistake: compare only what was just reserved.
CheckReserved ==
    /\ pc = "drift"
    /\ Goto(IF obj.ip = None /\ dns[loc.ip] # obj.spec.dns THEN "update" ELSE "info")
    /\ UNCHANGED <<obj, loc, k8sVars, poolVars, budgetVars>>

\* reconcileDNSDrift: read the listing, and update the IP when it differs.
CheckDrift ==
    /\ pc = "drift"
    /\ Goto(IF holder[loc.ip] # None /\ dns[loc.ip] # obj.spec.dns
            THEN "update" ELSE "info")
    /\ UNCHANGED <<obj, loc, k8sVars, poolVars, budgetVars>>

UpdateIP ==
    /\ pc = "update"
    /\ SetDNS(loc.ip, obj.spec.dns)
    /\ Goto("info")
    /\ UNCHANGED <<obj, loc, k8sVars, budgetVars>>

\* The ConfigMap upsertConfigMapSink asks for.  Without an answer from
\* GetClusterInfo the FQDN stays as it is.
DesiredMap(old) ==
    [uid |-> obj.uid, ip |-> loc.ip,
     fqdn |-> IF loc.info = "nil" THEN old # None /\ old.fqdn ELSE loc.info = "fqdn"]

\* CreateOrUpdate on the cached ConfigMap: create it, find it as desired, or
\* update it; fail on a conflict and on one the cache does not show yet.  The
\* owner reference of an earlier CR of that name is replaced.
UpsertConfigMapSink ==
    LET o == Map(key)
        old == view[o]
        asDesired == old = DesiredMap(old)
        able == IF old = None THEN api[o] = None ELSE synced[o] IN
    /\ pc = "map"
    /\ \/ asDesired /\ NoPut /\ Goto(AfterMap(obj.spec)) /\ UNCHANGED <<obj, loc>>
       \/ /\ ~asDesired /\ able
          /\ Put(o, DesiredMap(old)) /\ Goto(AfterMap(obj.spec)) /\ UNCHANGED <<obj, loc>>
       \/ ~asDesired /\ ~able /\ NoPut /\ Fail
    /\ UNCHANGED <<view, poolVars, budgetVars>>

\* The keys of an allocation; a FQDN that is no longer known is not removed.
Facts(n, ip, info) ==
    [k \in {<<n, "ip">>} \cup (IF info = "fqdn" THEN {<<n, "fqdn">>} ELSE {}) |->
       IF k[2] = "ip" THEN ip ELSE "fqdn"]

\* enrichClusterSecret: merge the facts onto the Secret, if it is there.
EnrichClusterSecret ==
    LET old == view[Secret] IN
    /\ pc = "labels"
    /\ \/ old = None /\ NoPut /\ Goto("status") /\ UNCHANGED <<obj, loc>>
       \/ /\ old # None /\ synced[Secret]
          /\ Put(Secret, [old EXCEPT !.meta = Merge(@, Facts(key, loc.ip, loc.info))])
          /\ Goto("status") /\ UNCHANGED <<obj, loc>>
       \/ old # None /\ ~synced[Secret] /\ NoPut /\ Fail
    /\ UNCHANGED <<view, poolVars, budgetVars>>

-----------------------------------------------------------------------------
\* finalize deletes the ConfigMap ...
DeleteConfigMap ==
    /\ pc = "undo"
    /\ IF obj.spec.map THEN Put(Map(key), None) ELSE NoPut
    /\ Goto(AfterUnmap(obj))
    /\ UNCHANGED <<obj, loc, view, poolVars, budgetVars>>

\* ... whose error is dropped, ...
ConfigMapStays ==
    /\ Fault
    /\ pc = "undo" /\ obj.spec.map
    /\ Goto(AfterUnmap(obj))
    /\ UNCHANGED <<obj, loc, k8sVars, poolVars>>

\* The keys under the clusterbook prefix: all but those of spec.annotations.
\* The ownership record is one of them.
Prefixed(k) == k[2] # "user"

Bare(old) ==
    [meta |-> Without(old.meta, {k \in DOMAIN old.meta : Prefixed(k)}), record |-> {}]

\* Mistake: ignore the conflict, as the deletion of the ConfigMap does.
StripAndForget ==
    /\ pc = "strip"
    /\ IF view[Secret] # None /\ synced[Secret]
       THEN Put(Secret, Bare(view[Secret])) ELSE NoPut
    /\ Goto(AfterUndo(obj))
    /\ UNCHANGED <<obj, loc, view, poolVars, budgetVars>>

\* ... and takes every prefixed key off the Secret.
StripClusterSecret ==
    LET old == view[Secret] IN
    /\ pc = "strip"
    /\ \/ old = None /\ NoPut /\ Goto(AfterUndo(obj)) /\ UNCHANGED <<obj, loc>>
       \/ /\ old # None /\ synced[Secret]
          /\ Put(Secret, Bare(old)) /\ Goto(AfterUndo(obj)) /\ UNCHANGED <<obj, loc>>
       \/ old # None /\ ~synced[Secret] /\ NoPut /\ Fail
    /\ UNCHANGED <<view, poolVars, budgetVars>>

-----------------------------------------------------------------------------
(***************************************************************************)
(* The ClusterbookCluster.  A conflict leaves it queued.                   *)
(***************************************************************************)
RegFacts ==
    [k \in {<<Enricher, "ip">>}
             \cup (IF reg = "annotated" THEN {<<Enricher, "user">>} ELSE {}) |->
       "reg"]

\* Mistake: write the whole metadata without a resourceVersion.
PatchExistingSecret ==
    LET old == view[Secret] IN
    /\ due /\ reg \in {"plain", "annotated"}
    /\ IF old = None \/ api[Secret] = None THEN NoPut
       ELSE Put(Secret, [meta |-> ApplyOwned(old.meta, old.record, RegFacts),
                         record |-> OwnedRecord(RegFacts)])
    /\ due' = FALSE
    /\ UNCHANGED <<reg, view, workVars, poolVars, budgetVars>>

EnrichExistingSecret ==
    LET old == view[Secret] IN
    /\ due /\ reg \in {"plain", "annotated"}
    /\ \/ old = None /\ NoPut
       \/ /\ old # None /\ synced[Secret]
          /\ Put(Secret, [meta |-> ApplyOwned(old.meta, old.record, RegFacts),
                          record |-> OwnedRecord(RegFacts)])
    /\ due' = FALSE
    /\ UNCHANGED <<reg, view, workVars, poolVars, budgetVars>>

StripEnrichedMetadata ==
    LET old == view[Secret] IN
    /\ due /\ reg = "deleting"
    /\ \/ old = None /\ NoPut
       \/ /\ old # None /\ synced[Secret]
          /\ Put(Secret, Bare([old EXCEPT !.meta = Without(@, old.record)]))
    /\ reg' = "absent" /\ due' = FALSE
    /\ UNCHANGED <<view, workVars, poolVars, budgetVars>>

\* Its annotations are edited, it is deleted.
EditRegistration ==
    /\ \/ reg = "annotated" /\ reg' = "plain" /\ Edit
       \/ reg \in {"plain", "annotated"} /\ reg' = "deleting" /\ UNCHANGED budgetVars
    /\ due' = TRUE
    /\ UNCHANGED <<k8sVars, workVars, poolVars>>

-----------------------------------------------------------------------------
\* The owner of the Secret creates or deletes it.
ToggleSecret ==
    /\ Edit
    /\ EnvPut(Secret, IF api[Secret] = None
                      THEN [meta |-> [k \in {} |-> None], record |-> {}] ELSE None)

\* Somebody deletes or changes the ConfigMap.
SpoilConfigMap(n) ==
    /\ api[Map(n)] # None /\ Edit
    /\ \/ EnvPut(Map(n), None)
       \/ api[Map(n)].ip # None /\ EnvPut(Map(n), [api[Map(n)] EXCEPT !.ip = None])

CollectConfigMap(n) ==
    LET map == api[Map(n)] IN
    /\ map # None
    /\ api[n] # None => api[n].uid # map.uid
    /\ EnvPut(Map(n), None)
    /\ UNCHANGED budgetVars

Sinks(s) == <<s.map, s.labels>>

Editable(n) ==
    {s \in SpecChoices : KeepsSinks => Sinks(s) = Sinks(api[n].spec)}

-----------------------------------------------------------------------------
\* Mistake: no Owns(ConfigMap).
NoOwner(o) == {}

\* An event of a ConfigMap queues its owner (Owns); one of the Secret queues
\* the ClusterbookCluster that refers to it, but no allocation.
Owner(o) == {n \in Names : o = Map(n)}

DeliverCRs     == Deliver(Names, Itself) /\ UNCHANGED regVars
DeliverMaps    == Deliver(Maps, Owner) /\ UNCHANGED regVars

\* Mistake: do not watch the Secret of existingSecretRef.
DeliverUnwatched == Deliver({Secret}, LAMBDA o : {}) /\ UNCHANGED regVars

DeliverSecrets ==
    Deliver({Secret}, LAMBDA o : {}) /\ due' = (due \/ reg # "absent") /\ UNCHANGED reg

Init ==
    /\ InitWith([o \in {Secret} |-> [meta |-> [k \in {} |-> None], record |-> {}]])
    /\ reg = "annotated" /\ due = TRUE

Reconcile ==
    /\ \/ AddFinalizer \/ EnsureReservation \/ ReserveIPs \/ CheckDrift \/ UpdateIP
       \/ GetClusterInfo \/ UpsertConfigMapSink \/ EnrichClusterSecret \/ UpdateStatus
       \/ DeleteConfigMap \/ StripClusterSecret \/ ReleaseIP \/ RemoveFinalizer
    /\ UNCHANGED regVars

Misfortune ==
    /\ \/ FailedCall({"drift", "update", "map", "labels", "strip"}) \/ ConfigMapStays
       \/ pc \in {"reserve", "release"} /\ LostReply(obj.spec.dns)
       \/ pc \in {"info", "status"} /\ IgnoredError(Publish(obj.spec))
    /\ UNCHANGED regVars

CrashBoth == Crash /\ due' = (reg # "absent") /\ UNCHANGED reg

Register == EnrichExistingSecret \/ StripEnrichedMetadata

Environment ==
    /\ \/ ToggleSecret
       \/ \E n \in Names :
             \/ CreateCR(n, NewAllocation) \/ DeleteCR(n)
             \/ SpoilConfigMap(n) \/ CollectConfigMap(n)
             \/ api[n] # None /\ EditCR(n, Editable(n))
    /\ UNCHANGED regVars

Next ==
    \/ Reconcile \/ Misfortune \/ CrashBoth \/ Register \/ EditRegistration
    \/ Environment \/ DeliverCRs \/ DeliverMaps \/ DeliverSecrets
    \/ \E n \in Names : Start(n) /\ UNCHANGED regVars

Spec == Init /\ [][Next]_allocVars

(***************************************************************************)
(* The workers finish what they started and are not passed over, watches   *)
(* deliver and the garbage collector runs.  A conflict of the              *)
(* ClusterbookCluster on the Secret is retried: between two writes of      *)
(* others the cache catches up.                                            *)
(***************************************************************************)
FairSpec ==
    /\ Spec
    /\ WF_allocVars(Reconcile) /\ SF_allocVars(Register)
    /\ WF_allocVars(DeliverCRs) /\ WF_allocVars(DeliverMaps)
    /\ WF_allocVars(DeliverSecrets)
    /\ \A n \in Names :
          /\ SF_allocVars(Start(n) /\ UNCHANGED regVars)
          /\ WF_allocVars(CollectConfigMap(n) /\ UNCHANGED regVars)

-----------------------------------------------------------------------------
TypeOK ==
    /\ WorkOK
    /\ pc \in {"drift", "update"} => loc.ip \in IPs
    /\ \A n \in Names : api[n] \in Allocations \cup {None}
    /\ api[Secret] # None =>
          DOMAIN api[Secret].meta \cup api[Secret].record
             \subseteq (Names \cup {Enricher}) \X {"ip", "fqdn", "user"}

(***************************************************************************)
(* "Stripped cleanly on CR delete" (docs/allocation.md): once an           *)
(* allocation is gone no key of it is on the Secret, although another      *)
(* controller rewrites the Secret from its own copy at the same time.      *)
(* While users do not take the sink out of the spec first.                 *)
(***************************************************************************)
AllocationReversed ==
    \A n \in Names :
       api[n] = None /\ api[Secret] # None
          => \A k \in DOMAIN api[Secret].meta : k[1] # n

(***************************************************************************)
(* The IP that the Secret shows for an allocation is assigned to it: it is *)
(* taken off before the address is released.                               *)
(***************************************************************************)
LabelledIsHeld ==
    api[Secret] # None =>
       \A n \in Names :
          <<n, "ip">> \in DOMAIN api[Secret].meta
             => holder[api[Secret].meta[<<n, "ip">>]] = n

(***************************************************************************)
(* The ConfigMap of an allocation in service ends up with its address and  *)
(* keeps it, whoever deletes or changes it: the watch of Owns(ConfigMap).  *)
(***************************************************************************)
InService(n) == api[n] # None /\ ~api[n].deleting

ConfigMapFollows ==
    \A n \in Names :
       <>[](InService(n) /\ api[n].spec.map /\ Held(n) # {} =>
              api[Map(n)] # None /\ api[Map(n)].ip \in Held(n))

(***************************************************************************)
(* spec.createDNS is followed, as in ClusterReconciler.                    *)
(***************************************************************************)
DNSFollows ==
    \A n \in Names :
       <>[](InService(n) /\ api[n].ip # None => dns[api[n].ip] = api[n].spec.dns)

(***************************************************************************)
(* The keys of a ClusterbookCluster come back onto the Secret after an     *)
(* allocation stripped them: its controller watches the Secret.            *)
(***************************************************************************)
RegistrationHeals ==
    <>[](reg \in {"plain", "annotated"} /\ api[Secret] # None =>
           <<Enricher, "ip">> \in DOMAIN api[Secret].meta)

(***************************************************************************)
(* "multiple allocations (including a ClusterbookCluster cluster           *)
(* registration on the same Secret) coexist without overwriting each       *)
(* other" (docs/allocation.md): the finalizer of one allocation takes      *)
(* nothing off the Secret that belongs to another owner.                   *)
(***************************************************************************)
Coexist ==
    [][pc = "strip" /\ api[Secret] # None /\ api'[Secret] # None =>
         \A k \in DOMAIN api[Secret].meta :
            k[1] # key => k \in DOMAIN api'[Secret].meta]_allocVars
====
