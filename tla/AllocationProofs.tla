--------------------------- MODULE AllocationProofs ---------------------------
(***************************************************************************)
(* Theorems about the ClusterbookAllocation controller, for every number   *)
(* of names and addresses and every bound: its types, the reservation it   *)
(* implements, and what it leaves on the cluster Secret it shares with a   *)
(* ClusterbookCluster.                                                     *)
(***************************************************************************)
EXTENDS AllocationReconciler, ControllerProofs

\* The keys on the Secret: only the ClusterbookCluster has keys of its user.
Keys == (Names \X {"ip", "fqdn"}) \cup ({Enricher} \X {"ip", "fqdn", "user"})

SecretOK(x) ==
    x # None => /\ {"meta", "record"} \subseteq DOMAIN x
                /\ DOMAIN x.meta \subseteq Keys /\ x.record \subseteq Keys

\* What is published is an address.
Addressed == pc \in Publishing => loc.ip # None

Typed ==
    /\ Life(Allocations)
    /\ SecretOK(api[Secret]) /\ SecretOK(view[Secret])
    /\ Addressed

\* The Secret carries keys of n.
Keyed(n) == api[Secret] # None /\ \E k \in DOMAIN api[Secret].meta : k[1] = n

\* Copies of one life have the same sinks.
SameSinks(x, y) == x.uid = y.uid => Sinks(x.spec) = Sinks(y.spec)

\* A CR whose keys are on the Secret is there and will take them off: it has
\* its finalizer and the sink, and the cache shows the Secret.
MarkedOf(n) ==
    /\ api[n] # None /\ view[n] # None => SameSinks(view[n], api[n])
    /\ Keyed(n) => api[n] # None /\ api[n].fin /\ api[n].spec.labels /\ view[Secret] # None

MarkedBy ==
    /\ pc # "idle" /\ api[key] # None => SameSinks(obj, api[key])
    /\ pc = "labels" => obj.spec.labels
    /\ pc \in {"release", "unfinalize"} => ~Keyed(key)

Marked == (\A n \in Names : MarkedOf(n)) /\ MarkedBy

-----------------------------------------------------------------------------
(***************************************************************************)
(* Every step of the controller is one of the moves of ControllerProofs.   *)
(***************************************************************************)
\* Allocations are a sort of CRs.
LEMMA AllocationSort == CRSort(Allocations)
  BY AllocationAssumption DEF CRSort, Allocations, BaseOK

\* The Secret and the ConfigMaps are objects apart from the CRs.
LEMMA SecretObjects ==
    /\ Secret \in Cached /\ Secret \in Objects \ Names
    /\ \A n \in Names : /\ Map(n) \in Cached /\ Map(n) \in Objects \ (Names \cup {Secret})
                        /\ n \in Objects \ {Secret}
  BY AllocationAssumption, ControllerAssumption DEF Objects, Maps

\* A write of something that is not the Secret.
LEMMA SecretSame ==
    ASSUME StoreForm, NEW o \in Objects \ {Secret}, NEW new, Put(o, new) \/ NoPut,
           view' = view
    PROVE  api'[Secret] = api[Secret]
  BY PutForm, SecretObjects DEF NoPut

\* A step of the worker after the reservation, or of no concern to it, that
\* leaves the Secret alone.
LEMMA KeepStep ==
    ASSUME Typed, api'[Secret] = api[Secret], view'[Secret] \in {api[Secret], view[Secret]},
           \/ pc' \notin Publishing
           \/ pc \in Publishing /\ loc'.ip = loc.ip
    PROVE  SecretOK(api'[Secret]) /\ SecretOK(view'[Secret]) /\ Addressed'
  BY DEF Typed, Addressed

\* What a step has to establish.
StepTyped ==
    /\ StepOK(Allocations)
    /\ SecretOK(api'[Secret]) /\ SecretOK(view'[Secret]) /\ Addressed'

\* The calls to clusterbook that reserve and release.
LEMMA PoolCalls ==
    ASSUME Typed, \/ EnsureReservation \/ ReserveIPs \/ ReleaseIP
                  \/ pc \in {"reserve", "release"} /\ LostReply(obj.spec.dns)
    PROVE  StepTyped
  <1>1. pc # "idle" => obj.spec \in ValidSpecs
    BY AllocationAssumption DEF Typed, Life, WorkOf, Allocations
  <1>2. pc \in {"reserve", "release"} => obj.spec.dns \in BOOLEAN
    BY <1>1 DEF ValidSpecs
  <1>3. StepOK(Allocations)
    BY <1>2, AllocationSort, CallStep DEF Typed, EnsureReservation, ReserveIPs, Publishing
  <1>4. api' = api /\ view' = view
    BY DEF EnsureReservation, EnsureIP, ReserveIPs, Reserve, ReleaseIP, LostReply, k8sVars
  <1>5. Addressed'
    <2>1. CASE EnsureReservation \/ ReserveIPs
      <3>1. {"ip", "info", "seen"} \subseteq DOMAIN loc /\ None \notin IPs
        BY ControllerAssumption DEF Typed, Life, WorkForm
      <3>2. pc' \in {"reserve", "idle"} \/ loc'.ip # None
        BY <2>1, <3>1
           DEF EnsureReservation, EnsureIP, Listed, Held, ReserveIPs, Reserve, Goto, Fail, Idle
      <3> QED BY <3>2 DEF Addressed, Publishing
    <2>2. CASE ReleaseIP \/ LostReply(obj.spec.dns)
      BY <2>2 DEF ReleaseIP, LostReply, Goto, Fail, Idle, Addressed, Publishing
    <2> QED BY <2>1, <2>2
  <1> QED BY <1>3, <1>4, <1>5 DEF StepTyped, Typed

\* A call that leaves the CRs and the Secret alone, and goes on or fails.
LEMMA OnStep ==
    ASSUME Typed, pc # "idle", NEW o \in Cached \ {Secret}, NEW new, NEW step,
           Put(o, new) \/ NoPut, view' = view, UNCHANGED <<births, holder>>,
           dns' \in [IPs -> BOOLEAN],
           \/ Fail /\ NoPut /\ dns' = dns
           \/ /\ UNCHANGED obj /\ Goto(step)
              /\ loc' = loc \/ (\E i \in Infos : loc' = [loc EXCEPT !.info = i])
              /\ \/ pc \in Publishing /\ step \in Publishing
                 \/ pc \in Undoing /\ step \in Undoing \cup {"unfinalize", AfterUndo(obj)}
    PROVE  StepTyped
  <1>1. api'[Secret] = api[Secret]
    BY SecretSame, AllocationAssumption, ControllerAssumption DEF Typed, Life, Objects
  <1>2. StepOK(Allocations)
    BY FailStep, GoStep DEF Typed, poolVars
  <1>3. pc' \notin Publishing \/ (pc \in Publishing /\ loc'.ip = loc.ip)
    <2>1. {"ip", "info", "seen"} \subseteq DOMAIN loc
      BY DEF Typed, Life, WorkForm
    <2>2. CASE Fail
      BY <2>2 DEF Fail, Idle, Publishing
    <2>3. CASE ~Fail
      <3>1. loc'.ip = loc.ip
        BY <2>1, <2>3
      <3> QED BY <2>3, <3>1 DEF Goto, Undoing, Publishing, AfterUndo
    <2> QED BY <2>2, <2>3
  <1> QED BY <1>1, <1>2, <1>3, KeepStep DEF StepTyped

\* Between the reservation and the Secret: the DNS record, GetClusterInfo and
\* the ConfigMap; and the ConfigMap's deletion.
LEMMA MapSteps ==
    ASSUME Typed, \/ CheckDrift \/ UpdateIP \/ GetClusterInfo \/ UpsertConfigMapSink
                  \/ DeleteConfigMap \/ ConfigMapStays
    PROVE  StepTyped
  <1>1. /\ pc # "idle" /\ key \in Names /\ view' = view /\ UNCHANGED <<births, holder>>
        /\ Life(Allocations) /\ WorkForm /\ Map(key) \in Cached \ {Secret}
    BY SecretObjects DEF Typed, Life, WorkOf, CheckDrift, UpdateIP, SetDNS, GetClusterInfo, GetInfo,
       UpsertConfigMapSink, DeleteConfigMap, ConfigMapStays, Fault, k8sVars, poolVars, budgetVars
  <1>2. CASE CheckDrift
    <2>1. /\ pc \in Publishing /\ NoPut /\ dns' = dns /\ UNCHANGED <<obj, loc>>
          /\ Goto("update") \/ Goto("info")
      BY <1>2 DEF CheckDrift, Publishing, NoPut, k8sVars, poolVars
    <2> QED BY <1>1, <2>1, OnStep DEF WorkForm, Publishing
  <1>3. CASE UpdateIP
    <2>1. /\ pc \in Publishing /\ NoPut /\ Goto("info") /\ UNCHANGED <<obj, loc>>
          /\ dns' = [dns EXCEPT ![loc.ip] = obj.spec.dns /\ holder[loc.ip] # None]
      BY <1>3 DEF UpdateIP, SetDNS, Publishing, NoPut, k8sVars
    <2>2. obj.spec \in ValidSpecs
      BY <1>1, AllocationAssumption DEF Life, WorkOf, Allocations
    <2>3. dns' \in [IPs -> BOOLEAN]
      BY <1>1, <2>1, <2>2 DEF WorkForm, ValidSpecs
    <2> QED BY <1>1, <2>1, <2>3, OnStep DEF Publishing
  <1>4. CASE GetClusterInfo
    <2>1. /\ pc \in Publishing /\ NoPut /\ dns' = dns /\ obj' = obj
          /\ Goto(Publish(obj.spec)) /\ loc' = [loc EXCEPT !.info = ClusterInfo(key)]
      BY <1>4 DEF GetClusterInfo, GetInfo, Publishing, NoPut, k8sVars, poolVars
    <2>2. Publish(obj.spec) \in Publishing /\ ClusterInfo(key) \in Infos
      BY DEF Publish, Publishing, ClusterInfo, Infos
    <2> QED BY <1>1, <2>1, <2>2, OnStep DEF WorkForm
  <1>5. CASE UpsertConfigMapSink
    <2>1. PICK new : Put(Map(key), new) \/ NoPut
      BY <1>5 DEF UpsertConfigMapSink
    <2>2. /\ pc \in Publishing /\ dns' = dns /\ AfterMap(obj.spec) \in Publishing
          /\ \/ Fail /\ NoPut
             \/ Goto(AfterMap(obj.spec)) /\ UNCHANGED <<obj, loc>>
      BY <1>5 DEF UpsertConfigMapSink, AfterMap, Publishing, poolVars
    <2> QED BY <1>1, <2>1, <2>2, OnStep DEF WorkForm
  <1>6. CASE DeleteConfigMap \/ ConfigMapStays
    <2>1. PICK new : Put(Map(key), new) \/ NoPut
      BY <1>6 DEF DeleteConfigMap, ConfigMapStays, NoPut, k8sVars
    <2>2. /\ pc \in Undoing /\ dns' = dns
          /\ AfterUnmap(obj) \in Undoing \cup {"unfinalize", AfterUndo(obj)}
          /\ Goto(AfterUnmap(obj)) /\ UNCHANGED <<obj, loc>>
      BY <1>6 DEF DeleteConfigMap, ConfigMapStays, AfterUnmap, Undoing, poolVars
    <2> QED BY <1>1, <2>1, <2>2, OnStep DEF WorkForm
  <1> QED BY <1>2, <1>3, <1>4, <1>5, <1>6

\* The labels, and taking them off.
LEMMA SecretSteps ==
    ASSUME Typed, EnrichClusterSecret \/ StripClusterSecret
    PROVE  StepTyped
  <1> DEFINE old == view[Secret]
  <1>1. /\ pc # "idle" /\ key \in Names /\ view' = view /\ UNCHANGED <<births, holder, dns>>
        /\ Life(Allocations) /\ WorkForm /\ StoreForm /\ UNCHANGED poolVars
        /\ loc.ip \in IPs \cup {None} /\ loc.info \in Infos
    BY DEF Typed, Life, WorkOf, WorkForm, EnrichClusterSecret, StripClusterSecret, poolVars, budgetVars
  <1>2. CASE Fail /\ NoPut
    <2>1. StepOK(Allocations)
      BY <1>1, <1>2, FailStep
    <2>2. api' = api /\ pc' \notin Publishing
      BY <1>2 DEF NoPut, Fail, Idle, Publishing
    <2> QED BY <1>1, <2>1, <2>2, KeepStep DEF StepTyped
  <1>3. CASE ~(Fail /\ NoPut)
    <2>1. PICK new : /\ Put(Secret, new) \/ NoPut
                     /\ Put(Secret, new) => SecretOK(new)
      <3>1. CASE NoPut
        <4>1. SecretOK(api[Secret]) /\ (Put(Secret, api[Secret]) \/ NoPut)
          BY <3>1 DEF Typed
        <4> QED BY <4>1
      <3>2. CASE EnrichClusterSecret /\ ~NoPut
        <4> DEFINE x == [old EXCEPT !.meta = Merge(@, Facts(key, loc.ip, loc.info))]
        <4>1. Put(Secret, x) /\ old # None
          BY <1>3, <3>2 DEF EnrichClusterSecret
        <4>2. DOMAIN Facts(key, loc.ip, loc.info) \subseteq Keys
          BY <1>1 DEF Facts, Keys
        <4>3. {"meta", "record"} \subseteq DOMAIN old /\ DOMAIN old.meta \subseteq Keys
              /\ old.record \subseteq Keys
          BY <4>1 DEF SecretOK, Typed
        <4>4. /\ x.meta = Merge(old.meta, Facts(key, loc.ip, loc.info))
              /\ x.record = old.record /\ DOMAIN x = DOMAIN old
          BY <4>3
        <4>5. DOMAIN Merge(old.meta, Facts(key, loc.ip, loc.info)) \subseteq Keys
          BY <4>2, <4>3 DEF Merge
        <4>6. SecretOK(x)
          BY <4>3, <4>4, <4>5 DEF SecretOK
        <4> QED BY <4>1, <4>6
      <3>3. CASE StripClusterSecret /\ ~NoPut
        <4>1. Put(Secret, Bare(old)) /\ old # None
          BY <1>3, <3>3 DEF StripClusterSecret
        <4>2. SecretOK(Bare(old))
          BY <4>1 DEF Bare, Without, SecretOK, Typed
        <4> QED BY <4>1, <4>2
      <3> QED BY <3>1, <3>2, <3>3
    <2>2. SecretOK(api'[Secret])
      BY <1>1, <2>1, PutForm, SecretObjects DEF NoPut, Typed
    <2>3. /\ UNCHANGED <<obj, loc>>
          /\ \/ pc \in Publishing /\ Goto("status")
             \/ pc \in Undoing /\ Goto(AfterUndo(obj))
      BY <1>3 DEF EnrichClusterSecret, StripClusterSecret, Publishing, Undoing
    <2>4. StepOK(Allocations)
      BY <1>1, <2>1, <2>3, GoStep, SecretObjects DEF Publishing, WorkForm
    <2>5. Addressed'
      BY <2>3 DEF Typed, Addressed, Goto, AfterUndo, Publishing
    <2> QED BY <1>1, <2>2, <2>4, <2>5 DEF StepTyped, Typed
  <1> QED BY <1>2, <1>3

\* The worker's writes to its CR.
LEMMA OwnSteps ==
    ASSUME Typed, AddFinalizer \/ UpdateStatus \/ RemoveFinalizer
    PROVE  StepTyped
  <1>1. key \in Names /\ view' = view /\ pc # "idle"
    BY DEF Typed, Life, WorkOf, AddFinalizer, UpdateStatus, PublishStatus, RemoveFinalizer
  <1>2. \E new : Put(key, new) \/ NoPut
    BY DEF AddFinalizer, UpdateCR, UpdateStatus, PublishStatus, RemoveFinalizer
  <1>3. api'[Secret] = api[Secret]
    BY <1>1, <1>2, SecretSame, SecretObjects DEF Typed, Life
  <1>4. pc' \notin Publishing
    BY DEF AddFinalizer, UpdateCR, UpdateStatus, PublishStatus, RemoveFinalizer, Goto, Fail,
       Done, Idle, Publishing
  <1>5. StepOK(Allocations)
    <2>1. CASE AddFinalizer \/ RemoveFinalizer
      BY <2>1, AllocationSort, AddFinalizerStep, RemoveFinalizerStep DEF Typed
    <2>2. CASE UpdateStatus
      <3> DEFINE new == WithAddress(obj)
      <3>1. /\ pc = "status" /\ UNCHANGED <<births, poolVars>>
            /\ obj \in Allocations /\ loc.ip \in IPs \cup {None} /\ loc.info \in Infos
        BY <2>2 DEF Typed, Life, WorkForm, WorkOf, UpdateStatus, PublishStatus, budgetVars
      <3>2. /\ new \in Allocations /\ new.uid = obj.uid /\ new.deleting = obj.deleting
            /\ new.fin = obj.fin /\ new.spec = obj.spec /\ new.ip = loc.ip
        BY <3>1 DEF WithAddress, Allocations
      <3>3. /\ IF key \in fresh THEN Put(key, new) ELSE NoPut
            /\ Done
        BY <2>2 DEF UpdateStatus, PublishStatus
      <3> HIDE DEF new
      <3>4. Noted(Allocations, new)
        BY <3>2 DEF Noted
      <3> QED BY <1>1, <3>1, <3>2, <3>3, <3>4, RecordStep DEF Typed, Publishing
    <2> QED BY <2>1, <2>2
  <1> QED BY <1>1, <1>3, <1>4, <1>5, KeepStep DEF StepTyped

\* Errors and crashes.
LEMMA FaultSteps ==
    ASSUME Typed, \/ FailedCall({"drift", "update", "map", "labels", "strip"}) \/ Crash
                  \/ pc \in {"info", "status"} /\ IgnoredError(Publish(obj.spec))
    PROVE  StepTyped
  <1>1. StepOK(Allocations)
    BY FailedCallStep, CrashStep, IgnoredErrorStep, SecretObjects DEF Typed, Publish, Publishing
  <1>2. /\ api' = api
        /\ view'[Secret] \in {api[Secret], view[Secret]}
    BY SecretObjects DEF FailedCall, IgnoredError, Crash, Restart, Typed, Life, StoreForm, k8sVars
  <1>3. pc' \notin Publishing \/ (pc \in Publishing /\ loc' = loc)
    BY DEF FailedCall, IgnoredError, Crash, Restart, Goto, Fail, Done, Idle, Publishing
  <1> QED BY <1>1, <1>2, <1>3, KeepStep DEF StepTyped

\* What users do to the CRs.
LEMMA UserSteps ==
    ASSUME Typed, NEW n \in Names,
           \/ CreateCR(n, NewAllocation) \/ DeleteCR(n)
           \/ api[n] # None /\ EditCR(n, Editable(n))
    PROVE  StepTyped
  <1>1. StepOK(Allocations)
    <2>1. CASE CreateCR(n, NewAllocation)
      <3>1. PICK s \in SpecChoices : EnvPut(n, NewAllocation(births[n] + 1, s))
        BY <2>1 DEF CreateCR
      <3>2. NewAllocation(births[n] + 1, s) \in Allocations
        <4>1. births[n] + 1 \in Nat
          BY DEF Typed, Life, LifeOf
        <4> QED BY <4>1 DEF NewAllocation, Allocations, Infos
      <3>3. api[n] = None /\ births' = [births EXCEPT ![n] = @ + 1]
        BY <2>1 DEF CreateCR
      <3> QED BY <3>1, <3>2, <3>3, UserStep DEF Typed, NewAllocation
    <2>2. CASE DeleteCR(n) \/ (api[n] # None /\ EditCR(n, Editable(n)))
      <3>1. Editable(n) \in SUBSET SpecChoices
        BY DEF Editable
      <3> QED BY <2>2, <3>1, EditStep DEF Typed
    <2> QED BY <2>1, <2>2
  <1>2. \E new : EnvPut(n, new)
    BY DEF CreateCR, EditCR, DeleteCR
  <1>3. api'[Secret] = api[Secret] /\ view' = view /\ UNCHANGED <<pc, loc>>
    BY <1>2, SecretSame, SecretObjects DEF Typed, Life, EnvPut
  <1> QED BY <1>1, <1>3, KeepStep DEF StepTyped

\* What others do to the ConfigMaps.
LEMMA SpoilSteps ==
    ASSUME Typed, NEW n \in Names, SpoilConfigMap(n) \/ CollectConfigMap(n)
    PROVE  StepTyped
  <1>1. PICK new : EnvPut(Map(n), new)
    BY DEF SpoilConfigMap, CollectConfigMap
  <1>2. births' = births
    BY DEF SpoilConfigMap, CollectConfigMap, Edit, budgetVars
  <1>3. StepOK(Allocations)
    BY <1>1, <1>2, SecretObjects, OtherStep DEF Typed
  <1>4. api'[Secret] = api[Secret] /\ view' = view /\ UNCHANGED <<pc, loc>>
    BY <1>1, SecretSame, SecretObjects DEF Typed, Life, EnvPut
  <1> QED BY <1>3, <1>4, KeepStep DEF StepTyped

\* What others do to the Secret.
LEMMA ToggleStep ==
    ASSUME Typed, ToggleSecret
    PROVE  StepTyped
  <1> DEFINE bare == [meta |-> [k \in {} |-> None], record |-> {}]
  <1>1. PICK new \in {None, bare} : EnvPut(Secret, new)
    BY DEF ToggleSecret
  <1>2. SecretOK(new)
    BY DEF SecretOK
  <1>3. StepOK(Allocations)
    BY <1>1, SecretObjects, OtherStep DEF Typed, ToggleSecret, Edit
  <1>4. api'[Secret] = new /\ view' = view /\ UNCHANGED <<pc, loc>>
    BY <1>1, PutForm, SecretObjects DEF Typed, Life, EnvPut
  <1> QED BY <1>2, <1>3, <1>4 DEF StepTyped, Typed, Addressed

\* The ClusterbookCluster writes the Secret.
LEMMA RegisterStep ==
    ASSUME Typed, Register
    PROVE  StepTyped
  <1> DEFINE old == view[Secret]
             applied == [meta |-> ApplyOwned(old.meta, old.record, RegFacts),
                         record |-> OwnedRecord(RegFacts)]
             stripped == Bare([old EXCEPT !.meta = Without(@, old.record)])
  <1>1. /\ UNCHANGED <<view, workVars, poolVars, budgetVars>> /\ StoreForm
        /\ \/ NoPut
           \/ old # None /\ (Put(Secret, applied) \/ Put(Secret, stripped))
    BY DEF Register, EnrichExistingSecret, StripEnrichedMetadata, Typed, Life
  <1>2. KeepsCRs /\ StoreForm'
    BY <1>1, PutForm, NoPutForm, SecretObjects
  <1>3. StepOK(Allocations)
    <2>1. WorkForm' /\ Untouched
      BY <1>1, <1>2 DEF Typed, Life, WorkForm, Untouched, SameWork, workVars, poolVars, budgetVars
    <2> QED BY <1>2, <2>1 DEF StepOK, Move
  <1>4. SecretOK(api'[Secret])
    <2>1. CASE NoPut
      BY <2>1 DEF NoPut, Typed
    <2>2. CASE old # None /\ Put(Secret, applied)
      <3>1. DOMAIN RegFacts \subseteq Keys
        BY DEF RegFacts, Keys
      <3>2. DOMAIN old.meta \subseteq Keys
        BY <2>2 DEF SecretOK, Typed
      <3>3. /\ DOMAIN ApplyOwned(old.meta, old.record, RegFacts) \subseteq Keys
            /\ OwnedRecord(RegFacts) \subseteq Keys
        BY <3>1, <3>2 DEF ApplyOwned, Merge, Without, OwnedRecord
      <3>4. SecretOK(applied)
        BY <3>3 DEF SecretOK
      <3> HIDE DEF applied
      <3> QED BY <1>1, <2>2, <3>4, PutForm, SecretObjects
    <2>3. CASE old # None /\ Put(Secret, stripped)
      <3>1. SecretOK(stripped)
        BY <2>3 DEF Bare, Without, SecretOK, Typed
      <3> HIDE DEF stripped
      <3> QED BY <1>1, <2>3, <3>1, PutForm, SecretObjects
    <2> QED BY <1>1, <2>1, <2>2, <2>3
  <1> QED BY <1>1, <1>3, <1>4 DEF StepTyped, Typed, Addressed, workVars

\* The informers.
LEMMA DeliverySteps ==
    ASSUME Typed, DeliverCRs \/ DeliverMaps \/ DeliverSecrets
    PROVE  StepTyped
  <1>1. queue' \subseteq Names
    BY DEF DeliverCRs, DeliverMaps, DeliverSecrets, Deliver, Itself, Owner, Typed, Life, WorkForm
  <1>2. StepOK(Allocations)
    BY <1>1, DeliverStep DEF Typed, DeliverCRs, DeliverMaps, DeliverSecrets, Deliver, budgetVars
  <1>3. /\ api' = api /\ UNCHANGED <<pc, loc>>
        /\ view'[Secret] \in {api[Secret], view[Secret]}
    BY SecretObjects DEF DeliverCRs, DeliverMaps, DeliverSecrets, Deliver, Typed, Life, StoreForm
  <1> QED BY <1>2, <1>3, KeepStep DEF StepTyped

\* All steps.
LEMMA NextStep ==
    ASSUME Typed, [Next]_allocVars
    PROVE  StepTyped
  <1>1. CASE Reconcile
    BY <1>1, OwnSteps, PoolCalls, MapSteps, SecretSteps DEF Reconcile
  <1>2. CASE Misfortune \/ CrashBoth
    BY <1>2, FaultSteps, PoolCalls, MapSteps DEF Misfortune, CrashBoth
  <1>3. CASE Environment
    BY <1>3, ToggleStep, UserSteps, SpoilSteps DEF Environment
  <1>4. CASE Register \/ DeliverCRs \/ DeliverMaps \/ DeliverSecrets
    BY <1>4, RegisterStep, DeliverySteps
  <1>5. ASSUME NEW n \in Names, Start(n) PROVE StepTyped
    <2>1. StepOK(Allocations)
      BY <1>5, StartStep DEF Typed
    <2>2. /\ api' = api /\ view' = view
          /\ pc' \notin Publishing \/ UNCHANGED <<pc, loc>>
      BY <1>5 DEF Start, FirstStep, k8sVars, Publishing
    <2> QED BY <2>1, <2>2, KeepStep DEF StepTyped
  <1>6. CASE EditRegistration \/ UNCHANGED allocVars
    <2>1. UNCHANGED <<k8sVars, workVars, poolVars, births>>
      BY <1>6 DEF EditRegistration, Edit, allocVars, vars, budgetVars
    <2>2. StepOK(Allocations)
      BY <2>1, StillStep DEF Typed
    <2> QED BY <2>1, <2>2, KeepStep DEF StepTyped, k8sVars, workVars
  <1> QED BY <1>1, <1>2, <1>3, <1>4, <1>5, <1>6 DEF Next

-----------------------------------------------------------------------------
(***************************************************************************)
(* The first two theorems.                                                 *)
(***************************************************************************)
\* The first state.
LEMMA FirstTyped ==
    ASSUME Init
    PROVE  Typed /\ Backed /\ Reserved!Init
  <1> DEFINE bare == [meta |-> [k \in {} |-> None], record |-> {}]
             others == [o \in {Secret} |-> bare]
  <1>1. InitWith(others) /\ DOMAIN others \subseteq Cached
    BY SecretObjects DEF Init
  <1>2. Life(Allocations) /\ Backed /\ Reserved!Init
    BY <1>1, FirstState
  <1>3. api[Secret] = bare /\ view[Secret] = bare
    BY <1>1, SecretObjects DEF InitWith
  <1>4. Addressed
    BY <1>1 DEF InitWith, Addressed, Publishing
  <1> QED BY <1>2, <1>3, <1>4 DEF Typed, SecretOK

\* The inductive invariant.
LEMMA AlwaysTyped == Spec => []Typed
  <1>1. Typed /\ [Next]_allocVars => Typed'
    BY NextStep, AllocationSort, StepLife DEF StepTyped, Typed
  <1> QED BY <1>1, FirstTyped, PTL DEF Spec

(***************************************************************************)
(* Whatever is stale, conflicts or fails, the CRs, the pool, the keys on   *)
(* the Secret and what the worker carries are of their types; past the     *)
(* reservation it carries an address.                                      *)
(***************************************************************************)
THEOREM AllocationTypes == Spec => []TypeOK
  <1>1. Typed => TypeOK
    <2> SUFFICES ASSUME Typed PROVE TypeOK
      OBVIOUS
    <2>1. WorkOK /\ \A n \in Names : api[n] \in Allocations \cup {None}
      BY AllocationSort DEF Typed, Life, LifeOf, WorkForm, WorkOf, WorkOK, CRSort
    <2>2. pc \in {"drift", "update"} => loc.ip \in IPs
      BY DEF Typed, Life, WorkForm, Addressed, Publishing
    <2> QED BY <2>1, <2>2 DEF TypeOK, Typed, SecretOK, Keys
  <1> QED BY <1>1, AlwaysTyped, PTL

\* Copies of a CR carry addresses that it holds.
LEMMA AlwaysBacked ==
    ASSUME OneName \/ NoRelease
    PROVE  Spec => []Backed
  <1>1. Typed /\ Backed /\ [Next]_allocVars => Backed'
    BY NextStep, AllocationSort, StepBacked DEF StepTyped, Typed
  <1> QED BY <1>1, FirstTyped, AlwaysTyped, PTL DEF Spec

(***************************************************************************)
(* The allocations implement Reservation: a retried or replayed reconcile  *)
(* takes no second address, a CR in service shows one that it holds, and   *)
(* none is taken back from it.  For CRs of one name, or that never ask for *)
(* their address to be released.                                           *)
(***************************************************************************)
THEOREM AllocationReserves ==
    ASSUME OneName \/ NoRelease
    PROVE  Spec => ImplementsReservation
  <1>1. Typed /\ Backed /\ [Next]_allocVars => AbstractStep
    BY NextStep, AllocationSort, StepBacked DEF StepTyped, Typed
  <1> QED BY <1>1, FirstTyped, AlwaysTyped, AlwaysBacked, PTL
     DEF Spec, ImplementsReservation, Reserved!Spec, AbstractStep

-----------------------------------------------------------------------------
(***************************************************************************)
(* The marks of a CR on the Secret.                                        *)
(***************************************************************************)
\* The worker may mark the Secret while the CR is in service, and it does not
\* skip taking the marks off.
LEMMA WorkerMarks ==
    ASSUME Typed, Marked, pc # "idle"
    PROVE  /\ key \in Names
           /\ pc = "labels" => api[key] # None /\ api[key].fin /\ api[key].spec.labels
           /\ Keyed(key) => obj.spec.labels
  <1>1. /\ key \in Names
        /\ api[key] # None => SameSinks(obj, api[key])
        /\ api[key] # None /\ api[key].fin => api[key].uid = obj.uid
    BY DEF Typed, Life, WorkOf, Marked, MarkedBy
  <1>2. pc = "labels" => obj.spec.labels /\ Kept(key, obj)
    BY DEF Typed, Life, WorkOf, Marked, MarkedBy, Serving, Publishing
  <1>3. Keyed(key) => api[key] # None /\ api[key].fin /\ api[key].spec.labels
    BY <1>1 DEF Marked, MarkedOf
  <1> QED BY <1>1, <1>2, <1>3 DEF SameSinks, Sinks, Kept

\* A step in which no CR is written, and only the worker marks the Secret.
LEMMA NoCRWritten ==
    ASSUME Typed, Marked,
           \A n \in Names : /\ api'[n] = api[n] /\ births'[n] = births[n]
                            /\ view'[n] \in {api[n], view[n]},
           \A n \in Names : Keyed(n)' =>
              /\ view'[Secret] # None
              /\ Keyed(n) \/ (n = key /\ pc = "labels"),
           \/ pc' = "idle"
           \/ /\ UNCHANGED <<key, obj>> /\ pc # "idle"
              /\ pc' = "labels" => obj.spec.labels
              /\ pc' \in {"release", "unfinalize"} => \A n \in Names : n = key => ~Keyed(n)'
    PROVE  Marked'
  <1>1. ASSUME NEW n \in Names PROVE MarkedOf(n)'
    <2>1. api'[n] # None /\ view'[n] # None => SameSinks(view'[n], api'[n])
      BY DEF Marked, MarkedOf, SameSinks
    <2>2. Keyed(n)' => api'[n] # None /\ api'[n].fin /\ api'[n].spec.labels
      BY WorkerMarks DEF Marked, MarkedOf
    <2> QED BY <2>1, <2>2 DEF MarkedOf
  <1>2. MarkedBy'
    <2>1. CASE pc' = "idle"
      BY <2>1 DEF MarkedBy
    <2>2. CASE pc' # "idle"
      <3>1. key \in Names /\ api'[key] = api[key] /\ UNCHANGED <<key, obj>>
        BY <2>2, WorkerMarks
      <3>2. pc' \in {"release", "unfinalize"} => ~Keyed(key)'
        BY <2>2, <3>1 DEF Keyed
      <3> QED BY <2>2, <3>1, <3>2 DEF Marked, MarkedBy
    <2> QED BY <2>1, <2>2
  <1> QED BY <1>1, <1>2 DEF Marked

\* A step that writes the CR named n.
LEMMA OneCRWritten ==
    ASSUME Typed, Marked, NEW n \in Names, OthersSame(n), SameView,
           api'[Secret] = api[Secret], view'[Secret] = view[Secret], MarkedOf(n)'
    PROVE  \A m \in Names : MarkedOf(m)'
  <1> SUFFICES ASSUME NEW m \in Names, m # n PROVE MarkedOf(m)'
    OBVIOUS
  <1>1. MarkedOf(m) /\ api'[m] = api[m] /\ view'[m] = view[m]
    BY DEF Marked, OthersSame, SameView
  <1> QED BY <1>1 DEF MarkedOf, Keyed

\* The worker writes its CR.
LEMMA WorkerWrites ==
    ASSUME Typed, Marked, pc # "idle", NEW new, Writes(new),
           api'[Secret] = api[Secret], view'[Secret] = view[Secret],
           \/ new = None /\ pc = "unfinalize"
           \/ new # None /\ new.uid = obj.uid /\ new.spec = obj.spec /\ new.fin,
           \/ pc' = "idle"
           \/ obj' = new /\ key' = key /\ pc' \notin {"labels", "release", "unfinalize"}
    PROVE  Marked'
  <1> SUFFICES ASSUME NEW n \in Names, n = key PROVE Marked'
    BY WorkerMarks
  <1>1. /\ api[n] = obj /\ obj # None /\ api'[n] = new /\ view'[n] = view[n]
        /\ MarkedOf(n) /\ (pc = "unfinalize" => ~Keyed(n))
    BY AllocationAssumption
       DEF Typed, Life, WorkOf, Writes, SameView, Marked, MarkedBy
  <1>2. Keyed(n)' = Keyed(n)
    BY DEF Keyed
  <1>3. MarkedOf(n)'
    BY <1>1, <1>2 DEF MarkedOf, SameSinks
  <1>4. \A m \in Names : MarkedOf(m)'
    BY <1>3, OneCRWritten DEF Writes
  <1>5. MarkedBy'
    BY <1>1 DEF MarkedBy, SameSinks
  <1> QED BY <1>4, <1>5 DEF Marked

\* Users write a CR.
LEMMA UserWrites ==
    ASSUME Typed, Marked, NEW n \in Names, NEW new, EnvPut(n, new),
           \/ /\ api[n] = None /\ births' = [births EXCEPT ![n] = @ + 1]
              /\ new.uid = births[n] + 1
           \/ /\ api[n] # None /\ births' = births
              /\ \/ new = None /\ ~api[n].fin
                 \/ /\ new # None /\ new.uid = api[n].uid /\ new.fin = api[n].fin
                    /\ Sinks(new.spec) = Sinks(api[n].spec)
    PROVE  Marked'
  <1>1. /\ StoreForm /\ view' = view /\ LifeOf(Allocations, n) /\ MarkedOf(n)
        /\ births[n] \in Nat /\ DOMAIN births = Names
        /\ UNCHANGED <<pc, key, obj>>
    BY DEF Typed, Life, LifeOf, WorkForm, EnvPut, Marked
  <1>2. /\ api'[n] = new /\ OthersSame(n) /\ SameView /\ api'[Secret] = api[Secret]
    BY <1>1, PutForm, SecretObjects, SecretSame DEF EnvPut, OthersSame, SameView, Objects
  <1>3. Keyed(n)' = Keyed(n) /\ Keyed(key)' = Keyed(key)
    BY <1>1, <1>2 DEF Keyed
  <1>4. /\ view[n] # None => view[n].uid \in Nat /\ view[n].uid <= births[n]
        /\ pc # "idle" => obj.uid \in Nat /\ key \in Names /\ obj.uid <= births[key]
    BY <1>1 DEF Typed, Life, LifeOf, WorkOf, Allocations
  <1>5. CASE api[n] = None
    <2>1. new.uid = births[n] + 1
      BY <1>1, <1>5
    <2>2. MarkedOf(n)'
      BY <1>1, <1>2, <1>3, <1>4, <1>5, <2>1 DEF MarkedOf, SameSinks
    <2>3. MarkedBy'
      <3>1. pc # "idle" /\ key = n => SameSinks(obj, new)
        BY <1>1, <1>4, <2>1 DEF SameSinks
      <3>2. pc # "idle" /\ key # n => api'[key] = api[key]
        BY <1>2, <1>4 DEF OthersSame
      <3> QED BY <1>1, <1>2, <1>3, <3>1, <3>2 DEF Marked, MarkedBy
    <2> QED BY <1>1, <1>2, <2>2, <2>3, OneCRWritten DEF Marked
  <1>6. CASE api[n] # None
    <2>1. MarkedOf(n)'
      BY <1>1, <1>2, <1>3, <1>6 DEF MarkedOf, SameSinks, Sinks
    <2>2. MarkedBy'
      <3>1. pc # "idle" /\ key # n => api'[key] = api[key]
        BY <1>2, <1>4 DEF OthersSame
      <3> QED BY <1>1, <1>2, <1>3, <1>6, <3>1 DEF Marked, MarkedBy, SameSinks
    <2> QED BY <1>1, <1>2, <2>1, <2>2, OneCRWritten DEF Marked
  <1> QED BY <1>5, <1>6

\* A step that leaves the CRs, the Secret and the cache's copy of it alone, or
\* lets the cache catch up.
LEMMA SecretKept ==
    ASSUME Typed, Marked, api'[Secret] = api[Secret],
           view'[Secret] \in {api[Secret], view[Secret]},
           \A n \in Names : /\ api'[n] = api[n] /\ births'[n] = births[n]
                            /\ view'[n] \in {api[n], view[n]},
           \/ pc' = "idle"
           \/ /\ UNCHANGED <<key, obj>> /\ pc # "idle"
              /\ pc' = "labels" => obj.spec.labels
              /\ pc' \in {"release", "unfinalize"}
                    => pc \in {"release", "unfinalize"} \/ ~Keyed(key)
    PROVE  Marked'
  <1>1. \A n \in Names : Keyed(n)' = Keyed(n)
    BY DEF Keyed
  <1>2. \A n \in Names : Keyed(n)' => view'[Secret] # None
    BY <1>1 DEF Marked, MarkedOf, Keyed
  <1>3. pc' \in {"release", "unfinalize"} => \A n \in Names : n = key => ~Keyed(n)'
    BY <1>1 DEF Marked, MarkedBy, Idle
  <1> QED BY <1>1, <1>2, <1>3, NoCRWritten

\* The calls to clusterbook and errors, the ConfigMap, the informers.
LEMMA CallsMarked ==
    ASSUME Typed, Marked,
           \/ EnsureReservation \/ ReserveIPs \/ CheckDrift \/ UpdateIP \/ GetClusterInfo
           \/ ReleaseIP \/ Misfortune
    PROVE  Marked'
  <1>1. /\ api' = api /\ view' = view /\ births' = births
    BY DEF EnsureReservation, EnsureIP, ReserveIPs, Reserve, CheckDrift, UpdateIP, GetClusterInfo,
       GetInfo, ReleaseIP, Misfortune, FailedCall, LostReply, IgnoredError, ConfigMapStays,
       Fault, k8sVars, budgetVars
  <1>2. pc # "idle" => obj.spec \in ValidSpecs
    BY AllocationAssumption DEF Typed, Life, WorkOf, Allocations
  <1>3. \/ pc' = "idle"
        \/ /\ UNCHANGED <<key, obj>> /\ pc # "idle"
           /\ pc' = "labels" => obj.spec.labels
           /\ pc' \in {"release", "unfinalize"}
                 => pc \in {"release", "unfinalize"} \/ ~obj.spec.labels
    <2>1. CASE \/ EnsureReservation \/ ReserveIPs \/ CheckDrift \/ UpdateIP \/ GetClusterInfo
               \/ ReleaseIP
      BY <1>2, <2>1
         DEF EnsureReservation, EnsureIP, ReserveIPs, Reserve, CheckDrift, UpdateIP,
             GetClusterInfo, GetInfo, ReleaseIP, Publish, ValidSpecs, Goto, Fail, Idle
    <2>2. CASE Misfortune
      BY <1>2, <2>2
         DEF Misfortune, FailedCall, LostReply, IgnoredError, ConfigMapStays, AfterUnmap,
             AfterUndo, Publish, ValidSpecs, Goto, Fail, Done, Idle
    <2> QED BY <2>1, <2>2
  <1>4. pc # "idle" /\ ~obj.spec.labels => ~Keyed(key)
    BY WorkerMarks
  <1> QED BY <1>1, <1>3, <1>4, SecretKept

\* The ConfigMap's steps leave the Secret alone.
LEMMA MapsMarked ==
    ASSUME Typed, Marked, UpsertConfigMapSink \/ DeleteConfigMap
    PROVE  Marked'
  <1>1. /\ view' = view /\ births' = births /\ pc # "idle" /\ key \in Names
    BY WorkerMarks DEF UpsertConfigMapSink, DeleteConfigMap, budgetVars
  <1>2. \E new : Put(Map(key), new) \/ NoPut
    BY DEF UpsertConfigMapSink, DeleteConfigMap
  <1>3. api'[Secret] = api[Secret] /\ KeepsCRs
    BY <1>1, <1>2, SecretObjects, SecretSame, PutForm, NoPutForm DEF Typed, Life
  <1>4. \/ pc' = "idle"
        \/ /\ UNCHANGED <<key, obj>>
           /\ pc' = "labels" => obj.spec.labels
           /\ pc' \in {"release", "unfinalize"} => ~obj.spec.labels
    BY DEF UpsertConfigMapSink, DeleteConfigMap, AfterMap, AfterUnmap, AfterUndo, Goto, Fail, Idle
  <1>5. ~obj.spec.labels => ~Keyed(key)
    BY <1>1, WorkerMarks
  <1> QED BY <1>1, <1>3, <1>4, <1>5, SecretKept DEF KeepsCRs

\* Caches that catch up.
LEMMA DeliveryMarked ==
    ASSUME Typed, Marked,
           \/ DeliverCRs \/ DeliverMaps \/ DeliverSecrets \/ CrashBoth \/ EditRegistration
           \/ UNCHANGED allocVars
    PROVE  Marked'
  <1>1. api' = api /\ births' = births
    BY DEF DeliverCRs, DeliverMaps, DeliverSecrets, Deliver, CrashBoth, Crash, Fault,
       EditRegistration, Edit, allocVars, vars, k8sVars, budgetVars
  <1>2. pc' = "idle" \/ UNCHANGED <<pc, key, obj>>
    BY DEF DeliverCRs, DeliverMaps, DeliverSecrets, Deliver, CrashBoth, Crash, Restart, Idle,
       EditRegistration, allocVars, vars, workVars
  <1>3. \A o \in Names \cup {Secret} : view'[o] \in {api[o], view[o]}
    BY SecretObjects
       DEF DeliverCRs, DeliverMaps, DeliverSecrets, Deliver, CrashBoth, Crash, Restart,
           EditRegistration, allocVars, vars, k8sVars, Typed, Life, StoreForm
  <1> QED BY <1>1, <1>2, <1>3, SecretKept DEF Marked, MarkedBy

\* The worker's writes to its CR.
LEMMA OwnMarked ==
    ASSUME Typed, Marked, AddFinalizer \/ UpdateStatus \/ RemoveFinalizer
    PROVE  Marked'
  <1>1. /\ pc # "idle" /\ key \in Names /\ view' = view /\ births' = births
        /\ obj \in Allocations /\ obj # None /\ UNCHANGED holder
        /\ pc \in Serving => obj.fin
    BY WorkerMarks, AllocationAssumption
       DEF Typed, Life, WorkOf, AddFinalizer, UpdateStatus, PublishStatus,
           RemoveFinalizer, budgetVars, poolVars
  <1>2. CASE NoPut /\ pc' = "idle"
    <2>1. api' = api
      BY <1>2 DEF NoPut
    <2> QED BY <1>1, <1>2, <2>1, SecretKept
  <1>3. ASSUME NEW new, key \in fresh, Put(key, new)
        PROVE  Writes(new) /\ api'[Secret] = api[Secret] /\ view'[Secret] = view[Secret]
    BY <1>1, <1>3, WriteStep, SecretObjects, SecretSame DEF Typed, Life
  <1>4. CASE AddFinalizer
    <2> DEFINE new == [obj EXCEPT !.fin = TRUE]
    <2>1. new.uid = obj.uid /\ new.spec = obj.spec /\ new.fin /\ new # None
      BY <1>1, AllocationAssumption DEF Allocations
    <2>2. CASE key \in fresh
      <3>1. Put(key, new) /\ obj' = new /\ key' = key /\ pc' = "ensure"
        BY <1>4, <2>2 DEF AddFinalizer, UpdateCR, Goto
      <3> HIDE DEF new
      <3> QED BY <1>1, <1>3, <2>1, <2>2, <3>1, WorkerWrites
    <2>3. CASE key \notin fresh
      BY <1>2, <1>4, <2>3 DEF AddFinalizer, UpdateCR, Fail, Idle
    <2> QED BY <2>2, <2>3
  <1>5. CASE UpdateStatus
    <2> DEFINE new == WithAddress(obj)
    <2>0. pc = "status" /\ loc.ip \in IPs \cup {None} /\ loc.info \in Infos
      BY <1>5 DEF UpdateStatus, Typed, Life, WorkForm
    <2>1. new.uid = obj.uid /\ new.spec = obj.spec /\ new.fin /\ new # None
      <3>1. new \in Allocations /\ new.uid = obj.uid /\ new.spec = obj.spec /\ new.fin = obj.fin
        BY <1>1, <2>0 DEF Allocations, WithAddress
      <3> QED BY <1>1, <2>0, <3>1, AllocationAssumption DEF Serving, Publishing
    <2>2. pc' = "idle" /\ IF key \in fresh THEN Put(key, new) ELSE NoPut
      BY <1>5 DEF UpdateStatus, PublishStatus, Done, Idle
    <2> HIDE DEF new
    <2> QED BY <1>1, <1>2, <1>3, <2>1, <2>2, WorkerWrites
  <1>6. CASE RemoveFinalizer
    <2>1. /\ pc' = "idle" /\ pc = "unfinalize"
          /\ (key \in fresh /\ Put(key, None)) \/ NoPut
      BY <1>6 DEF RemoveFinalizer, Done, Fail, Idle
    <2> QED BY <1>1, <1>2, <1>3, <2>1, WorkerWrites
  <1> QED BY <1>4, <1>5, <1>6

\* The steps that write the Secret: the worker's, the other controller's and
\* its owner's.
LEMMA SecretMarked ==
    ASSUME Typed, Marked, EnrichClusterSecret \/ StripClusterSecret \/ Register
    PROVE  Marked'
  <1> DEFINE old == view[Secret]
             applied == [meta |-> ApplyOwned(old.meta, old.record, RegFacts),
                         record |-> OwnedRecord(RegFacts)]
             stripped == Bare([old EXCEPT !.meta = Without(@, old.record)])
             enriched == [old EXCEPT !.meta = Merge(@, Facts(key, loc.ip, loc.info))]
  <1>1. /\ view' = view /\ births' = births /\ StoreForm
        /\ Register => UNCHANGED <<pc, key, obj>>
        /\ ~Register => pc # "idle"
    BY DEF EnrichClusterSecret, StripClusterSecret, Register, EnrichExistingSecret,
       StripEnrichedMetadata, workVars, budgetVars, Typed, Life
  <1>2. \/ NoPut
        \/ /\ old # None /\ api[Secret] = old
           /\ \/ Register /\ (Put(Secret, applied) \/ Put(Secret, stripped))
              \/ EnrichClusterSecret /\ Put(Secret, enriched)
              \/ StripClusterSecret /\ Put(Secret, Bare(old))
    BY <1>1, SecretObjects
       DEF EnrichClusterSecret, StripClusterSecret, Register, EnrichExistingSecret,
           StripEnrichedMetadata, StoreForm
  <1>3. KeepsCRs
    BY <1>1, <1>2, PutForm, NoPutForm, SecretObjects
  <1>4. ASSUME NEW n \in Names, Keyed(n)'
        PROVE  /\ view'[Secret] # None
               /\ Keyed(n) \/ (EnrichClusterSecret /\ n = key)
               /\ StripClusterSecret => NoPut
    <2>1. CASE NoPut
      BY <1>1, <1>4, <2>1 DEF NoPut, Keyed, Marked, MarkedOf
    <2>2. CASE ~NoPut
      <3>1. /\ old # None /\ api[Secret] = old /\ DOMAIN old.meta \subseteq Keys
            /\ {"meta", "record"} \subseteq DOMAIN old
            /\ n # Enricher
        BY <1>2, <2>2, AllocationAssumption DEF Typed, SecretOK
      <3>2. PICK k \in DOMAIN api'[Secret].meta : k[1] = n
        BY <1>4 DEF Keyed
      <3>3. CASE Put(Secret, applied) /\ Register
        <4>1. api'[Secret] = applied
          BY <1>1, <3>3, PutForm, SecretObjects
        <4>2. k \in DOMAIN old.meta \/ k \in DOMAIN RegFacts
          BY <3>2, <4>1 DEF ApplyOwned, Merge, Without
        <4>3. k \notin DOMAIN RegFacts
          BY <3>1, <3>2 DEF RegFacts
        <4>4. ~StripClusterSecret
          BY <1>1, <3>3 DEF StripClusterSecret, Goto, Fail, Idle, AfterUndo
        <4> QED BY <1>1, <3>1, <3>2, <4>2, <4>3, <4>4 DEF Keyed
      <3>4. CASE Put(Secret, enriched) /\ EnrichClusterSecret
        <4>1. api'[Secret] = enriched
          BY <1>1, <3>4, PutForm, SecretObjects
        <4>2. enriched.meta = Merge(old.meta, Facts(key, loc.ip, loc.info))
          BY <3>1
        <4>3. k \in DOMAIN old.meta \/ k \in DOMAIN Facts(key, loc.ip, loc.info)
          BY <3>2, <4>1, <4>2 DEF Merge
        <4>4. k \in DOMAIN Facts(key, loc.ip, loc.info) => k[1] = key
          BY DEF Facts
        <4>5. ~StripClusterSecret
          BY <3>4 DEF EnrichClusterSecret, StripClusterSecret
        <4> QED BY <1>1, <3>1, <3>2, <3>4, <4>3, <4>4, <4>5 DEF Keyed
      <3>5. CASE Put(Secret, stripped) \/ Put(Secret, Bare(old))
        <4>1. api'[Secret] \in {stripped, Bare(old)}
          BY <1>1, <3>5, PutForm, SecretObjects
        <4>2. k \in DOMAIN old.meta /\ k[2] = "user"
          <5>1. [old EXCEPT !.meta = Without(old.meta, old.record)].meta
                  = Without(old.meta, old.record)
            BY <3>1
          <5> QED BY <3>2, <4>1, <5>1 DEF Bare, Without, Prefixed
        <4>3. k[1] = Enricher
          BY <3>1, <4>2 DEF Keys
        <4> QED BY <3>1, <3>2, <4>3
      <3> QED BY <1>2, <2>2, <3>3, <3>4, <3>5
    <2> QED BY <2>1, <2>2
  <1>5. CASE Register
    <2>1. \A n \in Names : Keyed(n)' => Keyed(n) \/ (n = key /\ pc = "labels")
      BY <1>4 DEF EnrichClusterSecret
    <2>2. MarkedBy'
      <3>1. ASSUME NEW n \in Names, n = key, pc \in {"release", "unfinalize"} PROVE ~Keyed(n)'
        BY <2>1, <3>1 DEF Marked, MarkedBy
      <3>2. pc # "idle" => key \in Names /\ api'[key] = api[key]
        BY <1>3, WorkerMarks DEF KeepsCRs
      <3>3. pc \in {"release", "unfinalize"} => ~Keyed(key)'
        BY <1>1, <1>5, <3>1, <3>2 DEF Keyed
      <3> QED BY <1>1, <1>5, <3>2, <3>3 DEF Marked, MarkedBy
    <2>3. ASSUME NEW n \in Names PROVE MarkedOf(n)'
      <3>1. Keyed(n)' => api[n] # None /\ api[n].fin /\ api[n].spec.labels /\ view'[Secret] # None
        BY <1>4, <2>1, WorkerMarks DEF Marked, MarkedOf
      <3> QED BY <1>3, <3>1 DEF KeepsCRs, Marked, MarkedOf
    <2> QED BY <2>2, <2>3 DEF Marked
  <1>6. CASE EnrichClusterSecret
    <2>1. pc' = "idle" \/ (UNCHANGED <<key, obj>> /\ pc' = "status")
      BY <1>6 DEF EnrichClusterSecret, Goto, Fail, Idle
    <2>2. pc = "labels"
      BY <1>6 DEF EnrichClusterSecret
    <2> QED BY <1>1, <1>3, <1>4, <2>1, <2>2, NoCRWritten DEF KeepsCRs, EnrichClusterSecret
  <1>7. CASE StripClusterSecret
    <2>1. /\ pc' = "idle" \/ (UNCHANGED <<key, obj>> /\ pc' = AfterUndo(obj))
          /\ pc' = "idle" \/ ~NoPut \/ old = None \/ Put(Secret, Bare(old))
          /\ pc = "strip"
      BY <1>7 DEF StripClusterSecret, Goto, Fail, Idle
    <2>2. pc' # "idle" => \A n \in Names : ~Keyed(n)'
      <3> SUFFICES ASSUME pc' # "idle", NEW n \in Names, Keyed(n)' PROVE FALSE
        OBVIOUS
      <3>1. NoPut /\ Keyed(n)
        BY <1>4, <1>7, <2>1 DEF EnrichClusterSecret
      <3>2. old # None
        BY <3>1 DEF Marked, MarkedOf
      <3>3. api[Secret] = Bare(old) /\ DOMAIN old.meta \subseteq Keys
        BY <1>1, <1>7, <2>1, <3>1, <3>2, PutForm, SecretObjects DEF NoPut, Typed, SecretOK
      <3>4. PICK k \in DOMAIN api[Secret].meta : k[1] = n
        BY <3>1 DEF Keyed
      <3>5. k \in DOMAIN old.meta /\ k[2] = "user"
        BY <3>3, <3>4 DEF Bare, Without, Prefixed
      <3> QED BY <3>3, <3>4, <3>5, AllocationAssumption DEF Keys
    <2> QED BY <1>1, <1>3, <1>4, <1>7, <2>1, <2>2, NoCRWritten
            DEF KeepsCRs, EnrichClusterSecret, AfterUndo
  <1> QED BY <1>5, <1>6, <1>7

\* What users, the garbage collector and the owner of the Secret do.
LEMMA OutsideMarked ==
    ASSUME Typed, Marked, KeepsSinks, Environment
    PROVE  Marked'
  <1>1. ASSUME NEW n \in Names, CreateCR(n, NewAllocation)
        PROVE  Marked'
    <2>1. PICK s \in SpecChoices : EnvPut(n, NewAllocation(births[n] + 1, s))
      BY <1>1 DEF CreateCR
    <2>2. api[n] = None /\ births' = [births EXCEPT ![n] = @ + 1]
      BY <1>1 DEF CreateCR
    <2> QED BY <2>1, <2>2, UserWrites DEF NewAllocation
  <1>2. ASSUME NEW n \in Names, DeleteCR(n) \/ EditCR(n, Editable(n))
        PROVE  Marked'
    <2>1. api[n] \in Allocations /\ api[n] # None /\ births' = births
      BY <1>2 DEF Typed, Life, LifeOf, DeleteCR, EditCR, Edit, budgetVars
    <2>2. CASE DeleteCR(n)
      <3>1. EnvPut(n, IF api[n].fin THEN [api[n] EXCEPT !.deleting = TRUE] ELSE None)
        BY <2>2 DEF DeleteCR
      <3>2. CASE ~api[n].fin
        BY <2>1, <3>1, <3>2, UserWrites
      <3>3. CASE api[n].fin
        <4> DEFINE new == [api[n] EXCEPT !.deleting = TRUE]
        <4>1. /\ new # None /\ new.uid = api[n].uid /\ new.fin = api[n].fin
              /\ new.spec = api[n].spec /\ EnvPut(n, new)
          BY <2>1, <3>1, <3>3, AllocationAssumption DEF Allocations
        <4> HIDE DEF new
        <4> QED BY <2>1, <4>1, UserWrites
      <3> QED BY <3>2, <3>3
    <2>3. CASE EditCR(n, Editable(n))
      <3>1. PICK s \in Editable(n) : EnvPut(n, [api[n] EXCEPT !.spec = s])
        BY <2>3 DEF EditCR
      <3> DEFINE new == [api[n] EXCEPT !.spec = s]
      <3>2. s \in SpecChoices /\ Sinks(s) = Sinks(api[n].spec)
        BY <3>1 DEF Editable
      <3>3. /\ new # None /\ new.uid = api[n].uid /\ new.fin = api[n].fin /\ new.spec = s
            /\ EnvPut(n, new)
        BY <2>1, <3>1, <3>2, AllocationAssumption DEF Allocations
      <3> HIDE DEF new
      <3> QED BY <2>1, <3>2, <3>3, UserWrites
    <2> QED BY <1>2, <2>2, <2>3
  <1>3. ASSUME NEW n \in Names, SpoilConfigMap(n) \/ CollectConfigMap(n)
        PROVE  Marked'
    <2>1. PICK new : EnvPut(Map(n), new)
      BY <1>3 DEF SpoilConfigMap, CollectConfigMap
    <2>2. births' = births /\ view' = view /\ UNCHANGED <<pc, key, obj>>
      BY <1>3, <2>1 DEF SpoilConfigMap, CollectConfigMap, Edit, EnvPut, budgetVars
    <2>3. api'[Secret] = api[Secret] /\ KeepsCRs
      BY <2>1, <2>2, SecretObjects, SecretSame, PutForm DEF Typed, Life, EnvPut
    <2> QED BY <2>2, <2>3, SecretKept DEF KeepsCRs, Marked, MarkedBy
  <1>4. CASE ToggleSecret
    <2> DEFINE bare == [meta |-> [k \in {} |-> None], record |-> {}]
    <2>1. PICK new \in {None, bare} : EnvPut(Secret, new)
      BY <1>4 DEF ToggleSecret
    <2>2. /\ births' = births /\ view' = view /\ UNCHANGED <<pc, key, obj>>
      BY <1>4, <2>1 DEF ToggleSecret, Edit, EnvPut
    <2>3. api'[Secret] = new /\ KeepsCRs
      BY <2>1, <2>2, SecretObjects, PutForm DEF Typed, Life, EnvPut
    <2>4. \A n \in Names : ~Keyed(n)'
      BY <2>3 DEF Keyed
    <2> QED BY <2>2, <2>3, <2>4, NoCRWritten DEF KeepsCRs, Marked, MarkedBy
  <1> QED BY <1>1, <1>2, <1>3, <1>4 DEF Environment

\* The inductive invariant of the marks.
LEMMA AlwaysMarked ==
    ASSUME KeepsSinks
    PROVE  Spec => []Marked
  <1>1. Init => Marked
    <2> SUFFICES ASSUME Init PROVE Marked
      OBVIOUS
    <2> DEFINE bare == [meta |-> [k \in {} |-> None], record |-> {}]
    <2>1. InitWith([o \in {Secret} |-> bare])
      BY DEF Init
    <2>2. api[Secret] = bare /\ \A n \in Names : api[n] = None
      BY <2>1, SecretObjects DEF InitWith
    <2>3. \A n \in Names : ~Keyed(n)
      BY <2>2 DEF Keyed
    <2>4. pc = "idle"
      BY <2>1 DEF InitWith
    <2> QED BY <2>2, <2>3, <2>4 DEF Marked, MarkedOf, MarkedBy
  <1>2. Typed /\ Marked /\ [Next]_allocVars => Marked'
    <2> SUFFICES ASSUME Typed, Marked, [Next]_allocVars PROVE Marked'
      OBVIOUS
    <2>1. ASSUME NEW n \in Names, Start(n) PROVE Marked'
      <3>1. /\ api' = api /\ view' = view /\ births' = births
        BY <2>1 DEF Start, k8sVars, budgetVars
      <3>2. \A m \in Names : MarkedOf(m)'
        BY <3>1 DEF Marked, MarkedOf, Keyed
      <3>3. MarkedBy'
        <4>1. pc' \in {"idle", "undo", "ensure", "finalizer"} /\ (pc' # "idle" => key' = n /\ obj' = view[n])
          BY <2>1 DEF Start, FirstStep
        <4>2. pc' # "idle" => view[n] # None
          BY <2>1 DEF Start, FirstStep
        <4>3. MarkedOf(n)
          BY DEF Marked
        <4> QED BY <3>1, <4>1, <4>2, <4>3 DEF MarkedOf, MarkedBy
      <3> QED BY <3>2, <3>3 DEF Marked
    <2> QED BY <2>1, CallsMarked, MapsMarked, DeliveryMarked, OwnMarked, SecretMarked,
               OutsideMarked
           DEF Next, Reconcile
  <1> QED BY <1>1, <1>2, AlwaysTyped, PTL DEF Spec

(***************************************************************************)
(* No key of an allocation that is gone is on the Secret, although another *)
(* controller rewrites the Secret from its own copy at the same time and   *)
(* finalize works from a cache that lags: while users do not take the sink *)
(* out of the spec first.                                                  *)
(***************************************************************************)
THEOREM StripsOnDelete ==
    ASSUME KeepsSinks
    PROVE  Spec => []AllocationReversed
  <1>1. Marked => AllocationReversed
    BY DEF Marked, MarkedOf, Keyed, AllocationReversed
  <1> QED BY <1>1, AlwaysMarked, PTL

-----------------------------------------------------------------------------
(***************************************************************************)
(* The address on the Secret.                                              *)
(***************************************************************************)
\* The addresses on the Secret are addresses, of those whose keys they are.
Labelled ==
    api[Secret] # None =>
       \A n \in Names :
          <<n, "ip">> \in DOMAIN api[Secret].meta
             => LET i == api[Secret].meta[<<n, "ip">>] IN i \in IPs /\ holder[i] = n

\* No address is taken from a name whose keys are on the Secret.
KeyedKeep ==
    \A n \in Names, i \in IPs : Keyed(n) /\ holder[i] = n => holder'[i] = n

\* A step that leaves the Secret alone.
LEMMA HeldKept ==
    ASSUME Labelled, KeyedKeep, api'[Secret] = api[Secret]
    PROVE  Labelled'
  BY DEF Labelled, KeyedKeep, Keyed

\* The calls to clusterbook: what is released is on the Secret no more.
LEMMA CallsLabelled ==
    ASSUME Typed, Labelled, NoRelease \/ (OneName /\ Marked),
           \/ EnsureReservation \/ ReserveIPs \/ ReleaseIP
           \/ pc \in {"reserve", "release"} /\ LostReply(obj.spec.dns)
    PROVE  Labelled'
  <1>1. api' = api
    BY DEF EnsureReservation, EnsureIP, ReserveIPs, Reserve, ReleaseIP, LostReply, k8sVars
  <1>2. holder \in [IPs -> Names \cup {None, "others"}] /\ None \notin Names
    BY ControllerAssumption DEF Typed, Life, WorkForm
  <1>3. CASE holder' = holder
    BY <1>1, <1>3, HeldKept DEF KeyedKeep
  <1>4. CASE \E i \in IPs, on \in {obj.spec.dns} : Assign(key, i, on)
    BY <1>1, <1>2, <1>4, HeldKept DEF KeyedKeep, Assign, Free
  <1>5. CASE pc = "release" /\ Unassign(obj.ip)
    <2>1. obj.spec.release /\ obj.spec \in SpecChoices /\ key \in Names
      BY <1>5 DEF Typed, Life, WorkOf, Allocations
    <2>2. \A n \in Names : ~Keyed(n)
      BY <1>5, <2>1 DEF NoRelease, OneName, Marked, MarkedBy
    <2> QED BY <1>1, <2>2, HeldKept DEF KeyedKeep
  <1> QED BY <1>3, <1>4, <1>5
          DEF EnsureReservation, EnsureIP, ReserveIPs, Reserve, ReleaseIP, LostReply, poolVars

\* The writes of the Secret: what is put there is held.
LEMMA SecretLabelled ==
    ASSUME Typed, Backed, Labelled,
           EnrichClusterSecret \/ StripClusterSecret \/ Register \/ ToggleSecret
    PROVE  Labelled'
  <1> DEFINE old == view[Secret]
             applied == [meta |-> ApplyOwned(old.meta, old.record, RegFacts),
                         record |-> OwnedRecord(RegFacts)]
             stripped == Bare([old EXCEPT !.meta = Without(@, old.record)])
             enriched == [old EXCEPT !.meta = Merge(@, Facts(key, loc.ip, loc.info))]
             bare == [meta |-> [k \in {} |-> None], record |-> {}]
  <1>1. view' = view /\ holder' = holder /\ StoreForm
    BY DEF EnrichClusterSecret, StripClusterSecret, Register, EnrichExistingSecret,
       StripEnrichedMetadata, ToggleSecret, EnvPut, poolVars, Typed, Life
  <1>2. \/ NoPut
        \/ /\ old # None /\ api[Secret] = old
           /\ \/ Put(Secret, applied) \/ Put(Secret, stripped) \/ Put(Secret, Bare(old))
              \/ EnrichClusterSecret /\ Put(Secret, enriched)
        \/ Put(Secret, None) \/ Put(Secret, bare)
    BY <1>1, SecretObjects
       DEF EnrichClusterSecret, StripClusterSecret, Register, EnrichExistingSecret,
           StripEnrichedMetadata, ToggleSecret, EnvPut, StoreForm
  <1>3. CASE NoPut
    BY <1>1, <1>3, HeldKept DEF NoPut, KeyedKeep
  <1>4. CASE Put(Secret, None) \/ Put(Secret, bare)
    <2>1. api'[Secret] \in {None, bare}
      BY <1>1, <1>4, PutForm, SecretObjects
    <2> QED BY <2>1 DEF Labelled
  <1>5. CASE /\ old # None /\ api[Secret] = old
             /\ \/ Put(Secret, applied) \/ Put(Secret, stripped) \/ Put(Secret, Bare(old))
                \/ EnrichClusterSecret /\ Put(Secret, enriched)
    <2>1. {"meta", "record"} \subseteq DOMAIN old
      BY <1>5 DEF Typed, SecretOK
    <2> SUFFICES ASSUME NEW n \in Names, <<n, "ip">> \in DOMAIN api'[Secret].meta
                 PROVE  LET i == api'[Secret].meta[<<n, "ip">>] IN i \in IPs /\ holder[i] = n
      BY <1>1 DEF Labelled
    <2>2. <<n, "ip">> \in DOMAIN old.meta
             => LET i == old.meta[<<n, "ip">>] IN i \in IPs /\ holder[i] = n
      BY <1>5 DEF Labelled
    <2>3. CASE Put(Secret, applied)
      <3>1. api'[Secret] = applied
        BY <1>1, <2>3, PutForm, SecretObjects
      <3>2. <<n, "ip">> \notin DOMAIN RegFacts
        BY AllocationAssumption DEF RegFacts
      <3>3. /\ <<n, "ip">> \in DOMAIN old.meta
            /\ applied.meta[<<n, "ip">>] = old.meta[<<n, "ip">>]
        BY <3>1, <3>2 DEF ApplyOwned, Merge, Without
      <3> QED BY <2>2, <3>1, <3>3
    <2>4. CASE EnrichClusterSecret /\ Put(Secret, enriched)
      <3> DEFINE facts == Facts(key, loc.ip, loc.info)
      <3>1. api'[Secret] = enriched /\ enriched.meta = Merge(old.meta, facts)
        BY <1>1, <2>1, <2>4, PutForm, SecretObjects
      <3>2. CASE <<n, "ip">> \in DOMAIN facts
        <4>1. n = key /\ facts[<<n, "ip">>] = loc.ip
          BY <3>2 DEF Facts
        <4>2. loc.ip \in IPs /\ holder[loc.ip] = key
          BY <2>4 DEF EnrichClusterSecret, Typed, Life, WorkForm, Addressed, Publishing, Backed
        <4>3. Merge(old.meta, facts)[<<n, "ip">>] = facts[<<n, "ip">>]
          BY <3>2 DEF Merge
        <4> QED BY <3>1, <4>1, <4>2, <4>3
      <3>3. CASE <<n, "ip">> \notin DOMAIN facts
        <4>1. /\ <<n, "ip">> \in DOMAIN old.meta
              /\ Merge(old.meta, facts)[<<n, "ip">>] = old.meta[<<n, "ip">>]
          BY <3>1, <3>3 DEF Merge
        <4> QED BY <2>2, <3>1, <4>1
      <3> QED BY <3>2, <3>3
    <2>5. CASE Put(Secret, stripped) \/ Put(Secret, Bare(old))
      <3>1. api'[Secret] \in {stripped, Bare(old)}
        BY <1>1, <2>5, PutForm, SecretObjects
      <3>2. <<n, "ip">>[2] = "ip"
        OBVIOUS
      <3>3. <<n, "ip">> \notin DOMAIN api'[Secret].meta
        BY <3>1, <3>2 DEF Bare, Without, Prefixed
      <3> QED BY <3>3
    <2> QED BY <1>5, <2>3, <2>4, <2>5
  <1> QED BY <1>2, <1>3, <1>4, <1>5

\* All other steps leave the Secret and the pool alone.
LEMMA OtherLabelled ==
    ASSUME Typed, Labelled,
           \/ AddFinalizer \/ CheckDrift \/ UpdateIP \/ GetClusterInfo
           \/ UpsertConfigMapSink \/ UpdateStatus \/ DeleteConfigMap \/ RemoveFinalizer
           \/ FailedCall({"drift", "update", "map", "labels", "strip"}) \/ ConfigMapStays
           \/ IgnoredError(Publish(obj.spec)) \/ CrashBoth \/ EditRegistration
           \/ (\E n \in Names :
                 \/ CreateCR(n, NewAllocation) \/ DeleteCR(n) \/ EditCR(n, Editable(n))
                 \/ SpoilConfigMap(n) \/ CollectConfigMap(n) \/ Start(n))
           \/ DeliverCRs \/ DeliverMaps \/ DeliverSecrets \/ UNCHANGED allocVars
    PROVE  Labelled'
  <1>1. CASE \/ CheckDrift \/ UpdateIP \/ GetClusterInfo
             \/ FailedCall({"drift", "update", "map", "labels", "strip"}) \/ ConfigMapStays
             \/ IgnoredError(Publish(obj.spec)) \/ CrashBoth \/ EditRegistration
             \/ (\E n \in Names : Start(n))
             \/ DeliverCRs \/ DeliverMaps \/ DeliverSecrets \/ UNCHANGED allocVars
    <2>1. api' = api /\ holder' = holder
      BY <1>1 DEF CheckDrift, UpdateIP, SetDNS, GetClusterInfo, GetInfo, FailedCall,
         ConfigMapStays, IgnoredError, CrashBoth, Crash, EditRegistration, Start, DeliverCRs,
         DeliverMaps, DeliverSecrets, Deliver, allocVars, vars, k8sVars, poolVars
    <2> QED BY <2>1, HeldKept DEF KeyedKeep
  <1>2. CASE \/ AddFinalizer \/ UpsertConfigMapSink \/ UpdateStatus \/ DeleteConfigMap
             \/ RemoveFinalizer
    <2>1. key \in Names /\ view' = view /\ holder' = holder
      BY <1>2 DEF Typed, Life, WorkOf, AddFinalizer, UpsertConfigMapSink, UpdateStatus,
         PublishStatus, DeleteConfigMap, RemoveFinalizer, poolVars
    <2>2. \E o \in {key, Map(key)} : \E new : Put(o, new) \/ NoPut
      BY <1>2 DEF AddFinalizer, UpdateCR, UpsertConfigMapSink, UpdateStatus, PublishStatus,
         DeleteConfigMap, RemoveFinalizer
    <2>3. api'[Secret] = api[Secret]
      BY <2>1, <2>2, SecretSame, SecretObjects DEF Typed, Life
    <2> QED BY <2>1, <2>3, HeldKept DEF KeyedKeep
  <1>3. ASSUME NEW n \in Names,
               \/ CreateCR(n, NewAllocation) \/ DeleteCR(n) \/ EditCR(n, Editable(n))
               \/ SpoilConfigMap(n) \/ CollectConfigMap(n)
        PROVE  Labelled'
    <2>1. PICK o \in {n, Map(n)} : \E new : EnvPut(o, new)
      BY <1>3 DEF CreateCR, DeleteCR, EditCR, SpoilConfigMap, CollectConfigMap
    <2>2. api'[Secret] = api[Secret] /\ holder' = holder
      BY <2>1, SecretSame, SecretObjects DEF Typed, Life, EnvPut, poolVars
    <2> QED BY <2>2, HeldKept DEF KeyedKeep
  <1> QED BY <1>1, <1>2, <1>3

\* All steps.
LEMMA NextLabelled ==
    ASSUME Typed, Backed, Labelled, NoRelease \/ (OneName /\ Marked), [Next]_allocVars
    PROVE  Labelled'
  BY CallsLabelled, SecretLabelled, OtherLabelled
     DEF Next, Reconcile, Misfortune, Register, Environment

(***************************************************************************)
(* The address that the Secret shows for an allocation is assigned to it:  *)
(* it is written after the reservation and, when the allocation is         *)
(* deleted, off the Secret before the address is given back, whichever     *)
(* caches lag, writes conflict and replies are lost.  For allocations that *)
(* never ask for a release, or of one name whose sinks stay.               *)
(***************************************************************************)
THEOREM LabelsHeld ==
    ASSUME NoRelease \/ (OneName /\ KeepsSinks)
    PROVE  Spec => []LabelledIsHeld
  <1>1. Init => Labelled
    <2> SUFFICES ASSUME Init PROVE Labelled
      OBVIOUS
    <2>1. api[Secret] = [meta |-> [k \in {} |-> None], record |-> {}]
      BY SecretObjects DEF Init, InitWith
    <2> QED BY <2>1 DEF Labelled
  <1>2. Labelled => LabelledIsHeld
    BY DEF Labelled, LabelledIsHeld
  <1>3. CASE NoRelease
    <2>1. Typed /\ Backed /\ Labelled /\ [Next]_allocVars => Labelled'
      BY <1>3, NextLabelled
    <2>2. Spec => []Backed
      BY <1>3, AlwaysBacked
    <2> QED BY <1>1, <1>2, <2>1, <2>2, AlwaysTyped, PTL DEF Spec
  <1>4. CASE OneName /\ KeepsSinks
    <2>1. Typed /\ Backed /\ Marked /\ Labelled /\ [Next]_allocVars => Labelled'
      BY <1>4, NextLabelled
    <2>2. Spec => []Backed
      BY <1>4, AlwaysBacked
    <2>3. Spec => []Marked
      BY <1>4, AlwaysMarked
    <2> QED BY <1>1, <1>2, <2>1, <2>2, <2>3, AlwaysTyped, PTL DEF Spec
  <1> QED BY <1>3, <1>4
====
