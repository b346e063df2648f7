-------------------------- MODULE LoadBalancerProofs --------------------------
(***************************************************************************)
(* Theorems about the ClusterbookLoadBalancer controller, for every number *)
(* of names, Services and addresses and every bound: its types, the        *)
(* reservation it implements, and the loadBalancerIP it keeps of a         *)
(* Service.                                                                *)
(***************************************************************************)
EXTENDS LoadBalancerReconciler, ControllerProofs

\* What the Services carry, and the Service of a CR that has one.
ServiceForm ==
    /\ \A s \in Services : api[s] \in Carried /\ view[s] \in Carried
    /\ pc \in {"capture", "patch"} => obj.spec.target \in Services

Typed == Life(LoadBalancers) /\ ServiceForm

\* The annotation of a first life is the users', and once written it stays.
Genuine(x)    == x.uid >= 1 /\ (x.uid = 1 => x.prev \notin IPs)
Latched(x, y) == x.uid = y.uid /\ x.prev # None => y.prev # None

\* No CR of that name has captured a Service so far.
Uncaptured(n) ==
    births[n] <= 1 /\ (births[n] = 0 \/ (api[n] # None /\ api[n].prev = None))

CapturedOf(n) ==
    /\ api[n] # None => Genuine(api[n])
    /\ view[n] # None =>
          Genuine(view[n]) /\ (api[n] # None => Latched(view[n], api[n]))
    /\ Uncaptured(n) => \A s \in Services : api[s] \notin IPs /\ view[s] \notin IPs

CapturedBy ==
    pc # "idle" => /\ Genuine(obj)
                   /\ api[key] # None => Latched(obj, api[key])
                   /\ pc = "patch" => obj.prev # None

Captured == (\A n \in Names : CapturedOf(n)) /\ CapturedBy

-----------------------------------------------------------------------------
(***************************************************************************)
(* Every step of the controller is one of the moves of ControllerProofs.   *)
(***************************************************************************)
\* Load balancers are a sort of CRs.
LEMMA LBSort == CRSort(LoadBalancers)
  BY LoadBalancerAssumption DEF CRSort, LoadBalancers, BaseOK

\* A write of something that is no Service.
LEMMA ServicesSame ==
    ASSUME StoreForm, NEW o \in Objects \ Services, NEW new, Put(o, new) \/ NoPut,
           view' = view
    PROVE  \A s \in Services : api'[s] = api[s] /\ view'[s] = view[s]
  BY PutForm, LoadBalancerAssumption DEF Objects, NoPut

\* A CR and its pool are objects apart.
LEMMA PoolObject ==
    ASSUME NEW n \in Names
    PROVE  Pool(n) \in Live /\ Pool(n) \in Objects \ (Names \cup Services) /\ n \in Objects \ Services
  BY LoadBalancerAssumption, ControllerAssumption DEF Objects

\* A step that leaves the Services alone.
LEMMA FormStep ==
    ASSUME ServiceForm, \A s \in Services : api'[s] = api[s] /\ view'[s] = view[s],
           \/ pc' \notin {"capture", "patch"}
           \/ UNCHANGED <<pc, obj>>
           \/ pc' \in {"capture", "patch"} /\ obj'.spec.target \in Services
    PROVE  ServiceForm'
  BY DEF ServiceForm

\* The calls to clusterbook.
LEMMA PoolCalls ==
    ASSUME Typed, \/ EnsureReservation \/ ReserveIPs \/ ReleaseIP
                  \/ pc \in {"reserve", "release"} /\ LostReply(obj.spec.dns)
    PROVE  StepOK(LoadBalancers) /\ ServiceForm'
  <1>1. obj.spec.dns \in BOOLEAN \/ ~(pc \in {"reserve", "release"})
    <2>1. pc \in {"reserve", "release"} => obj.spec \in ValidSpecs
      BY LoadBalancerAssumption DEF Typed, Life, WorkOf, LoadBalancers
    <2> QED BY <2>1 DEF ValidSpecs
  <1>2. StepOK(LoadBalancers)
    BY <1>1, LBSort, CallStep DEF Typed, EnsureReservation, ReserveIPs, Publishing
  <1>3. ServiceForm'
    <2>1. api' = api /\ view' = view /\ pc' \in {"info", "reserve", "unfinalize", "idle"}
      BY DEF EnsureReservation, EnsureIP, ReserveIPs, Reserve, ReleaseIP, LostReply, Goto, Fail,
         Idle, k8sVars
    <2> QED BY <2>1, FormStep DEF Typed
  <1> QED BY <1>2, <1>3

\* Before the target: the finalizer and GetClusterInfo.
LEMMA Preparing ==
    ASSUME Typed, AddFinalizer \/ GetClusterInfo
    PROVE  StepOK(LoadBalancers) /\ ServiceForm'
  <1>1. CASE AddFinalizer
    <2>1. StepOK(LoadBalancers)
      BY <1>1, LBSort, AddFinalizerStep DEF Typed
    <2>2. key \in Names
      BY <1>1 DEF Typed, Life, WorkOf, AddFinalizer
    <2>3. \A s \in Services : api'[s] = api[s] /\ view'[s] = view[s]
      BY <1>1, <2>2, PoolObject, ServicesSame DEF Typed, Life, AddFinalizer, UpdateCR
    <2>4. pc' \in {"ensure", "idle"}
      BY <1>1 DEF AddFinalizer, UpdateCR, Goto, Fail, Idle
    <2> QED BY <1>1, <2>1, <2>3, <2>4, FormStep DEF Typed
  <1>2. CASE GetClusterInfo
    <2>1. /\ key \in Names /\ obj.spec.target \in Services \cup {"pool"}
      BY <1>2, LoadBalancerAssumption
         DEF Typed, Life, WorkOf, GetClusterInfo, LoadBalancers, ValidSpecs
    <2>2. StepOK(LoadBalancers)
      BY <1>2, <2>1, PoolObject, GetInfoStep DEF Typed, GetClusterInfo, Pin, Publishing
    <2>3. api' = api /\ view' = view /\ obj' = obj /\ pc' = Pin(obj.spec)
      BY <1>2 DEF GetClusterInfo, GetInfo, Goto, k8sVars
    <2> QED BY <2>1, <2>2, <2>3, FormStep DEF Typed, Pin
  <1> QED BY <1>1, <1>2

\* The pool.
LEMMA PoolSteps ==
    ASSUME Typed, UpsertCiliumPool \/ DeletePool \/ PoolStays
    PROVE  StepOK(LoadBalancers) /\ ServiceForm'
  <1>1. /\ key \in Names /\ pc # "idle" /\ view' = view /\ UNCHANGED <<births, poolVars>>
        /\ dns' \in [IPs -> BOOLEAN]
    BY DEF Typed, Life, WorkForm, WorkOf, UpsertCiliumPool, DeletePool, PoolStays, budgetVars,
       k8sVars, poolVars, Fault
  <1>2. PICK new : Put(Pool(key), new) \/ NoPut
    BY DEF UpsertCiliumPool, DeletePool, PoolStays, NoPut, k8sVars
  <1>3. pc' \in {"status", "idle", AfterUndo(obj)}
    BY DEF UpsertCiliumPool, DeletePool, PoolStays, Goto, Fail, Idle
  <1>4. ServiceForm'
    BY <1>1, <1>2, <1>3, PoolObject, ServicesSame, FormStep DEF Typed, Life, AfterUndo
  <1>5. StepOK(LoadBalancers)
    <2>1. CASE Fail /\ NoPut
      BY <1>1, <2>1, FailStep DEF Typed
    <2>2. CASE Goto("status") /\ UNCHANGED <<obj, loc>> /\ pc = "pool"
      BY <1>1, <1>2, <2>2, PoolObject, GoStep DEF Typed, Publishing, poolVars
    <2>3. CASE Goto(AfterUndo(obj)) /\ UNCHANGED <<obj, loc>> /\ pc = "undo"
      BY <1>1, <1>2, <2>3, PoolObject, GoStep DEF Typed, Undoing, poolVars
    <2> QED BY <2>1, <2>2, <2>3 DEF UpsertCiliumPool, DeletePool, PoolStays
  <1> QED BY <1>4, <1>5

\* The Service is read, and its loadBalancerIP written down the first time.
LEMMA CaptureStep ==
    ASSUME Typed, CaptureService
    PROVE  StepOK(LoadBalancers) /\ ServiceForm'
  <1> DEFINE s == obj.spec.target
             new == [obj EXCEPT !.prev = view[s]]
  <1>1. /\ pc = "capture" /\ key \in Names /\ s \in Services /\ view' = view
        /\ UNCHANGED <<births, poolVars>> /\ obj \in LoadBalancers
        /\ StoreForm /\ WorkForm
    BY DEF Typed, ServiceForm, Life, WorkOf, CaptureService, budgetVars
  <1>2. /\ new \in LoadBalancers /\ new.uid = obj.uid /\ new.deleting = obj.deleting
        /\ new.fin = obj.fin /\ new.spec = obj.spec /\ new.ip = obj.ip
    BY <1>1 DEF Typed, ServiceForm, LoadBalancers
  <1> HIDE DEF new
  <1>3. CASE Fail /\ NoPut
    <2>1. StepOK(LoadBalancers)
      BY <1>1, <1>3, FailStep DEF Typed
    <2>2. ServiceForm'
      BY <1>1, <1>3, FormStep DEF Typed, NoPut, Fail, Idle
    <2> QED BY <2>1, <2>2
  <1>4. ASSUME NEW cr, ReadService(s, cr)
        PROVE  /\ obj' = cr /\ pc' = "patch" /\ UNCHANGED <<key, queue>>
               /\ key \in fresh' => key \in fresh
               /\ loc'.ip = loc.ip /\ WorkForm'
    <2>1. s \notin Names /\ s \in Cached
      BY <1>1, LoadBalancerAssumption, ControllerAssumption
    <2>2. loc' = [loc EXCEPT !.seen = view[s]]
      BY <1>4 DEF ReadService
    <2>3. /\ {"ip", "info", "seen"} \subseteq DOMAIN loc' /\ loc'.ip = loc.ip
          /\ loc'.info = loc.info
      BY <1>1, <2>2 DEF WorkForm
    <2>4. fresh' \in {fresh, fresh \cup {s}}
      BY <1>4 DEF ReadService
    <2>5. WorkForm'
      BY <1>1, <1>4, <2>1, <2>3, <2>4 DEF WorkForm, ReadService, poolVars
    <2> QED BY <1>1, <1>4, <2>1, <2>3, <2>4, <2>5 DEF ReadService
  <1>5. CASE NoPut /\ ReadService(s, obj)
    <2>1. KeepsCRs /\ StoreForm'
      BY <1>1, <1>5, NoPutForm
    <2>2. Onward
      BY <1>1, <1>4, <1>5, <2>1 DEF Onward, Publishing, poolVars
    <2>3. ServiceForm'
      BY <1>1, <1>4, <1>5, FormStep DEF Typed, NoPut
    <2> QED BY <1>4, <1>5, <2>1, <2>2, <2>3 DEF StepOK, Move
  <1>6. CASE key \in fresh /\ Put(key, new) /\ ReadService(s, new)
    <2>1. Writes(new) /\ StoreForm'
      BY <1>1, <1>6, WriteStep DEF Typed, poolVars
    <2>2. Annotates(LoadBalancers)
      BY <1>1, <1>2, <1>4, <1>6, <2>1 DEF Annotates, Noted, Publishing
    <2>3. ServiceForm'
      BY <1>1, <1>2, <1>4, <1>6, PoolObject, ServicesSame, FormStep DEF Typed
    <2> QED BY <1>4, <1>6, <2>1, <2>2, <2>3 DEF StepOK, Move
  <1> QED BY <1>3, <1>5, <1>6 DEF CaptureService, new

\* The Service is given the address, or what it had before.
LEMMA PinSteps ==
    ASSUME Typed, PatchService \/ RestoreService
    PROVE  StepOK(LoadBalancers) /\ ServiceForm'
  <1> DEFINE s == obj.spec.target
  <1>1. /\ pc # "idle" /\ key \in Names /\ view' = view /\ UNCHANGED <<births, poolVars>>
        /\ dns' \in [IPs -> BOOLEAN] /\ StoreForm /\ s \in Services
        /\ loc.ip \in Carried /\ obj.prev \in Carried
    BY LoadBalancerAssumption
       DEF Typed, ServiceForm, Life, WorkForm, WorkOf, PatchService, RestoreService, Carried,
           LoadBalancers, ValidSpecs, budgetVars, poolVars
  <1>2. CASE Fail /\ NoPut
    <2>1. StepOK(LoadBalancers)
      BY <1>1, <1>2, FailStep DEF Typed
    <2>2. ServiceForm'
      BY <1>1, <1>2, FormStep DEF Typed, NoPut, Fail, Idle
    <2> QED BY <2>1, <2>2
  <1>3. ASSUME ~(Fail /\ NoPut)
        PROVE  /\ \E new \in Carried : Put(s, new) \/ NoPut
               /\ UNCHANGED <<obj, loc>>
               /\ \/ pc = "patch" /\ Goto("status")
                  \/ pc = "undo" /\ Goto(AfterUndo(obj))
    BY <1>1, <1>3 DEF PatchService, RestoreService, Carried
  <1>4. CASE ~(Fail /\ NoPut)
    <2>1. PICK new \in Carried : Put(s, new) \/ NoPut
      BY <1>3, <1>4
    <2>2. s \in Cached /\ s \in Objects
      BY <1>1, LoadBalancerAssumption DEF Objects
    <2>3. StepOK(LoadBalancers)
      BY <1>1, <1>3, <1>4, <2>1, <2>2, GoStep DEF Typed, Publishing, Undoing, poolVars
    <2>4. \A t \in Services : api'[t] \in Carried /\ view'[t] \in Carried
      BY <1>1, <2>1, <2>2, PutForm, LoadBalancerAssumption DEF Typed, ServiceForm, NoPut, Objects
    <2>5. pc' \in {"status", "release", "unfinalize"}
      BY <1>3, <1>4 DEF Goto, AfterUndo
    <2> QED BY <2>3, <2>4, <2>5 DEF ServiceForm
  <1> QED BY <1>2, <1>4

\* The status.
LEMMA StatusStep ==
    ASSUME Typed, UpdateStatus
    PROVE  StepOK(LoadBalancers) /\ ServiceForm'
  <1> DEFINE new == [WithAddress(obj) EXCEPT !.target = obj.spec.target]
  <1>1. /\ key \in Names /\ pc = "status" /\ view' = view /\ UNCHANGED <<births, poolVars>>
        /\ obj \in LoadBalancers /\ loc.ip \in IPs \cup {None} /\ loc.info \in Infos
        /\ obj.spec.target \in Services \cup {"pool"}
    BY LoadBalancerAssumption
       DEF Typed, Life, WorkForm, WorkOf, UpdateStatus, PublishStatus, LoadBalancers,
           ValidSpecs, budgetVars
  <1>2. WithAddress(obj) \in LoadBalancers /\ WithAddress(obj).ip = loc.ip
    BY <1>1 DEF WithAddress, LoadBalancers
  <1>3. /\ new \in LoadBalancers /\ new.uid = obj.uid /\ new.deleting = obj.deleting
        /\ new.fin = obj.fin /\ new.spec = obj.spec /\ new.ip = loc.ip
    BY <1>1, <1>2 DEF WithAddress, LoadBalancers
  <1>4. /\ IF key \in fresh THEN Put(key, new) ELSE NoPut
        /\ Done
    BY DEF UpdateStatus, PublishStatus
  <1> HIDE DEF new
  <1>5. Noted(LoadBalancers, new)
    BY <1>3 DEF Noted
  <1>6. StepOK(LoadBalancers)
    BY <1>1, <1>3, <1>4, <1>5, RecordStep DEF Typed, Publishing
  <1>7. ServiceForm'
    BY <1>1, <1>4, PoolObject, ServicesSame, FormStep DEF Typed, Life, Done, Idle
  <1> QED BY <1>6, <1>7

\* The CR goes, a call fails, the manager dies.
LEMMA EndSteps ==
    ASSUME Typed, \/ RemoveFinalizer \/ FailedCall({"pool", "capture", "patch", "undo"})
                  \/ Crash
    PROVE  StepOK(LoadBalancers) /\ ServiceForm'
  <1>1. StepOK(LoadBalancers)
    BY RemoveFinalizerStep, FailedCallStep, CrashStep DEF Typed
  <1>2. pc' = "idle"
    BY DEF RemoveFinalizer, FailedCall, Crash, Restart, Done, Fail, Idle
  <1>3. \A s \in Services : api'[s] \in Carried /\ view'[s] \in Carried
    <2>1. CASE RemoveFinalizer
      <3>1. key \in Names /\ view' = view /\ (Put(key, None) \/ NoPut)
        BY <2>1 DEF Typed, Life, WorkOf, RemoveFinalizer
      <3> QED BY <3>1, PoolObject, ServicesSame DEF Typed, Life, ServiceForm
    <2>2. CASE FailedCall({"pool", "capture", "patch", "undo"})
      BY <2>2 DEF FailedCall, k8sVars, Typed, ServiceForm
    <2>3. CASE Crash
      BY <2>3, LoadBalancerAssumption DEF Crash, Restart, Typed, ServiceForm, Life, StoreForm
    <2> QED BY <2>1, <2>2, <2>3
  <1> QED BY <1>1, <1>2, <1>3 DEF ServiceForm

\* The errors that Reconcile drops.
LEMMA DroppedError ==
    ASSUME Typed, pc \in {"info", "status"}, IgnoredError(Pin(obj.spec))
    PROVE  StepOK(LoadBalancers) /\ ServiceForm'
  <1>1. key \in Names /\ obj.spec.target \in Services \cup {"pool"}
    BY LoadBalancerAssumption DEF Typed, Life, WorkOf, LoadBalancers, ValidSpecs
  <1>2. StepOK(LoadBalancers)
    BY <1>1, PoolObject, IgnoredErrorStep DEF Typed, Pin, Publishing
  <1>3. api' = api /\ view' = view
    BY DEF IgnoredError, k8sVars
  <1>4. pc' = "idle" \/ (pc' = Pin(obj.spec) /\ obj' = obj)
    BY DEF IgnoredError, Goto, Done, Idle
  <1> QED BY <1>1, <1>2, <1>3, <1>4, FormStep DEF Typed, Pin

\* What users, the garbage collector and the informers do.
LEMMA OutsideSteps ==
    ASSUME Typed, Environment \/ DeliverCRs \/ DeliverServices
    PROVE  StepOK(LoadBalancers) /\ ServiceForm'
  <1>1. ASSUME NEW n \in Names,
               \/ CreateCR(n, NewLB) \/ DeleteCR(n)
               \/ api[n] # None /\ EditCR(n, SameTarget(n))
        PROVE  StepOK(LoadBalancers) /\ ServiceForm'
    <2>1. StepOK(LoadBalancers)
      <3>1. CASE CreateCR(n, NewLB)
        <4>1. PICK s \in SpecChoices : EnvPut(n, NewLB(births[n] + 1, s))
          BY <3>1 DEF CreateCR
        <4>2. NewLB(births[n] + 1, s) \in LoadBalancers
          BY DEF Typed, Life, LifeOf, NewLB, LoadBalancers, Infos, Carried
        <4>3. api[n] = None /\ births' = [births EXCEPT ![n] = @ + 1]
          BY <3>1 DEF CreateCR
        <4> QED BY <4>1, <4>2, <4>3, UserStep DEF Typed, NewLB
      <3>2. CASE DeleteCR(n) \/ (api[n] # None /\ EditCR(n, SameTarget(n)))
        <4>1. SameTarget(n) \in SUBSET SpecChoices
          BY DEF SameTarget
        <4> QED BY <3>2, <4>1, EditStep DEF Typed
      <3> QED BY <1>1, <3>1, <3>2
    <2>2. \E new : EnvPut(n, new)
      BY <1>1 DEF CreateCR, EditCR, DeleteCR
    <2>3. ServiceForm'
      BY <2>2, PoolObject, ServicesSame, FormStep DEF Typed, Life, EnvPut
    <2> QED BY <2>1, <2>3
  <1>2. ASSUME NEW n \in Names, CollectPool(n)
        PROVE  StepOK(LoadBalancers) /\ ServiceForm'
    <2>1. EnvPut(Pool(n), None) /\ births' = births
      BY <1>2 DEF CollectPool, budgetVars
    <2>2. ServiceForm'
      BY <2>1, PoolObject, ServicesSame, FormStep DEF Typed, Life, EnvPut
    <2> QED BY <2>1, <2>2, PoolObject, OtherStep DEF Typed
  <1>3. ASSUME NEW s \in Services, CreateService(s) \/ EditService(s)
        PROVE  StepOK(LoadBalancers) /\ ServiceForm'
    <2>1. PICK v \in Carried : EnvPut(s, v)
      BY <1>3 DEF CreateService, EditService, Carried
    <2>2. births' = births /\ s \in Cached /\ s \in Objects
      BY <1>3, LoadBalancerAssumption DEF CreateService, EditService, Edit, budgetVars, Objects
    <2>3. StepOK(LoadBalancers)
      BY <2>1, <2>2, OtherStep DEF Typed
    <2>4. \A t \in Services : api'[t] \in Carried /\ view'[t] \in Carried
      BY <2>1, <2>2, PutForm, LoadBalancerAssumption
         DEF Typed, Life, ServiceForm, EnvPut, Objects
    <2> QED BY <2>1, <2>3, <2>4 DEF Typed, ServiceForm, EnvPut
  <1>4. CASE DeliverCRs \/ DeliverServices
    <2>1. queue' \subseteq Names
      BY <1>4 DEF DeliverCRs, DeliverServices, Deliver, Itself, Typed, Life, WorkForm
    <2>2. StepOK(LoadBalancers)
      BY <1>4, <2>1, DeliverStep DEF Typed, DeliverCRs, DeliverServices, Deliver, budgetVars
    <2>3. /\ api' = api /\ UNCHANGED <<pc, obj>>
          /\ \A s \in Services : view'[s] \in {api[s], view[s]}
      BY <1>4, LoadBalancerAssumption
         DEF DeliverCRs, DeliverServices, Deliver, Typed, Life, StoreForm
    <2> QED BY <2>2, <2>3 DEF Typed, ServiceForm
  <1> QED BY <1>1, <1>2, <1>3, <1>4 DEF Environment

\* All steps.
LEMMA NextStep ==
    ASSUME Typed, [Next]_vars
    PROVE  StepOK(LoadBalancers) /\ ServiceForm'
  <1>1. CASE Reconcile
    BY <1>1, PoolCalls, Preparing, PoolSteps, CaptureStep, PinSteps, StatusStep, EndSteps
       DEF Reconcile
  <1>2. CASE Misfortune
    BY <1>2, PoolCalls, PoolSteps, EndSteps, DroppedError DEF Misfortune
  <1>3. CASE Environment \/ DeliverCRs \/ DeliverServices
    BY <1>3, OutsideSteps
  <1>4. ASSUME NEW n \in Names, Start(n)
        PROVE  StepOK(LoadBalancers) /\ ServiceForm'
    <2>1. StepOK(LoadBalancers)
      BY <1>4, StartStep DEF Typed
    <2>2. /\ api' = api /\ view' = view
          /\ pc' \in {"idle", "undo", "ensure", "finalizer"} \/ UNCHANGED <<pc, obj>>
      BY <1>4 DEF Start, FirstStep, k8sVars
    <2> QED BY <2>1, <2>2, FormStep DEF Typed
  <1>5. CASE UNCHANGED vars
    <2>1. StepOK(LoadBalancers)
      BY <1>5, StillStep DEF Typed, vars, budgetVars
    <2> QED BY <1>5, <2>1 DEF Typed, ServiceForm, vars, k8sVars, workVars
  <1> QED BY <1>1, <1>2, <1>3, <1>4, <1>5 DEF Next

-----------------------------------------------------------------------------
(***************************************************************************)
(* The first two theorems.                                                 *)
(***************************************************************************)
\* The first state.
LEMMA FirstTyped ==
    ASSUME Init
    PROVE  Typed /\ Backed /\ Reserved!Init
  <1>1. PICK present \in SUBSET Services : InitWith([s \in present |-> Manual])
    BY DEF Init
  <1>2. Life(LoadBalancers) /\ Backed /\ Reserved!Init
    BY <1>1, LoadBalancerAssumption, FirstState
  <1>3. ServiceForm
    <2>1. \A s \in Services : api[s] \in Carried /\ view[s] = api[s]
      BY <1>1, LoadBalancerAssumption DEF InitWith, Carried
    <2> QED BY <1>1, <2>1 DEF InitWith, ServiceForm
  <1> QED BY <1>2, <1>3 DEF Typed

\* The inductive invariant.
LEMMA AlwaysTyped == Spec => []Typed
  <1>1. Typed /\ [Next]_vars => Typed'
    BY NextStep, LBSort, StepLife DEF Typed
  <1> QED BY <1>1, FirstTyped, PTL DEF Spec

(***************************************************************************)
(* Whatever is stale, conflicts or fails, the CRs, the Services, the pool  *)
(* and what the worker carries between its calls are of their types.       *)
(***************************************************************************)
THEOREM LoadBalancerTypes == Spec => []TypeOK
  <1>1. Typed => TypeOK
    <2> SUFFICES ASSUME Typed PROVE TypeOK
      OBVIOUS
    <2>1. WorkOK
      BY LBSort DEF Typed, Life, WorkForm, WorkOf, WorkOK, CRSort
    <2>2. \A n \in Names : api[n] \in LoadBalancers \cup {None}
      BY DEF Typed, Life, LifeOf
    <2> QED BY <2>1, <2>2 DEF TypeOK, Typed, ServiceForm
  <1> QED BY <1>1, AlwaysTyped, PTL

(***************************************************************************)
(* The load balancers implement Reservation: a retried or replayed         *)
(* reconcile takes no second address, a CR in service shows one that it    *)
(* holds, and none is taken back from it.  For CRs of one name, or that    *)
(* never ask for their address to be released.                             *)
(***************************************************************************)
THEOREM LoadBalancerReserves ==
    ASSUME OneName \/ NoRelease
    PROVE  Spec => ImplementsReservation
  <1>1. Typed /\ Backed /\ [Next]_vars => Backed' /\ AbstractStep
    BY NextStep, LBSort, StepBacked DEF Typed
  <1> QED BY <1>1, FirstTyped, AlwaysTyped, PTL
     DEF Spec, ImplementsReservation, Reserved!Spec, AbstractStep

-----------------------------------------------------------------------------
(***************************************************************************)
(* What a CR keeps of its Service.                                         *)
(***************************************************************************)
\* The worker's own life has begun, and it has captured if its copy says so.
LEMMA WorkerCaptured ==
    ASSUME Typed, Captured, pc # "idle", Uncaptured(key)
    PROVE  obj.uid = 1 /\ obj.prev = None
  <1>1. /\ key \in Names /\ obj.uid <= births[key] /\ obj.uid \in Nat /\ births[key] \in Nat
        /\ api[key] # None => api[key].uid = births[key]
        /\ Genuine(obj)
        /\ api[key] # None => Latched(obj, api[key])
    BY DEF Typed, Life, LifeOf, WorkOf, LoadBalancers, Captured, CapturedBy
  <1> QED BY <1>1 DEF Uncaptured, Genuine, Latched

\* A step in which no CR is written.
LEMMA NoCRWritten ==
    ASSUME Typed, Captured,
           \A n \in Names : /\ api'[n] = api[n] /\ births'[n] = births[n]
                            /\ view'[n] \in {api[n], view[n]},
           \A n \in Names : Uncaptured(n)
              => \A s \in Services : api'[s] \notin IPs /\ view'[s] \notin IPs,
           \/ pc' = "idle"
           \/ UNCHANGED <<key, obj>> /\ pc # "idle" /\ (pc' # "patch" \/ pc' = pc)
    PROVE  Captured'
  <1>1. ASSUME NEW n \in Names PROVE CapturedOf(n)'
    <2>1. CapturedOf(n)
      BY DEF Captured
    <2>2. Uncaptured(n)' = Uncaptured(n)
      BY DEF Uncaptured
    <2> QED BY <2>1, <2>2 DEF CapturedOf, Latched
  <1>2. CapturedBy'
    BY DEF Typed, Life, WorkOf, Captured, CapturedBy
  <1> QED BY <1>1, <1>2 DEF Captured

\* The Services are left alone.
ServicesKept == \A s \in Services : api'[s] = api[s] /\ view'[s] = view[s]

\* A step that writes the CR named n.
LEMMA OneCRWritten ==
    ASSUME Typed, Captured, NEW n \in Names, OthersSame(n), SameView, ServicesKept,
           CapturedOf(n)'
    PROVE  \A m \in Names : CapturedOf(m)'
  <1> SUFFICES ASSUME NEW m \in Names, m # n PROVE CapturedOf(m)'
    OBVIOUS
  <1>1. CapturedOf(m) /\ api'[m] = api[m] /\ view'[m] = view[m] /\ births'[m] = births[m]
    BY DEF Captured, OthersSame, SameView
  <1> QED BY <1>1 DEF CapturedOf, Uncaptured, ServicesKept

\* The worker writes its CR.
LEMMA WorkerWrites ==
    ASSUME Typed, Captured, pc # "idle", NEW new, Writes(new), ServicesKept,
           \/ new = None
           \/ new.uid = obj.uid /\ Genuine(new) /\ (obj.prev # None => new.prev # None),
           \/ pc' = "idle"
           \/ obj' = new /\ new # None /\ key' = key /\ (pc' = "patch" => new.prev # None)
    PROVE  Captured'
  <1>0. key \in Names
    BY DEF Typed, Life, WorkOf
  <1> SUFFICES ASSUME NEW n \in Names, n = key PROVE Captured'
    BY <1>0
  <1>1. /\ obj \in LoadBalancers /\ obj.uid <= births[n]
        /\ births[n] \in Nat /\ api[n] = obj /\ obj # None
        /\ Genuine(obj) /\ api'[n] = new /\ births'[n] = births[n]
        /\ view'[n] = view[n]
    BY LoadBalancerAssumption
       DEF Typed, Life, WorkOf, LifeOf, Captured, CapturedBy, Writes, SameView
  <1>2. CapturedOf(n)
    BY DEF Captured
  <1>3. obj.uid \in Nat /\ births[n] # 0
    BY <1>1 DEF LoadBalancers, Genuine
  <1>4. Uncaptured(n)' => Uncaptured(n)
    BY <1>1, <1>3 DEF Uncaptured
  <1>5. CapturedOf(n)'
    BY <1>1, <1>2, <1>4 DEF CapturedOf, Latched, ServicesKept
  <1>6. \A m \in Names : CapturedOf(m)'
    BY <1>5, OneCRWritten DEF Writes
  <1>7. CapturedBy'
    BY <1>1 DEF CapturedBy, Latched
  <1> QED BY <1>6, <1>7 DEF Captured

\* Users write a CR.
LEMMA UserWrites ==
    ASSUME Typed, Captured, NEW n \in Names, NEW new, EnvPut(n, new),
           \/ /\ api[n] = None /\ births' = [births EXCEPT ![n] = @ + 1]
              /\ new.uid = births[n] + 1 /\ new.prev = None
           \/ /\ api[n] # None /\ births' = births
              /\ \/ new = None
                 \/ new.uid = api[n].uid /\ new.prev = api[n].prev
    PROVE  Captured'
  <1>1. /\ StoreForm /\ view' = view /\ LifeOf(LoadBalancers, n) /\ CapturedOf(n)
        /\ births[n] \in Nat /\ DOMAIN births = Names
    BY DEF Typed, Life, LifeOf, WorkForm, EnvPut, Captured
  <1>2. /\ api'[n] = new /\ OthersSame(n) /\ SameView /\ ServicesKept
    BY <1>1, PutForm, PoolObject, ServicesSame DEF EnvPut, OthersSame, SameView, ServicesKept, Objects
  <1>3. None \notin IPs
    BY ControllerAssumption
  <1>4. CASE api[n] = None
    <2>1. new.uid = births[n] + 1 /\ new.prev = None /\ births'[n] = births[n] + 1
      BY <1>1, <1>4
    <2>2. view[n] # None => view[n].uid \in Nat /\ view[n].uid <= births[n]
      BY <1>1 DEF LifeOf, LoadBalancers
    <2>3. CapturedOf(n)'
      <3>1. Genuine(new)
        BY <1>1, <1>3, <2>1 DEF Genuine
      <3>2. Uncaptured(n)' => Uncaptured(n)
        BY <1>1, <2>1 DEF Uncaptured
      <3>3. view[n] # None => Genuine(view[n]) /\ Latched(view[n], new)
        BY <1>1, <2>1, <2>2 DEF CapturedOf, Latched
      <3> QED BY <1>1, <1>2, <3>1, <3>2, <3>3 DEF CapturedOf, ServicesKept
    <2>4. CapturedBy'
      <3>1. pc # "idle" => obj.uid \in Nat /\ obj.uid <= births[key]
        BY DEF Typed, Life, WorkOf, LoadBalancers
      <3>2. pc # "idle" /\ key = n => Latched(obj, new)
        BY <1>1, <2>1, <3>1 DEF Latched
      <3>3. pc # "idle" /\ key # n => api'[key] = api[key]
        BY <1>2 DEF OthersSame, Typed, Life, WorkOf
      <3> QED BY <1>2, <3>2, <3>3 DEF EnvPut, Captured, CapturedBy
    <2> QED BY <1>2, <2>3, <2>4, OneCRWritten DEF Captured
  <1>5. CASE api[n] # None
    <2>1. births' = births
      BY <1>5
    <2>2. births[n] # 0
      BY <1>1, <1>5 DEF LifeOf, CapturedOf, Genuine
    <2>3. Uncaptured(n)' => Uncaptured(n)
      BY <1>2, <1>5, <2>1, <2>2 DEF Uncaptured
    <2>4. CapturedOf(n)'
      BY <1>1, <1>2, <1>5, <2>3 DEF CapturedOf, Latched, Genuine, ServicesKept
    <2>5. CapturedBy'
      <3>1. pc # "idle" /\ key # n => api'[key] = api[key]
        BY <1>2 DEF OthersSame, Typed, Life, WorkOf
      <3> QED BY <1>2, <1>5, <3>1 DEF EnvPut, Captured, CapturedBy, Latched
    <2> QED BY <1>2, <2>4, <2>5, OneCRWritten DEF Captured
  <1> QED BY <1>4, <1>5

\* The calls to clusterbook, errors, informers: nothing is written.
LEMMA NothingWritten ==
    ASSUME Typed, Captured, api' = api, births' = births,
           \A o \in Names \cup Services : view'[o] \in {api[o], view[o]},
           \/ pc' = "idle"
           \/ UNCHANGED <<key, obj>> /\ pc # "idle" /\ (pc' # "patch" \/ pc' = pc)
    PROVE  Captured'
  <1>1. \A n \in Names : Uncaptured(n)
              => \A s \in Services : api'[s] \notin IPs /\ view'[s] \notin IPs
    BY DEF Captured, CapturedOf
  <1> QED BY <1>1, NoCRWritten

\* Something else than a CR is written: a Service gets no address of the pool
\* before it is captured.
LEMMA OtherWritten ==
    ASSUME Typed, Captured, NEW o \in Objects \ Names, NEW new, Put(o, new) \/ NoPut,
           view' = view, births' = births,
           o \in Services /\ new \in IPs => \A n \in Names : ~Uncaptured(n),
           \/ pc' = "idle"
           \/ UNCHANGED <<key, obj>> /\ pc # "idle" /\ (pc' # "patch" \/ pc' = pc)
    PROVE  Captured'
  <1>1. \A p \in Objects \ {o} : api'[p] = api[p]
    BY PutForm DEF Typed, Life, NoPut
  <1>2. Put(o, new) => api'[o] = new
    BY PutForm DEF Typed, Life
  <1>3. Services \subseteq Objects /\ Names \subseteq Objects
    BY LoadBalancerAssumption DEF Objects
  <1>4. \A n \in Names : api'[n] = api[n]
    BY <1>1, <1>3
  <1>5. ASSUME NEW n \in Names, Uncaptured(n), NEW s \in Services
        PROVE  api'[s] \notin IPs /\ view'[s] \notin IPs
    <2>1. api[s] \notin IPs /\ view[s] \notin IPs
      BY <1>5 DEF Captured, CapturedOf
    <2>2. CASE s # o
      BY <1>1, <1>3, <2>1, <2>2
    <2>3. CASE s = o
      BY <1>2, <1>5, <2>1, <2>3 DEF NoPut
    <2> QED BY <2>2, <2>3
  <1> QED BY <1>4, <1>5, NoCRWritten

\* The steps that write neither a CR nor a Service.
LEMMA QuietCaptured ==
    ASSUME Typed, Captured,
           \/ EnsureReservation \/ ReserveIPs \/ GetClusterInfo \/ ReleaseIP \/ Misfortune
           \/ DeliverCRs \/ DeliverServices \/ UNCHANGED vars
    PROVE  Captured'
  <1>1. CASE EnsureReservation \/ ReserveIPs \/ ReleaseIP
    <2>1. /\ api' = api /\ view' = view /\ births' = births /\ pc # "idle"
          /\ pc' = "idle" \/ (UNCHANGED <<key, obj>> /\ pc' # "patch")
      BY <1>1 DEF EnsureReservation, EnsureIP, ReserveIPs, Reserve, ReleaseIP, Goto, Fail, Idle,
         k8sVars, budgetVars
    <2> QED BY <2>1, NothingWritten
  <1>2. CASE GetClusterInfo
    <2>1. /\ api' = api /\ view' = view /\ births' = births /\ pc # "idle"
          /\ UNCHANGED <<key, obj>> /\ pc' # "patch"
      BY <1>2 DEF GetClusterInfo, GetInfo, Pin, Goto, k8sVars, budgetVars
    <2> QED BY <2>1, NothingWritten
  <1>3. CASE Misfortune
    <2>1. CASE Crash
      <3>1. api' = api /\ births' = births /\ pc' = "idle"
        BY <2>1 DEF Crash, Restart, Fault, Idle
      <3>2. \A o \in Names \cup Services : view'[o] \in {api[o], view[o]}
        BY <2>1, LoadBalancerAssumption DEF Crash, Restart, Typed, Life, StoreForm
      <3> QED BY <3>1, <3>2, NothingWritten
    <2>2. CASE ~Crash
      <3>1. /\ api' = api /\ view' = view /\ births' = births
            /\ pc' = "idle" \/ (UNCHANGED <<key, obj>> /\ pc # "idle" /\ pc' # "patch")
        BY <1>3, <2>2 DEF Misfortune, FailedCall, PoolStays, LostReply, IgnoredError, AfterUndo,
           Pin, Goto, Done, Fail, Idle, Fault, k8sVars
      <3> QED BY <3>1, NothingWritten
    <2> QED BY <2>1, <2>2
  <1>4. CASE DeliverCRs \/ DeliverServices
    <2>1. /\ api' = api /\ births' = births /\ UNCHANGED <<pc, key, obj>>
          /\ \A o \in Names \cup Services : view'[o] \in {api[o], view[o]}
      BY <1>4, LoadBalancerAssumption
         DEF DeliverCRs, DeliverServices, Deliver, Typed, Life, StoreForm, budgetVars
    <2> QED BY <2>1, NothingWritten
  <1>5. CASE UNCHANGED vars
    BY <1>5, NothingWritten DEF vars, k8sVars, workVars, budgetVars
  <1> QED BY <1>1, <1>2, <1>3, <1>4, <1>5

\* The worker's writes to its CR.
LEMMA WorkerCaptures ==
    ASSUME Typed, Captured,
           AddFinalizer \/ CaptureService \/ UpdateStatus \/ RemoveFinalizer
    PROVE  Captured'
  <1>1. /\ pc # "idle" /\ key \in Names /\ view' = view /\ births' = births
        /\ obj \in LoadBalancers /\ obj # None /\ Genuine(obj) /\ StoreForm
        /\ UNCHANGED holder
    BY LoadBalancerAssumption
       DEF Typed, Life, WorkOf, Captured, CapturedBy, AddFinalizer, CaptureService,
           UpdateStatus, PublishStatus, RemoveFinalizer, budgetVars, poolVars
  <1>2. CASE NoPut /\ pc' = "idle"
    <2>1. api' = api
      BY <1>2 DEF NoPut
    <2> QED BY <1>1, <1>2, <2>1, NothingWritten
  <1>3. ASSUME NEW new, key \in fresh, Put(key, new)
        PROVE  Writes(new) /\ ServicesKept
    BY <1>1, <1>3, WriteStep, PoolObject, ServicesSame DEF Typed, ServicesKept
  <1>4. CASE AddFinalizer
    <2> DEFINE new == [obj EXCEPT !.fin = TRUE]
    <2>1. /\ new.uid = obj.uid /\ new.prev = obj.prev /\ new # None /\ Genuine(new)
      BY <1>1, LoadBalancerAssumption DEF LoadBalancers, Genuine
    <2>2. CASE key \in fresh
      <3>1. Put(key, new) /\ obj' = new /\ key' = key /\ pc' # "patch"
        BY <1>4, <2>2 DEF AddFinalizer, UpdateCR, Goto
      <3> HIDE DEF new
      <3> QED BY <1>1, <1>3, <2>1, <2>2, <3>1, WorkerWrites
    <2>3. CASE key \notin fresh
      BY <1>2, <1>4, <2>3 DEF AddFinalizer, UpdateCR, Fail, Idle
    <2> QED BY <2>2, <2>3
  <1>5. CASE CaptureService
    <2> DEFINE s == obj.spec.target
               new == [obj EXCEPT !.prev = view[s]]
    <2>1. s \in Services /\ pc = "capture"
      BY <1>5 DEF Typed, ServiceForm, CaptureService
    <2>2. CASE NoPut /\ Fail
      BY <1>2, <2>2 DEF Fail, Idle
    <2>3. CASE obj.prev # None /\ NoPut /\ ReadService(s, obj)
      <3>1. /\ UNCHANGED <<api, key, obj>> /\ pc' = "patch"
        BY <2>3 DEF NoPut, ReadService
      <3>2. CapturedBy'
        BY <1>1, <2>3, <3>1 DEF Captured, CapturedBy
      <3>3. ASSUME NEW n \in Names PROVE CapturedOf(n)'
        BY <1>1, <3>1 DEF Captured, CapturedOf, Uncaptured
      <3> QED BY <3>2, <3>3 DEF Captured
    <2>4. CASE /\ view[s] # None /\ obj.prev = None /\ key \in fresh
               /\ Put(key, new) /\ ReadService(s, new)
      <3>1. obj.uid = 1 => api[key] = obj /\ births[key] \in Nat /\ births[key] = 1
        BY <1>1, <2>4 DEF Typed, Life, WorkOf, LifeOf
      <3>2. obj.uid = 1 => Uncaptured(key)
        BY <1>1, <2>4, <3>1 DEF Uncaptured
      <3>3. obj.uid = 1 => view[s] \notin IPs
        BY <1>1, <2>1, <3>2 DEF Captured, CapturedOf
      <3>4. /\ new.uid = obj.uid /\ new.prev # None /\ new # None /\ Genuine(new)
        <4>1. new.uid = obj.uid /\ new.prev = view[s]
          BY <1>1 DEF LoadBalancers
        <4>2. new \in LoadBalancers
          BY <1>1, <2>1 DEF Typed, ServiceForm, LoadBalancers
        <4> QED BY <1>1, <2>4, <3>3, <4>1, <4>2, LoadBalancerAssumption DEF Genuine
      <3>5. Put(key, new) /\ obj' = new /\ key' = key
        BY <2>4 DEF ReadService
      <3> HIDE DEF new
      <3> QED BY <1>1, <1>3, <2>4, <3>4, <3>5, WorkerWrites
    <2> QED BY <1>5, <2>2, <2>3, <2>4 DEF CaptureService
  <1>6. CASE UpdateStatus
    <2> DEFINE new == [WithAddress(obj) EXCEPT !.target = obj.spec.target]
    <2>1. /\ new.uid = obj.uid /\ new.prev = obj.prev /\ Genuine(new)
      BY <1>1 DEF LoadBalancers, WithAddress, Genuine
    <2>2. pc' = "idle" /\ IF key \in fresh THEN Put(key, new) ELSE NoPut
      BY <1>6 DEF UpdateStatus, PublishStatus, Done, Idle
    <2> HIDE DEF new
    <2> QED BY <1>1, <1>2, <1>3, <2>1, <2>2, WorkerWrites
  <1>7. CASE RemoveFinalizer
    <2>1. /\ pc' = "idle" /\ \/ key \in fresh /\ Put(key, None)
                             \/ NoPut
      BY <1>7 DEF RemoveFinalizer, Done, Fail, Idle
    <2> QED BY <1>1, <1>2, <1>3, <2>1, WorkerWrites
  <1> QED BY <1>4, <1>5, <1>6, <1>7

\* The worker's writes to the pool and, once it has captured, the Service.
LEMMA WorkerPins ==
    ASSUME Typed, Captured, OneName,
           UpsertCiliumPool \/ DeletePool \/ PatchService \/ RestoreService
    PROVE  Captured'
  <1>1. /\ pc # "idle" /\ key \in Names /\ view' = view /\ births' = births
        /\ obj \in LoadBalancers
        /\ pc' = "idle" \/ (UNCHANGED <<key, obj>> /\ pc' # "patch")
    BY DEF Typed, Life, WorkOf, UpsertCiliumPool, DeletePool, PatchService, RestoreService,
       AfterUndo, Goto, Fail, Idle, budgetVars
  <1>2. CASE UpsertCiliumPool \/ DeletePool
    <2>1. PICK new : Put(Pool(key), new) \/ NoPut
      BY <1>2 DEF UpsertCiliumPool, DeletePool
    <2> QED BY <1>1, <2>1, PoolObject, OtherWritten
  <1>3. CASE PatchService \/ RestoreService
    <2> DEFINE s == obj.spec.target
    <2>1. s \in Services /\ s \in Objects \ Names
      BY <1>1, <1>3, LoadBalancerAssumption, ControllerAssumption
         DEF Typed, ServiceForm, LoadBalancers, ValidSpecs, PatchService, RestoreService, Objects
    <2>2. CASE PatchService
      <3>1. \A n \in Names : ~Uncaptured(n)
        BY <1>1, <2>2, WorkerCaptured DEF OneName, PatchService, Captured, CapturedBy
      <3>2. Put(s, loc.ip) \/ NoPut
        BY <2>2 DEF PatchService
      <3> QED BY <1>1, <2>1, <3>1, <3>2, OtherWritten
    <2>3. CASE RestoreService
      <3> DEFINE prior == IF obj.prev = None THEN Empty ELSE obj.prev
      <3>1. prior \in IPs => \A n \in Names : ~Uncaptured(n)
        BY <1>1, WorkerCaptured, LoadBalancerAssumption DEF OneName
      <3>2. Put(s, prior) \/ NoPut
        BY <2>3 DEF RestoreService
      <3> HIDE DEF prior
      <3> QED BY <1>1, <2>1, <3>1, <3>2, OtherWritten
    <2> QED BY <1>3, <2>2, <2>3
  <1> QED BY <1>2, <1>3

\* What users and the garbage collector do.
LEMMA OutsideCaptured ==
    ASSUME Typed, Captured, Environment
    PROVE  Captured'
  <1>1. ASSUME NEW n \in Names, CreateCR(n, NewLB)
        PROVE  Captured'
    <2>1. PICK s \in SpecChoices : EnvPut(n, NewLB(births[n] + 1, s))
      BY <1>1 DEF CreateCR
    <2>2. api[n] = None /\ births' = [births EXCEPT ![n] = @ + 1]
      BY <1>1 DEF CreateCR
    <2> QED BY <2>1, <2>2, UserWrites DEF NewLB
  <1>2. ASSUME NEW n \in Names, DeleteCR(n) \/ (api[n] # None /\ EditCR(n, SameTarget(n)))
        PROVE  Captured'
    <2>1. api[n] \in LoadBalancers /\ api[n] # None /\ births' = births
      BY <1>2, LoadBalancerAssumption DEF Typed, Life, LifeOf, DeleteCR, EditCR, Edit, budgetVars
    <2>2. PICK new : /\ EnvPut(n, new)
                     /\ new = None \/ (new.uid = api[n].uid /\ new.prev = api[n].prev)
      <3>1. CASE DeleteCR(n)
        <4>1. EnvPut(n, IF api[n].fin THEN [api[n] EXCEPT !.deleting = TRUE] ELSE None)
          BY <3>1 DEF DeleteCR
        <4> QED BY <2>1, <4>1 DEF LoadBalancers
      <3>2. CASE EditCR(n, SameTarget(n))
        <4>1. PICK s : EnvPut(n, [api[n] EXCEPT !.spec = s])
          BY <3>2 DEF EditCR
        <4> QED BY <2>1, <4>1 DEF LoadBalancers
      <3> QED BY <1>2, <3>1, <3>2
    <2> QED BY <2>1, <2>2, UserWrites
  <1>3. ASSUME NEW n \in Names, CollectPool(n)
        PROVE  Captured'
    <2>1. EnvPut(Pool(n), None) /\ births' = births
      BY <1>3 DEF CollectPool, budgetVars
    <2>2. pc' = "idle" \/ (UNCHANGED <<key, obj>> /\ pc # "idle" /\ pc' = pc)
      BY <2>1 DEF EnvPut
    <2> QED BY <2>1, <2>2, PoolObject, OtherWritten DEF EnvPut
  <1>4. ASSUME NEW s \in Services, CreateService(s) \/ EditService(s)
        PROVE  Captured'
    <2>1. PICK v \in {Manual, Empty, None} : EnvPut(s, v)
      BY <1>4 DEF CreateService, EditService
    <2>2. /\ births' = births /\ s \in Objects \ Names /\ v \notin IPs
          /\ pc' = "idle" \/ (UNCHANGED <<key, obj>> /\ pc # "idle" /\ pc' = pc)
      BY <1>4, <2>1, LoadBalancerAssumption, ControllerAssumption
         DEF CreateService, EditService, Edit, budgetVars, Objects, EnvPut
    <2> QED BY <2>1, <2>2, OtherWritten DEF EnvPut
  <1> QED BY <1>1, <1>2, <1>3, <1>4 DEF Environment

(***************************************************************************)
(* The loadBalancerIP that a CR keeps for a Service in its first life is   *)
(* never an address of the operator's own, whatever conflicts, crashes or  *)
(* is stale between the annotation and the patch: the annotation is        *)
(* written before any Service is patched, and read of its latest version   *)
(* ever after.  For CRs of one name: another one may have pinned the       *)
(* Service before.                                                         *)
(***************************************************************************)
THEOREM KeepsOriginal ==
    ASSUME OneName
    PROVE  Spec => []CapturesOriginal
  <1>1. Init => Captured
    <2> SUFFICES ASSUME Init PROVE Captured
      OBVIOUS
    <2>1. PICK present \in SUBSET Services : InitWith([s \in present |-> Manual])
      BY DEF Init
    <2>2. \A s \in Services : api[s] \notin IPs /\ view[s] \notin IPs
      BY <2>1, LoadBalancerAssumption DEF InitWith
    <2>3. \A n \in Names : api[n] = None /\ view[n] = None
      BY <2>1, LoadBalancerAssumption, ControllerAssumption DEF InitWith
    <2> QED BY <2>1, <2>2, <2>3 DEF InitWith, Captured, CapturedOf, CapturedBy
  <1>2. Typed /\ Captured /\ [Next]_vars => Captured'
    <2> SUFFICES ASSUME Typed, Captured, [Next]_vars PROVE Captured'
      OBVIOUS
    <2>1. ASSUME NEW n \in Names, Start(n) PROVE Captured'
      <3>1. /\ api' = api /\ view' = view /\ births' = births
        BY <2>1 DEF Start, k8sVars, budgetVars
      <3>2. \A m \in Names : CapturedOf(m)'
        BY <3>1 DEF Captured, CapturedOf, Uncaptured
      <3>3. CapturedBy'
        BY <2>1, <3>1 DEF Start, FirstStep, Captured, CapturedOf, CapturedBy
      <3> QED BY <3>2, <3>3 DEF Captured
    <2> QED BY <2>1, QuietCaptured, WorkerCaptures, WorkerPins, OutsideCaptured
           DEF Next, Reconcile
  <1>3. Captured => CapturesOriginal
    BY DEF Captured, CapturedOf, Genuine, CapturesOriginal
  <1> QED BY <1>1, <1>2, <1>3, AlwaysTyped, PTL DEF Spec
====
