---------------------- MODULE ClusterReconcilerProofs ----------------------
(***************************************************************************)
(* Theorems about the ClusterbookCluster controller, for every number of   *)
(* managers, names and addresses and every bound.                          *)
(***************************************************************************)
EXTENDS ClusterReconciler, TLAPS

(***************************************************************************)
(* Type correctness.                                                       *)
(***************************************************************************)
\* A write of an object of its kind keeps the tables well formed.
LEMMA WriteType ==
    ASSUME TypeOK, NEW writer, NEW k \in Kinds, NEW c \in Clusters,
           NEW new \in Objects(k), Write(writer, k, c, new)
    PROVE  /\ IsStore(api')
           /\ synced' \in [Managers -> [Kinds -> [Clusters -> BOOLEAN]]]
           /\ fresh' \in [Managers -> BOOLEAN]
  <1>1. CASE new = api[k][c]
    BY <1>1 DEF TypeOK, StoreOK, Write
  <1>2. CASE new # api[k][c]
    <2>1. IsStore(api')
      <3>1. api' = [api EXCEPT ![k][c] = new]
        BY <1>2 DEF Write
      <3>2. api = [j \in Kinds |-> api[j]] /\ \A j \in Kinds : api[j] \in [Clusters -> Objects(j)]
        BY DEF TypeOK, StoreOK, IsStore
      <3>3. api' = [j \in Kinds |-> api'[j]]
        BY <3>1, <3>2
      <3>4. ASSUME NEW j \in Kinds PROVE api'[j] \in [Clusters -> Objects(j)]
        <4>1. CASE j = k
          <5>1. api'[j] = [api[k] EXCEPT ![c] = new]
            BY <3>1, <3>2, <4>1
          <5>2. api[k] \in [Clusters -> Objects(k)]
            BY <3>2
          <5> QED BY <5>1, <5>2, <4>1
        <4>2. CASE j # k
          BY <3>1, <3>2, <4>2
        <4> QED BY <4>1, <4>2
      <3> QED BY <3>3, <3>4 DEF IsStore
    <2>2. synced' \in [Managers -> [Kinds -> [Clusters -> BOOLEAN]]]
      <3>1. synced' = [n \in Managers |-> [synced[n] EXCEPT ![k][c] = FALSE]]
        BY <1>2 DEF Write
      <3>2. ASSUME NEW n \in Managers
            PROVE  [synced[n] EXCEPT ![k][c] = FALSE] \in [Kinds -> [Clusters -> BOOLEAN]]
        <4>1. synced[n] \in [Kinds -> [Clusters -> BOOLEAN]]
          BY DEF TypeOK, StoreOK
        <4>2. [synced[n][k] EXCEPT ![c] = FALSE] \in [Clusters -> BOOLEAN]
          BY <4>1
        <4> QED BY <4>1, <4>2
      <3> QED BY <3>1, <3>2
    <2>3. fresh' \in [Managers -> BOOLEAN]
      BY <1>2 DEF TypeOK, StoreOK, Write
    <2> QED BY <2>1, <2>2, <2>3
  <1> QED BY <1>1, <1>2

\* A worker that moves on stays well formed when its locals do.
LEMMA GotoType ==
    ASSUME TypeOK, NEW m \in Managers, NEW step \in Steps, NEW l \in Locals,
           pc[m] # "idle", Goto(m, step), loc' = [loc EXCEPT ![m] = l],
           step \in {"drift", "update"} => l.ip \in IPs
    PROVE  WorkOK'
  BY DEF TypeOK, WorkOK, Goto

LEMMA IdleType ==
    ASSUME TypeOK, NEW m \in Managers, Idle(m),
           queue' \in [Managers -> SUBSET Clusters]
    PROVE  WorkOK'
  <1>1. NoLocals \in Locals
    BY DEF NoLocals, Locals, Ranges, Infos, Hosts, Conds
  <1> QED BY <1>1 DEF TypeOK, WorkOK, Idle, Steps

LEMMA FailType ==
    ASSUME TypeOK, NEW m \in Managers, pc[m] # "idle",
           Fail(m) \/ Return(m) \/ (Idle(m) /\ UNCHANGED queue)
    PROVE  WorkOK'
  <1>1. Idle(m)
    BY DEF Fail, Return
  <1>2. queue' \in [Managers -> SUBSET Clusters]
    BY DEF Fail, Return, Requeue, TypeOK, WorkOK
  <1> QED BY <1>1, <1>2, IdleType

LEMMA InitType == Init => TypeOK
  <1> SUFFICES ASSUME Init PROVE TypeOK
    OBVIOUS
  <1>1. \A k \in Kinds : [c \in Clusters |-> IF k = "source" THEN 0 ELSE None]
                            \in [Clusters -> Objects(k)]
    BY DEF Kinds, Objects
  <1>2. StoreOK
    <2>1. IsStore(api)
      BY <1>1 DEF Init, IsStore
    <2> QED BY <2>1 DEF Init, StoreOK, AllSynced
  <1>3. WorkOK
    <2>1. NoLocals \in Locals
      BY DEF NoLocals, Locals, Ranges, Infos, Hosts, Conds
    <2> QED BY <2>1 DEF Init, WorkOK, Steps
  <1> QED BY <1>2, <1>3 DEF Init, TypeOK, PoolOK, BudgetOK

LEMMA StartType ==
    ASSUME TypeOK, NEW m \in Managers, NEW c \in Clusters, Start(m, c)
    PROVE  TypeOK'
  <1> DEFINE cr == view[m]["cr"][c]
  <1>1. queue' \in [Managers -> SUBSET Clusters]
    BY DEF Start, TypeOK, WorkOK
  <1>2. CASE cr = None \/ FirstStep(cr) = "idle"
    BY <1>1, <1>2 DEF Start, TypeOK, StoreOK, WorkOK, PoolOK, BudgetOK, poolVars, budgetVars
  <1>3. CASE cr # None /\ FirstStep(cr) # "idle"
    <2>1. cr \in CRs
      <3>1. view[m]["cr"] \in [Clusters -> Objects("cr")]
        BY DEF TypeOK, StoreOK, IsStore, Kinds
      <3> QED BY <3>1, <1>3 DEF Objects
    <2>2. FirstStep(cr) \in Steps \ {"drift", "update"}
      BY DEF FirstStep, Steps
    <2>3. cr.ready \in BOOLEAN
      BY <2>1 DEF CRs
    <2>4. [loc[m] EXCEPT !.ready = cr.ready] \in Locals
      BY <2>3 DEF TypeOK, WorkOK, Locals
    <2>5. WorkOK'
      BY <1>1, <1>3, <2>1, <2>2, <2>4 DEF Start, TypeOK, WorkOK
    <2>6. StoreOK'
      <3>1. api' = api /\ view' = view /\ synced' = synced
        BY DEF Start
      <3>2. synced[m]["cr"][c] \in BOOLEAN
        BY DEF TypeOK, StoreOK, Kinds
      <3>3. fresh' \in [Managers -> BOOLEAN]
        BY <1>3, <3>2 DEF Start, TypeOK, StoreOK
      <3> QED BY <3>1, <3>3 DEF TypeOK, StoreOK, IsStore
    <2> QED BY <2>5, <2>6 DEF Start, TypeOK, PoolOK, BudgetOK, poolVars, budgetVars
  <1> QED BY <1>2, <1>3

\* The steps of a worker that leave the API server alone.
LEMMA LocalStepType ==
    ASSUME TypeOK, NEW m \in Managers,
           \/ EnsureReservation(m) \/ Reserve(m) \/ CheckDrift(m)
           \/ UpdateIP(m) \/ GetClusterInfo(m) \/ LoadKubeconfig(m)
           \/ ReleaseIP(m)
    PROVE  TypeOK'
  <1>1. StoreOK' /\ BudgetOK'
    BY DEF EnsureReservation, Reserve, CheckDrift, UpdateIP, GetClusterInfo,
           LoadKubeconfig, ReleaseIP, k8sVars, budgetVars,
           TypeOK, StoreOK, BudgetOK
  <1>2. PoolOK'
    <2>1. CASE Reserve(m)
      <3>1. CASE UNCHANGED poolVars
        BY <3>1 DEF poolVars, TypeOK, PoolOK
      <3>2. ASSUME NEW first \in IPs, NEW others \in SUBSET IPs,
                   Assign(key[m], obj[m].spec, first, others)
            PROVE  PoolOK'
        <4>1. key[m] \in Clusters /\ obj[m].spec \in SpecChoices
          BY <2>1 DEF Reserve, TypeOK, WorkOK, CRs
        <4>2. obj[m].spec.dns \in BOOLEAN
          BY <4>1, SpecAssumption DEF ValidSpec, Specs
        <4> QED BY <3>2, <4>1, <4>2 DEF Assign, TypeOK, PoolOK
      <3> QED BY <2>1, <3>1, <3>2 DEF Reserve
    <2>2. CASE UpdateIP(m) \/ ReleaseIP(m)
      BY <2>2 DEF UpdateIP, SetDNS, ReleaseIP, Unassign, TypeOK, PoolOK
    <2>3. CASE UNCHANGED poolVars
      BY <2>3 DEF poolVars, TypeOK, PoolOK
    <2> QED BY <2>1, <2>2, <2>3 DEF EnsureReservation, CheckDrift, GetClusterInfo,
                 LoadKubeconfig
  <1>3. pc[m] # "idle" /\ key[m] \in Clusters /\ obj[m] \in CRs /\ loc[m] \in Locals
    BY DEF EnsureReservation, Reserve, CheckDrift, UpdateIP, GetClusterInfo,
           LoadKubeconfig, ReleaseIP, TypeOK, WorkOK
  <1>4. \A s : Publish(s) \in Steps \ {"drift", "update"} /\ PinnedLB(s) \in Ranges
    BY DEF Publish, Steps, PinnedLB, Ranges
  <1> SUFFICES WorkOK'
    BY <1>1, <1>2 DEF TypeOK
  <1>5. CASE EnsureReservation(m)
    <2>1. ASSUME NEW l \in Locals, NEW step \in Steps, loc' = [loc EXCEPT ![m] = l],
                 Goto(m, step), step \in {"drift", "update"} => l.ip \in IPs
          PROVE  WorkOK'
      BY <2>1, <1>3, GotoType
    <2>2. CASE RegistrationOnly(obj[m].spec)
      <3>1. [loc[m] EXCEPT !.lb = PinnedLB(obj[m].spec)] \in Locals
        BY <1>3, <1>4 DEF Locals
      <3> QED BY <1>5, <2>2, <3>1, <2>1, <1>4 DEF EnsureReservation
    <2>3. CASE ~RegistrationOnly(obj[m].spec) /\ obj[m].ip # None
      <3>1. ResolvedLB(obj[m]) \in Ranges /\ obj[m].ip \in IPs
        BY <1>3, <1>4, <2>3 DEF ResolvedLB, CRs
      <3>2. [loc[m] EXCEPT !.ip = obj[m].ip, !.lb = ResolvedLB(obj[m])] \in Locals
        BY <1>3, <3>1 DEF Locals
      <3>3. loc' = [loc EXCEPT ![m] = [loc[m] EXCEPT !.ip = obj[m].ip, !.lb = ResolvedLB(obj[m])]]
        BY <1>5, <2>3 DEF EnsureReservation, TypeOK, WorkOK
      <3> QED BY <1>5, <2>3, <3>1, <3>2, <3>3, <2>1 DEF EnsureReservation, Steps, Locals
    <2>4. CASE ~RegistrationOnly(obj[m].spec) /\ obj[m].ip = None
      <3>1. ASSUME NEW i \in Listed(key[m]),
                   loc' = [loc EXCEPT ![m].ip = i, ![m].lb = PinnedLB(obj[m].spec)],
                   Goto(m, "drift")
            PROVE  WorkOK'
        <4>1. i \in IPs
          BY DEF Listed, Held
        <4>2. [loc[m] EXCEPT !.ip = i, !.lb = PinnedLB(obj[m].spec)] \in Locals
          BY <1>3, <1>4, <4>1 DEF Locals
        <4>3. loc' = [loc EXCEPT ![m] = [loc[m] EXCEPT !.ip = i, !.lb = PinnedLB(obj[m].spec)]]
          BY <3>1 DEF TypeOK, WorkOK
        <4> QED BY <3>1, <4>1, <4>2, <4>3, <2>1 DEF Steps, Locals
      <3>2. CASE Goto(m, "reserve") /\ UNCHANGED loc
        <4>1. loc' = [loc EXCEPT ![m] = loc[m]]
          BY <3>2 DEF TypeOK, WorkOK
        <4> QED BY <3>2, <4>1, <1>3, <2>1 DEF Steps
      <3> QED BY <1>5, <2>4, <3>1, <3>2 DEF EnsureReservation
    <2> QED BY <2>2, <2>3, <2>4
  <1>6. CASE Reserve(m)
    <2>1. CASE Fail(m)
      BY <2>1, <1>3, FailType
    <2>2. ASSUME NEW first \in IPs, NEW others \in SUBSET IPs,
                 Goto(m, "drift"),
                 loc' = [loc EXCEPT ![m].ip = first,
                            ![m].lb = IF obj[m].spec.lb = "count" THEN others
                                      ELSE PinnedLB(obj[m].spec)]
          PROVE  WorkOK'
      <3> DEFINE lb == IF obj[m].spec.lb = "count" THEN others ELSE PinnedLB(obj[m].spec)
                 l == [loc[m] EXCEPT !.ip = first, !.lb = lb]
      <3>1. lb \in Ranges
        BY <1>4 DEF Ranges
      <3>2. l \in Locals /\ l.ip \in IPs
        BY <1>3, <3>1 DEF Locals
      <3>3. loc' = [loc EXCEPT ![m] = l]
        BY <2>2 DEF TypeOK, WorkOK
      <3> HIDE DEF l
      <3> QED BY <2>2, <3>2, <3>3, <1>3, GotoType DEF Steps
    <2> QED BY <1>6, <2>1, <2>2 DEF Reserve
  <1>7. CASE CheckDrift(m) \/ UpdateIP(m) \/ ReleaseIP(m)
    <2>1. loc' = [loc EXCEPT ![m] = loc[m]]
      BY <1>7 DEF CheckDrift, UpdateIP, ReleaseIP, TypeOK, WorkOK
    <2>2. PICK step \in {"update", "info", "unfinalize"} :
             Goto(m, step) /\ (step = "update" => pc[m] = "drift")
      BY <1>7 DEF CheckDrift, UpdateIP, ReleaseIP
    <2>3. step \in {"drift", "update"} => loc[m].ip \in IPs
      BY <2>2 DEF TypeOK, WorkOK
    <2> QED BY <2>1, <2>2, <2>3, <1>3, GotoType DEF Steps
  <1>8. CASE GetClusterInfo(m)
    <2>1. [loc[m] EXCEPT !.info = ClusterInfo(key[m])] \in Locals
      BY <1>3 DEF Locals, ClusterInfo, Infos
    <2> QED BY <1>8, <2>1, <1>3, <1>4, GotoType DEF GetClusterInfo
  <1>9. CASE LoadKubeconfig(m)
    <2>1. CASE Fail(m)
      BY <2>1, <1>3, FailType
    <2>2. ASSUME NEW answers \in BOOLEAN, Goto(m, "upsert"),
                 loc' = [loc EXCEPT ![m] =
                    [loc[m] EXCEPT !.rev = Revision(m),
                       !.server = BuildServer(obj[m].spec, loc[m].ip, loc[m].info),
                       !.ready = loc[m].ready \/ answers,
                       !.again = ~loc[m].ready /\ ~answers]]
          PROVE  WorkOK'
      <3>1. Revision(m) \in Nat
        <4>1. view[m]["source"] \in [Clusters -> Objects("source")]
          BY DEF TypeOK, StoreOK, IsStore, Kinds
        <4> QED BY <4>1, <1>3 DEF Revision, Objects
      <3>2. BuildServer(obj[m].spec, loc[m].ip, loc[m].info) \in Hosts
        BY <1>3 DEF BuildServer, Hosts, Locals
      <3>3. (loc[m].ready \/ answers) \in BOOLEAN /\ (~loc[m].ready /\ ~answers) \in BOOLEAN
        OBVIOUS
      <3>4. [loc[m] EXCEPT !.rev = Revision(m),
                       !.server = BuildServer(obj[m].spec, loc[m].ip, loc[m].info),
                       !.ready = loc[m].ready \/ answers,
                       !.again = ~loc[m].ready /\ ~answers] \in Locals
        BY <1>3, <3>1, <3>2, <3>3 DEF Locals
      <3> QED BY <2>2, <3>4, <1>3, GotoType DEF Steps
    <2> QED BY <1>9, <2>1, <2>2 DEF LoadKubeconfig, Probe
  <1> QED BY <1>5, <1>6, <1>7, <1>8, <1>9

\* The steps of a worker that write to the API server.
LEMMA WriteStepType ==
    ASSUME TypeOK, NEW m \in Managers,
           \/ AddFinalizer(m) \/ UpsertArgoSecret(m) \/ EnrichExistingSecret(m)
           \/ UpdateStatus(m) \/ DeleteArgoSecret(m) \/ StripEnrichedMetadata(m)
           \/ RemoveFinalizer(m)
    PROVE  TypeOK'
  <1>1. PoolOK' /\ BudgetOK' /\ view' = view
    BY DEF AddFinalizer, UpsertArgoSecret, EnrichExistingSecret, UpdateStatus,
           DeleteArgoSecret, StripEnrichedMetadata, RemoveFinalizer, poolVars,
           budgetVars, TypeOK, PoolOK, BudgetOK
  <1>2. pc[m] # "idle" /\ key[m] \in Clusters /\ obj[m] \in CRs /\ loc[m] \in Locals
    BY DEF AddFinalizer, UpsertArgoSecret, EnrichExistingSecret, UpdateStatus,
           DeleteArgoSecret, StripEnrichedMetadata, RemoveFinalizer, TypeOK, WorkOK
  <1>3. [obj[m] EXCEPT !.fin = TRUE] \in CRs
    BY <1>2 DEF CRs
  <1>4. NewStatus(m) \in CRs
    <2>1. (IF loc[m].info = "nil" THEN obj[m].info ELSE loc[m].info) \in Infos
      BY <1>2 DEF CRs, Locals
    <2> QED BY <1>2, <2>1 DEF NewStatus, CRs, Locals
  <1>5. Desired(m) \in ArgoSecrets
    BY <1>2 DEF Desired, ArgoSecrets, Locals, CRs
  <1>6. [ip |-> loc[m].ip, lb |-> loc[m].lb, info |-> loc[m].info] \in Metadata
    BY <1>2 DEF Metadata, Locals
  <1>7. \/ NoWrite
        \/ \E k \in Kinds : \E new \in Objects(k) : Write(m, k, key[m], new)
    <2>1. /\ Objects("cr") = CRs \cup {None}
          /\ Objects("argo") = ArgoSecrets \cup {None}
          /\ Objects("foreign") = Metadata \cup {None, Bare}
          /\ {"cr", "argo", "foreign"} \subseteq Kinds
      BY DEF Objects, Kinds
    <2>2. CASE AddFinalizer(m)
      BY <2>1, <2>2, <1>3 DEF AddFinalizer
    <2>3. CASE UpsertArgoSecret(m)
      BY <2>1, <2>3, <1>5 DEF UpsertArgoSecret
    <2>4. CASE EnrichExistingSecret(m)
      BY <2>1, <2>4, <1>6 DEF EnrichExistingSecret
    <2>5. CASE UpdateStatus(m)
      BY <2>1, <2>5, <1>4 DEF UpdateStatus
    <2>6. CASE DeleteArgoSecret(m)
      BY <2>1, <2>6 DEF DeleteArgoSecret
    <2>7. CASE StripEnrichedMetadata(m)
      BY <2>1, <2>7 DEF StripEnrichedMetadata
    <2>8. CASE RemoveFinalizer(m)
      BY <2>1, <2>8 DEF RemoveFinalizer
    <2> QED BY <2>2, <2>3, <2>4, <2>5, <2>6, <2>7, <2>8
  <1>8. StoreOK'
    <2>1. /\ IsStore(api') /\ fresh' \in [Managers -> BOOLEAN]
          /\ synced' \in [Managers -> [Kinds -> [Clusters -> BOOLEAN]]]
      <3>1. CASE NoWrite
        BY <3>1 DEF NoWrite, TypeOK, StoreOK
      <3>2. ASSUME NEW k \in Kinds, NEW new \in Objects(k), Write(m, k, key[m], new)
            PROVE  /\ IsStore(api') /\ fresh' \in [Managers -> BOOLEAN]
                   /\ synced' \in [Managers -> [Kinds -> [Clusters -> BOOLEAN]]]
        BY <3>2, <1>2, WriteType
      <3> QED BY <1>7, <3>1, <3>2
    <2> QED BY <2>1, <1>1 DEF TypeOK, StoreOK, IsStore
  <1>9. WorkOK'
    <2>1. CASE Fail(m) \/ Return(m) \/ (Idle(m) /\ UNCHANGED queue)
      BY <2>1, <1>2, FailType
    <2>2. CASE AddFinalizer(m) /\ fresh[m]
      BY <2>2, <1>2, <1>3 DEF AddFinalizer, TypeOK, WorkOK, Steps
    <2>3. ASSUME NEW cond \in Conds, Published(m, cond)
          PROVE  WorkOK'
      <3>1. [loc[m] EXCEPT !.cond = cond] \in Locals
        BY <1>2 DEF Locals
      <3> QED BY <2>3, <3>1, <1>2, GotoType DEF Published, Steps
    <2>4. CASE Goto(m, AfterCleanup(obj[m])) /\ UNCHANGED loc
      <3>1. loc' = [loc EXCEPT ![m] = loc[m]]
        BY <2>4 DEF TypeOK, WorkOK
      <3>2. AfterCleanup(obj[m]) \in Steps \ {"drift", "update"}
        BY DEF AfterCleanup, Steps
      <3> QED BY <2>4, <3>1, <3>2, <1>2, GotoType
    <2> QED BY <2>1, <2>2, <2>3, <2>4 DEF AddFinalizer, UpsertArgoSecret, Conds,
                 EnrichExistingSecret, UpdateStatus, DeleteArgoSecret,
                 StripEnrichedMetadata, RemoveFinalizer
  <1> QED BY <1>1, <1>8, <1>9 DEF TypeOK

LEMMA MisfortuneType ==
    ASSUME TypeOK, NEW m \in Managers, Misfortune(m)
    PROVE  TypeOK'
  <1>1. BudgetOK'
    BY DEF Misfortune, FailedCall, LostReply, IgnoredError, Crash, Fault, TypeOK, BudgetOK
  <1>2. CASE Crash(m)
    <2>1. queue' \in [Managers -> SUBSET Clusters]
      BY <1>2 DEF Crash, TypeOK, WorkOK
    <2>2. WorkOK'
      BY <1>2, <2>1, IdleType DEF Crash
    <2>3. StoreOK'
      <3>1. api' = api /\ view' = [view EXCEPT ![m] = api] /\ fresh' = fresh
        BY <1>2 DEF Crash
      <3>2. synced' \in [Managers -> [Kinds -> [Clusters -> BOOLEAN]]]
        BY <1>2 DEF Crash, AllSynced, TypeOK, StoreOK
      <3>3. \A n \in Managers : view'[n] = IF n = m THEN api ELSE view[n]
        BY <3>1 DEF TypeOK, StoreOK
      <3>4. view' = [n \in Managers |-> view'[n]]
        BY <3>1 DEF TypeOK, StoreOK
      <3> QED BY <3>1, <3>2, <3>3, <3>4 DEF TypeOK, StoreOK, IsStore
    <2> QED BY <1>1, <2>2, <2>3, <1>2 DEF Crash, poolVars, TypeOK, PoolOK
  <1>3. CASE FailedCall(m) \/ LostReply(m) \/ IgnoredError(m)
    <2>1. pc[m] # "idle" /\ key[m] \in Clusters /\ obj[m] \in CRs
      BY <1>3 DEF FailedCall, LostReply, IgnoredError, TypeOK, WorkOK
    <2>2. StoreOK'
      BY <1>3 DEF FailedCall, LostReply, IgnoredError, k8sVars, TypeOK, StoreOK
    <2>3. PoolOK'
      <3>1. CASE UNCHANGED poolVars
        BY <3>1 DEF poolVars, TypeOK, PoolOK
      <3>2. ASSUME NEW first \in IPs, NEW others \in SUBSET IPs,
                   Assign(key[m], obj[m].spec, first, others)
            PROVE  PoolOK'
        <4>1. obj[m].spec \in SpecChoices
          BY <2>1 DEF CRs
        <4>2. obj[m].spec.dns \in BOOLEAN
          BY <4>1, SpecAssumption DEF ValidSpec, Specs
        <4> QED BY <3>2, <2>1, <4>2 DEF Assign, TypeOK, PoolOK
      <3>3. CASE SetDNS(loc[m].ip, obj[m].spec.dns)
        BY <3>3 DEF SetDNS, TypeOK, PoolOK
      <3>4. CASE Unassign(obj[m].ip)
        BY <3>4 DEF Unassign, TypeOK, PoolOK
      <3> QED BY <1>3, <3>1, <3>2, <3>3, <3>4 DEF FailedCall, LostReply, IgnoredError
    <2>4. WorkOK'
      <3>1. CASE Fail(m) \/ Return(m)
        BY <3>1, <2>1, FailType
      <3>2. ASSUME NEW step \in Steps \ {"drift", "update"}, Goto(m, step), UNCHANGED loc
            PROVE  WorkOK'
        <4>1. loc[m] \in Locals /\ loc' = [loc EXCEPT ![m] = loc[m]]
          BY <3>2 DEF TypeOK, WorkOK
        <4> QED BY <3>2, <4>1, <2>1, GotoType
      <3>3. /\ Publish(obj[m].spec) \in Steps \ {"drift", "update"}
            /\ AfterCleanup(obj[m]) \in Steps \ {"drift", "update"}
        BY DEF Publish, AfterCleanup, Steps
      <3> QED BY <1>3, <3>1, <3>2, <3>3 DEF FailedCall, LostReply, IgnoredError
    <2> QED BY <1>1, <2>2, <2>3, <2>4 DEF TypeOK
  <1> QED BY <1>2, <1>3 DEF Misfortune

LEMMA DeliverType ==
    ASSUME TypeOK, NEW m \in Managers,
           (\E K \in Informers : Deliver(m, K)) \/ Resync(m)
    PROVE  TypeOK'
  <1>1. CASE Resync(m)
    <2>1. queue' \in [Managers -> SUBSET Clusters]
      BY <1>1 DEF Resync, TypeOK, WorkOK
    <2> QED BY <1>1, <2>1 DEF Resync, k8sVars, poolVars, budgetVars, TypeOK, StoreOK,
                WorkOK, PoolOK, BudgetOK
  <1>2. ASSUME NEW K \in Informers, Deliver(m, K)
        PROVE  TypeOK'
    <2>1. K \subseteq Kinds
      BY DEF Informers, Kinds
    <2>2. WorkOK'
      <3>1. queue' \in [Managers -> SUBSET Clusters]
        BY <1>2 DEF Deliver, TypeOK, WorkOK
      <3> QED BY <1>2, <3>1 DEF Deliver, TypeOK, WorkOK
    <2>3. StoreOK'
      <3> DEFINE a == [k \in Kinds |-> IF k \in K THEN api[k] ELSE view[m][k]]
                 t == [k \in Kinds |-> IF k \in K THEN AllSynced[k] ELSE synced[m][k]]
      <3>1. IsStore(a)
        BY DEF TypeOK, StoreOK, IsStore
      <3>2. t \in [Kinds -> [Clusters -> BOOLEAN]]
        BY DEF AllSynced, TypeOK, StoreOK
      <3>3. view' = [view EXCEPT ![m] = a] /\ synced' = [synced EXCEPT ![m] = t]
            /\ api' = api /\ fresh' = fresh
        BY <1>2 DEF Deliver
      <3> HIDE DEF a, t
      <3>4. synced' \in [Managers -> [Kinds -> [Clusters -> BOOLEAN]]]
        BY <3>2, <3>3 DEF TypeOK, StoreOK
      <3>5. /\ \A n \in Managers : view'[n] = IF n = m THEN a ELSE view[n]
            /\ view' = [n \in Managers |-> view'[n]]
        BY <3>3 DEF TypeOK, StoreOK
      <3> QED BY <3>1, <3>3, <3>4, <3>5 DEF TypeOK, StoreOK, IsStore
    <2> QED BY <1>2, <2>2, <2>3 DEF Deliver, poolVars, budgetVars, TypeOK, PoolOK, BudgetOK
  <1> QED BY <1>1, <1>2

\* Every step of the environment writes one object of the name.
LEMMA EnvironmentWrites ==
    ASSUME TypeOK, NEW c \in Clusters, Environment(c)
    PROVE  \E k \in Kinds : \E new \in Objects(k) : EnvWrite(k, c, new)
  <1>1. /\ Objects("cr") = CRs \cup {None}
        /\ Objects("argo") = ArgoSecrets \cup {None}
        /\ Objects("foreign") = Metadata \cup {None, Bare}
        /\ Objects("source") = Nat
        /\ Kinds = {"cr", "argo", "foreign", "source"}
    BY DEF Objects, Kinds
  <1>2. api["cr"][c] # None => api["cr"][c] \in CRs
    <2>1. api["cr"] \in [Clusters -> CRs \cup {None}]
      BY <1>1 DEF TypeOK, StoreOK, IsStore
    <2> QED BY <2>1
  <1>3. api["source"][c] \in Nat
    <2>1. api["source"] \in [Clusters -> Nat]
      BY <1>1 DEF TypeOK, StoreOK, IsStore
    <2> QED BY <2>1
  <1>4. CASE CreateCR(c)
    <2>1. \A s \in SpecChoices : NewCR(births[c] + 1, s) \in CRs
      BY DEF NewCR, CRs, Ranges, Infos, Conds, TypeOK, BudgetOK
    <2> QED BY <1>4, <1>1, <2>1 DEF CreateCR
  <1>5. CASE EditCR(c)
    <2>1. \A s \in SpecChoices : [api["cr"][c] EXCEPT !.spec = s] \in CRs
      BY <1>5, <1>2 DEF EditCR, CRs
    <2> QED BY <1>5, <1>1, <2>1 DEF EditCR
  <1>6. CASE DeleteCR(c)
    <2>1. [api["cr"][c] EXCEPT !.deleting = TRUE] \in CRs
      BY <1>6, <1>2 DEF DeleteCR, CRs
    <2> QED BY <1>6, <1>1, <2>1 DEF DeleteCR
  <1>7. CASE RotateKubeconfig(c)
    BY <1>7, <1>1, <1>3 DEF RotateKubeconfig
  <1>8. CASE ToggleForeign(c)
    BY <1>8, <1>1 DEF ToggleForeign
  <1>9. CASE LoseArgoSecret(c) \/ CollectGarbage(c)
    BY <1>9, <1>1 DEF LoseArgoSecret, CollectGarbage
  <1> QED BY <1>4, <1>5, <1>6, <1>7, <1>8, <1>9 DEF Environment

LEMMA EnvironmentType ==
    ASSUME TypeOK, NEW c \in Clusters, Environment(c)
    PROVE  TypeOK'
  <1>1. BudgetOK'
    BY DEF Environment, CreateCR, EditCR, DeleteCR, RotateKubeconfig, ToggleForeign,
           LoseArgoSecret, CollectGarbage, Edit, budgetVars, TypeOK, BudgetOK
  <1>2. PICK k \in Kinds : \E new \in Objects(k) : EnvWrite(k, c, new)
    BY EnvironmentWrites
  <1>3. /\ IsStore(api') /\ fresh' \in [Managers -> BOOLEAN]
        /\ synced' \in [Managers -> [Kinds -> [Clusters -> BOOLEAN]]]
    BY <1>2, WriteType DEF EnvWrite
  <1>4. StoreOK' /\ WorkOK' /\ PoolOK'
    BY <1>2, <1>3 DEF EnvWrite, workVars, poolVars, TypeOK, StoreOK, WorkOK, PoolOK, IsStore
  <1> QED BY <1>1, <1>4 DEF TypeOK

LEMMA NextType == TypeOK /\ [Next]_vars => TypeOK'
  <1> SUFFICES ASSUME TypeOK, [Next]_vars PROVE TypeOK'
    OBVIOUS
  <1>1. CASE UNCHANGED vars
    BY <1>1 DEF vars, k8sVars, workVars, poolVars, budgetVars, TypeOK, StoreOK,
                WorkOK, PoolOK, BudgetOK, IsStore
  <1>2. ASSUME NEW m \in Managers, Reconcile(m) PROVE TypeOK'
    BY <1>2, LocalStepType, WriteStepType DEF Reconcile
  <1>3. ASSUME NEW m \in Managers, Misfortune(m) PROVE TypeOK'
    BY <1>3, MisfortuneType
  <1>4. ASSUME NEW m \in Managers, (\E K \in Informers : Deliver(m, K)) \/ Resync(m)
        PROVE  TypeOK'
    BY <1>4, DeliverType
  <1>5. ASSUME NEW m \in Managers, NEW c \in Clusters, Start(m, c) PROVE TypeOK'
    BY <1>5, StartType
  <1>6. ASSUME NEW c \in Clusters, Environment(c) PROVE TypeOK'
    BY <1>6, EnvironmentType
  <1> QED BY <1>1, <1>2, <1>3, <1>4, <1>5, <1>6 DEF Next

(***************************************************************************)
(* The state of the controller, its caches, the API server and clusterbook *)
(* is well typed in every behaviour.                                       *)
(***************************************************************************)
THEOREM TypeCorrect == Spec => []TypeOK
  BY InitType, NextType, PTL DEF Spec

-----------------------------------------------------------------------------
(***************************************************************************)
(* What a step does to the API server, and to the other workers.           *)
(***************************************************************************)
\* A write changes one object, outdates the cached copies of it, and keeps a
\* worker's copy current only when it is the writer's or of another object.
LEMMA WriteEffect ==
    ASSUME TypeOK, NEW writer, NEW k \in Kinds, NEW c \in Clusters,
           NEW new \in Objects(k), Write(writer, k, c, new)
    PROVE  /\ \A j \in Kinds, d \in Clusters :
                 api'[j][d] = IF j = k /\ d = c THEN new ELSE api[j][d]
           /\ \A n \in Managers, j \in Kinds, d \in Clusters :
                 synced'[n][j][d] => synced[n][j][d] /\ api'[j][d] = api[j][d]
           /\ \A n \in Managers :
                 /\ fresh'[n] => fresh[n]
                 /\ fresh'[n] /\ n # writer /\ key[n] \in Clusters
                       => api'["cr"][key[n]] = api["cr"][key[n]]
  <1>0. api = [j \in Kinds |-> api[j]] /\ \A j \in Kinds : api[j] \in [Clusters -> Objects(j)]
    BY DEF TypeOK, StoreOK, IsStore
  <1>00. "cr" \in Kinds
    BY DEF Kinds
  <1>1. CASE new = api[k][c]
    BY <1>1 DEF Write
  <1>2. CASE new # api[k][c]
    <2>1. \A j \in Kinds, d \in Clusters :
             api'[j][d] = IF j = k /\ d = c THEN new ELSE api[j][d]
      <3>1. api' = [api EXCEPT ![k] = [api[k] EXCEPT ![c] = new]]
        BY <1>2, <1>0 DEF Write
      <3>2. \A j \in Kinds : api'[j] = IF j = k THEN [api[k] EXCEPT ![c] = new] ELSE api[j]
        BY <3>1, <1>0
      <3> QED BY <3>2, <1>0
    <2>2. \A n \in Managers, j \in Kinds, d \in Clusters :
             synced'[n][j][d] => synced[n][j][d] /\ ~(j = k /\ d = c)
      <3>1. TAKE n \in Managers, j \in Kinds, d \in Clusters
      <3>2. synced'[n] = [synced[n] EXCEPT ![k][c] = FALSE]
        BY <1>2 DEF Write
      <3>3. synced[n] \in [Kinds -> [Clusters -> BOOLEAN]]
        BY DEF TypeOK, StoreOK
      <3>4. synced'[n][j] = IF j = k THEN [synced[n][k] EXCEPT ![c] = FALSE] ELSE synced[n][j]
        BY <3>2, <3>3
      <3> QED BY <3>3, <3>4
    <2>3. \A n \in Managers :
             fresh'[n] => fresh[n] /\ ~(k = "cr" /\ key[n] = c /\ n # writer)
      BY <1>2 DEF Write
    <2> QED BY <2>1, <2>2, <2>3, <1>00
  <1> QED BY <1>1, <1>2

LEMMA WriterEffect ==
    ASSUME TypeOK, NEW m \in Managers, NEW k \in Kinds, key[m] \in Clusters,
           NEW new \in Objects(k), Write(m, k, key[m], new)
    PROVE  /\ api'["cr"][key[m]] = IF k = "cr" THEN new ELSE api["cr"][key[m]]
           /\ fresh'[m] => fresh[m]
  <1>1. PICK c \in Clusters : c = key[m]
    OBVIOUS
  <1>2. "cr" \in Kinds
    BY DEF Kinds
  <1>3. Write(m, k, c, new)
    BY <1>1
  <1>4. \A j \in Kinds, d \in Clusters :
           api'[j][d] = IF j = k /\ d = c THEN new ELSE api[j][d]
    BY <1>3, WriteEffect
  <1>5. fresh'[m] => fresh[m]
    BY <1>3, WriteEffect
  <1>6. api'["cr"][c] = IF k = "cr" THEN new ELSE api["cr"][c]
    BY <1>2, <1>4
  <1> QED BY <1>1, <1>5, <1>6

\* The writes of a worker are of the name it works on.
WritesOnly(m, c) ==
    \E k \in Kinds : \E new \in Objects(k) : Write(m, k, c, new)

LEMMA ReconcileWrites ==
    ASSUME TypeOK, NEW m \in Managers, Reconcile(m)
    PROVE  /\ view' = view
           /\ NoWrite \/ WritesOnly(m, key[m])
  <1>1. /\ Objects("cr") = CRs \cup {None}
        /\ Objects("argo") = ArgoSecrets \cup {None}
        /\ Objects("foreign") = Metadata \cup {None, Bare}
        /\ {"cr", "argo", "foreign"} \subseteq Kinds
    BY DEF Objects, Kinds
  <1>2. CASE UNCHANGED k8sVars
    BY <1>2 DEF k8sVars, NoWrite
  <1>3. view' = view
    BY DEF Reconcile, AddFinalizer, EnsureReservation, Reserve, CheckDrift, UpdateIP,
           GetClusterInfo, LoadKubeconfig, UpsertArgoSecret, EnrichExistingSecret,
           UpdateStatus, DeleteArgoSecret, StripEnrichedMetadata, ReleaseIP,
           RemoveFinalizer, k8sVars
  <1>4. ASSUME pc[m] # "idle"
        PROVE  /\ [obj[m] EXCEPT !.fin = TRUE] \in CRs
               /\ NewStatus(m) \in CRs
               /\ Desired(m) \in ArgoSecrets
               /\ [ip |-> loc[m].ip, lb |-> loc[m].lb, info |-> loc[m].info] \in Metadata
    <2>1. obj[m] \in CRs /\ loc[m] \in Locals
      BY <1>4 DEF TypeOK, WorkOK
    <2>2. (IF loc[m].info = "nil" THEN obj[m].info ELSE loc[m].info) \in Infos
      BY <2>1 DEF CRs, Locals
    <2> QED BY <2>1, <2>2 DEF NewStatus, Desired, CRs, ArgoSecrets, Metadata, Locals
  <1>5. CASE AddFinalizer(m) \/ UpdateStatus(m) \/ RemoveFinalizer(m)
    BY <1>1, <1>3, <1>4, <1>5 DEF AddFinalizer, UpdateStatus, RemoveFinalizer, WritesOnly
  <1>6. CASE UpsertArgoSecret(m) \/ DeleteArgoSecret(m)
    BY <1>1, <1>3, <1>4, <1>6 DEF UpsertArgoSecret, DeleteArgoSecret, WritesOnly
  <1>7. CASE EnrichExistingSecret(m) \/ StripEnrichedMetadata(m)
    BY <1>1, <1>3, <1>4, <1>7 DEF EnrichExistingSecret, StripEnrichedMetadata, WritesOnly
  <1> QED BY <1>2, <1>5, <1>6, <1>7 DEF Reconcile, EnsureReservation, Reserve, CheckDrift,
               UpdateIP, GetClusterInfo, LoadKubeconfig, ReleaseIP

\* Nor does a worker touch what another one is doing.
SameWorker(n) ==
    pc'[n] = pc[n] /\ key'[n] = key[n] /\ obj'[n] = obj[n] /\ loc'[n] = loc[n]

LEMMA OthersKept ==
    ASSUME TypeOK, NEW m \in Managers,
           Reconcile(m) \/ Misfortune(m) \/ (\E c \in Clusters : Start(m, c)),
           NEW n \in Managers, n # m
    PROVE  SameWorker(n)
  <1>1. ASSUME Idle(m) PROVE SameWorker(n)
    BY <1>1 DEF Idle, SameWorker, TypeOK, WorkOK
  <1>2. ASSUME Fail(m) \/ Return(m) PROVE SameWorker(n)
    BY <1>1, <1>2 DEF Fail, Return
  <1>3. ASSUME NEW step, Goto(m, step), loc'[n] = loc[n] PROVE SameWorker(n)
    BY <1>3 DEF Goto, SameWorker, TypeOK, WorkOK
  <1>4. ASSUME NEW cond, Published(m, cond) PROVE SameWorker(n)
    BY <1>3, <1>4 DEF Published, TypeOK, WorkOK
  <1>5. CASE \E c \in Clusters : Start(m, c)
    BY <1>5 DEF Start, SameWorker, TypeOK, WorkOK
  <1>6. CASE Misfortune(m)
    BY <1>1, <1>2, <1>3, <1>6 DEF Misfortune, FailedCall, LostReply, IgnoredError, Crash
  <1>7. CASE AddFinalizer(m)
    BY <1>2, <1>7 DEF AddFinalizer, SameWorker, TypeOK, WorkOK
  <1>8. CASE EnsureReservation(m)
    <2>1. loc'[n] = loc[n]
      BY <1>8 DEF EnsureReservation, TypeOK, WorkOK
    <2> QED BY <1>3, <1>8, <2>1 DEF EnsureReservation
  <1>9. CASE Reserve(m) \/ LoadKubeconfig(m)
    <2>1. CASE Fail(m)
      BY <2>1, <1>2
    <2>2. CASE ~Fail(m)
      <3>1. loc'[n] = loc[n]
        BY <1>9, <2>2 DEF Reserve, LoadKubeconfig, TypeOK, WorkOK
      <3> QED BY <1>3, <1>9, <2>2, <3>1 DEF Reserve, LoadKubeconfig
    <2> QED BY <2>1, <2>2
  <1>10. CASE CheckDrift(m) \/ UpdateIP(m) \/ GetClusterInfo(m) \/ ReleaseIP(m)
    BY <1>2, <1>3, <1>10 DEF CheckDrift, UpdateIP, GetClusterInfo, ReleaseIP,
                             TypeOK, WorkOK
  <1>11. CASE UpsertArgoSecret(m) \/ EnrichExistingSecret(m)
    BY <1>2, <1>4, <1>11 DEF UpsertArgoSecret, EnrichExistingSecret
  <1>12. CASE UpdateStatus(m) \/ RemoveFinalizer(m)
    BY <1>1, <1>2, <1>12 DEF UpdateStatus, RemoveFinalizer
  <1>13. CASE DeleteArgoSecret(m) \/ StripEnrichedMetadata(m)
    BY <1>2, <1>3, <1>13 DEF DeleteArgoSecret, StripEnrichedMetadata
  <1> QED BY <1>5, <1>6, <1>7, <1>8, <1>9, <1>10, <1>11, <1>12, <1>13 DEF Reconcile

-----------------------------------------------------------------------------
(***************************************************************************)
(* A single manager whose listing can be trusted reserves at most once.    *)
(***************************************************************************)
SingleManager == \A m, n \in Managers : m = n

\* The listing was empty when the worker decided to reserve, and still is.
NothingHeld ==
    \A m \in Managers : pc[m] = "reserve" => Held(key[m]) = {}

LEMMA ReserveStep ==
    ASSUME SingleManager, Mangles = FALSE, TypeOK, NothingHeld, [Next]_vars
    PROVE  /\ NothingHeld'
           /\ \A c \in Clusters : Held(c) # {} => Held(c)' \subseteq Held(c)
  <1>1. ASSUME NEW m \in Managers, NEW first \in IPs, NEW others \in SUBSET IPs,
               pc[m] = "reserve", Assign(key[m], obj[m].spec, first, others)
        PROVE  \A c \in Clusters : Held(c) # {} => Held(c)' \subseteq Held(c)
    <2>1. Held(key[m]) = {}
      BY <1>1 DEF NothingHeld
    <2> QED BY <1>1, <2>1, NoneAssumption DEF Assign, Held, Free
  <1>2. ASSUME UNCHANGED holder \/ (\E i \in IPs : Unassign(i))
        PROVE  \A c \in Clusters : Held(c)' \subseteq Held(c)
    BY <1>2, NoneAssumption DEF Unassign, Held, TypeOK, PoolOK
  <1>3. ASSUME NEW m \in Managers, pc'[m] # "reserve" PROVE NothingHeld'
    BY <1>3 DEF NothingHeld, SingleManager
  <1>4. ASSUME UNCHANGED <<pc, key, holder>> PROVE NothingHeld'
    BY <1>4 DEF NothingHeld, Held
  <1>5. CASE UNCHANGED vars
    BY <1>2, <1>4, <1>5 DEF vars, workVars, poolVars
  <1>6. ASSUME NEW m \in Managers, Idle(m) PROVE pc'[m] # "reserve"
    BY <1>6 DEF Idle, TypeOK, WorkOK
  <1>7. ASSUME NEW m \in Managers, NEW step, step # "reserve", Goto(m, step)
        PROVE  pc'[m] # "reserve"
    BY <1>7 DEF Goto, TypeOK, WorkOK
  <1>8. \A s, cr : Publish(s) # "reserve" /\ AfterCleanup(cr) # "reserve" /\ FirstStep(cr) # "reserve"
    BY DEF Publish, AfterCleanup, FirstStep
  <1>9. ASSUME NEW m \in Managers, Reconcile(m) \/ Misfortune(m)
        PROVE  /\ NothingHeld'
               /\ \A c \in Clusters : Held(c) # {} => Held(c)' \subseteq Held(c)
    <2>1. CASE EnsureReservation(m)
      <3>1. UNCHANGED holder
        BY <2>1 DEF EnsureReservation, poolVars
      <3>2. CASE pc'[m] # "reserve"
        BY <1>2, <1>3, <3>1, <3>2
      <3>3. CASE pc'[m] = "reserve"
        <4>1. Listed(key[m]) = {} /\ key' = key
          BY <2>1, <3>3, <1>7, <1>8 DEF EnsureReservation, Goto
        <4>2. Held(key[m]) = {}
          BY <4>1 DEF Listed
        <4>3. NothingHeld'
          BY <3>1, <4>1, <4>2 DEF NothingHeld, SingleManager, Held
        <4> QED BY <1>2, <3>1, <4>3
      <3> QED BY <3>2, <3>3
    <2>2. CASE Reserve(m) \/ LostReply(m)
      <3>1. pc'[m] # "reserve"
        BY <2>2, <1>6, <1>7 DEF Reserve, LostReply, Fail
      <3>2. \/ UNCHANGED holder
            \/ \E i \in IPs : Unassign(i)
            \/ /\ pc[m] = "reserve"
               /\ \E first \in IPs, others \in SUBSET IPs :
                     Assign(key[m], obj[m].spec, first, others)
        <4>1. ASSUME Unassign(obj[m].ip), pc[m] = "release"
              PROVE  UNCHANGED holder \/ \E i \in IPs : Unassign(i)
          <5>1. CASE obj[m].ip \in IPs
            BY <4>1, <5>1
          <5>2. CASE obj[m].ip \notin IPs
            BY <4>1, <5>2 DEF Unassign, TypeOK, PoolOK
          <5> QED BY <5>1, <5>2
        <4> QED BY <2>2, <4>1 DEF Reserve, LostReply, SetDNS, poolVars
      <3> QED BY <1>1, <1>2, <1>3, <3>1, <3>2
    <2>3. CASE ~(EnsureReservation(m) \/ Reserve(m) \/ LostReply(m))
      <3>1. UNCHANGED holder \/ \E i \in IPs : Unassign(i)
        <4>1. CASE ReleaseIP(m)
          <5>1. CASE obj[m].ip \in IPs
            BY <4>1, <5>1 DEF ReleaseIP
          <5>2. CASE obj[m].ip \notin IPs
            BY <4>1, <5>2 DEF ReleaseIP, Unassign, TypeOK, PoolOK
          <5> QED BY <5>1, <5>2
        <4> QED BY <4>1, <1>9, <2>3 DEF Reconcile, AddFinalizer, CheckDrift, UpdateIP,
               SetDNS, GetClusterInfo, LoadKubeconfig, UpsertArgoSecret,
               EnrichExistingSecret, UpdateStatus, DeleteArgoSecret,
               StripEnrichedMetadata, RemoveFinalizer, Misfortune,
               FailedCall, IgnoredError, Crash, poolVars
      <3>2. pc'[m] # "reserve"
        <4>1. ASSUME Fail(m) \/ Return(m) PROVE pc'[m] # "reserve"
          BY <4>1, <1>6 DEF Fail, Return
        <4>2. CASE AddFinalizer(m)
          BY <4>1, <4>2 DEF AddFinalizer, TypeOK, WorkOK
        <4>3. CASE Misfortune(m)
          BY <4>1, <4>3, <1>6, <1>7, <1>8, <2>3 DEF Misfortune, FailedCall, IgnoredError, Crash
        <4>4. CASE UpsertArgoSecret(m) \/ EnrichExistingSecret(m) \/ DeleteArgoSecret(m)
                   \/ StripEnrichedMetadata(m) \/ UpdateStatus(m) \/ RemoveFinalizer(m)
          BY <4>1, <4>4, <1>6, <1>7, <1>8 DEF UpsertArgoSecret, EnrichExistingSecret,
             DeleteArgoSecret, StripEnrichedMetadata, UpdateStatus, RemoveFinalizer, Published
        <4>5. CASE CheckDrift(m) \/ UpdateIP(m) \/ GetClusterInfo(m) \/ LoadKubeconfig(m)
                   \/ ReleaseIP(m)
          BY <4>1, <4>5, <1>7, <1>8 DEF CheckDrift, UpdateIP, GetClusterInfo,
             LoadKubeconfig, ReleaseIP
        <4> QED BY <1>9, <2>3, <4>2, <4>3, <4>4, <4>5 DEF Reconcile
      <3> QED BY <1>2, <1>3, <3>1, <3>2
    <2> QED BY <2>1, <2>2, <2>3
  <1>10. ASSUME NEW m \in Managers, NEW c \in Clusters, Start(m, c)
         PROVE  /\ NothingHeld'
                /\ \A d \in Clusters : Held(d) # {} => Held(d)' \subseteq Held(d)
    <2>1. UNCHANGED holder
      BY <1>10 DEF Start, poolVars
    <2>2. pc'[m] # "reserve"
      BY <1>8, <1>10 DEF Start, TypeOK, WorkOK
    <2> QED BY <1>2, <1>3, <2>1, <2>2
  <1>11. CASE \/ \E m \in Managers, K \in Informers : Deliver(m, K)
              \/ \E m \in Managers : Resync(m)
              \/ \E c \in Clusters : Environment(c)
    <2>1. UNCHANGED <<pc, key, holder>>
      BY <1>11 DEF Deliver, Resync, Environment, CreateCR, EditCR, DeleteCR,
         RotateKubeconfig, ToggleForeign, LoseArgoSecret, CollectGarbage, EnvWrite,
         workVars, poolVars
    <2> QED BY <1>2, <1>4, <2>1
  <1> QED BY <1>5, <1>9, <1>10, <1>11 DEF Next

(***************************************************************************)
(* One manager, whose listing names the clusters as they are, never gives  *)
(* a cluster that holds an address another one (ensureReservation).        *)
(***************************************************************************)
THEOREM ReservedOnce ==
    ASSUME SingleManager, Mangles = FALSE
    PROVE  Spec => ReservesOnlyOnce
  <1>1. Init => NothingHeld
    BY DEF Init, NothingHeld
  <1>2. TypeOK /\ NothingHeld /\ [Next]_vars => NothingHeld'
    BY ReserveStep
  <1>3. TypeOK /\ NothingHeld /\ [Next]_vars
           => [\A c \in Clusters : Held(c) # {} => Held(c)' \subseteq Held(c)]_vars
    BY ReserveStep
  <1> QED BY <1>1, <1>2, <1>3, TypeCorrect, PTL DEF Spec, ReservesOnlyOnce

-----------------------------------------------------------------------------
(***************************************************************************)
(* The status is only ever written over the copy it was computed from.     *)
(***************************************************************************)
\* A cached copy that counts as current is, and so is a worker's copy.
CacheCoherent ==
    \A m \in Managers, k \in Kinds, c \in Clusters :
       synced[m][k][c] => view[m][k][c] = api[k][c]

CopyCurrent ==
    \A m \in Managers : pc[m] # "idle" /\ fresh[m] => obj[m] = api["cr"][key[m]]

Coherent == CacheCoherent /\ CopyCurrent

LEMMA InitCoherent == Init => Coherent
  <1> SUFFICES ASSUME Init PROVE Coherent
    OBVIOUS
  <1>1. \A m \in Managers : view[m] = api
    BY DEF Init
  <1>2. CopyCurrent
    BY DEF Init, CopyCurrent
  <1> QED BY <1>1, <1>2 DEF Coherent, CacheCoherent

\* A write keeps the caches coherent, and the copy of every other worker.
LEMMA WriteCoherent ==
    ASSUME TypeOK, Coherent, NEW writer, NEW k \in Kinds, NEW c \in Clusters,
           NEW new \in Objects(k), Write(writer, k, c, new), view' = view
    PROVE  /\ CacheCoherent'
           /\ \A n \in Managers :
                 n # writer /\ SameWorker(n) /\ pc'[n] # "idle" /\ fresh'[n]
                    => obj'[n] = api'["cr"][key'[n]]
  <1>1. CacheCoherent'
    BY WriteEffect DEF Coherent, CacheCoherent
  <1>2. ASSUME NEW n \in Managers, n # writer, SameWorker(n), pc'[n] # "idle", fresh'[n]
        PROVE  obj'[n] = api'["cr"][key'[n]]
    <2>1. key[n] \in Clusters /\ pc[n] # "idle"
      BY <1>2 DEF TypeOK, WorkOK, SameWorker
    <2>2. fresh[n] /\ api'["cr"][key[n]] = api["cr"][key[n]]
      BY <1>2, <2>1, WriteEffect
    <2> QED BY <1>2, <2>1, <2>2 DEF Coherent, CopyCurrent, SameWorker
  <1> QED BY <1>1, <1>2

LEMMA ReconcileCoherent ==
    ASSUME TypeOK, Coherent, NEW m \in Managers, Reconcile(m)
    PROVE  Coherent'
  <1>1. pc[m] # "idle" /\ key[m] \in Clusters /\ obj[m] \in CRs
    BY DEF Reconcile, AddFinalizer, EnsureReservation, Reserve, CheckDrift, UpdateIP,
           GetClusterInfo, LoadKubeconfig, UpsertArgoSecret, EnrichExistingSecret,
           UpdateStatus, DeleteArgoSecret, StripEnrichedMetadata, ReleaseIP,
           RemoveFinalizer, TypeOK, WorkOK
  <1>2. /\ CacheCoherent'
        /\ \A n \in Managers : n # m /\ pc'[n] # "idle" /\ fresh'[n]
              => obj'[n] = api'["cr"][key'[n]]
    <2>1. \A n \in Managers : n # m => SameWorker(n)
      BY OthersKept
    <2>2. CASE NoWrite
      BY <2>1, <2>2, ReconcileWrites DEF NoWrite, Coherent, CacheCoherent, CopyCurrent, SameWorker
    <2>3. CASE WritesOnly(m, key[m])
      <3>1. PICK k \in Kinds : \E new \in Objects(k) : Write(m, k, key[m], new)
        BY <2>3 DEF WritesOnly
      <3> QED BY <1>1, <2>1, <3>1, WriteCoherent, ReconcileWrites
    <2> QED BY <2>2, <2>3, ReconcileWrites
  <1>3. ASSUME pc'[m] # "idle", fresh'[m]
        PROVE  obj'[m] = api'["cr"][key'[m]]
    <2>1. /\ Objects("cr") = CRs \cup {None}
          /\ Objects("argo") = ArgoSecrets \cup {None}
          /\ Objects("foreign") = Metadata \cup {None, Bare}
          /\ {"cr", "argo", "foreign"} \subseteq Kinds
      BY DEF Objects, Kinds
    <2>2. ~Idle(m)
      BY <1>3 DEF Idle, TypeOK, WorkOK
    <2>3. ~Fail(m) /\ ~Return(m)
      BY <2>2 DEF Fail, Return
    <2>4. CASE AddFinalizer(m)
      <3> DEFINE new == [obj[m] EXCEPT !.fin = TRUE]
      <3>1. /\ Write(m, "cr", key[m], new)
            /\ obj' = [obj EXCEPT ![m] = new] /\ key' = key
        BY <2>3, <2>4 DEF AddFinalizer
      <3>2. new \in Objects("cr")
        BY <1>1, <2>1 DEF CRs
      <3> HIDE DEF new
      <3>3. "cr" \in Kinds
        BY <2>1
      <3>4. api'["cr"][key[m]] = new
        BY <3>1, <3>2, <3>3, <1>1, WriterEffect
      <3> QED BY <3>1, <3>4 DEF TypeOK, WorkOK
    <2>5. CASE ~AddFinalizer(m)
      <3>1. obj' = obj /\ key' = key
        BY <2>2, <2>3, <2>5 DEF Reconcile, EnsureReservation, Reserve, CheckDrift, UpdateIP,
           GetClusterInfo, LoadKubeconfig, UpsertArgoSecret, EnrichExistingSecret,
           UpdateStatus, DeleteArgoSecret, StripEnrichedMetadata, ReleaseIP,
           RemoveFinalizer, Goto, Published
      <3>2. fresh'[m] => fresh[m] /\ api'["cr"][key[m]] = api["cr"][key[m]]
        <4>1. CASE NoWrite
          BY <4>1 DEF NoWrite
        <4>2. ASSUME NEW k \in Kinds \ {"cr"}, NEW new \in Objects(k), Write(m, k, key[m], new)
              PROVE  fresh'[m] => fresh[m] /\ api'["cr"][key[m]] = api["cr"][key[m]]
          BY <4>2, <1>1, WriterEffect
        <4>3. NoWrite \/ \E k \in Kinds \ {"cr"} : \E new \in Objects(k) : Write(m, k, key[m], new)
          <5>1. CASE UNCHANGED k8sVars
            BY <5>1 DEF k8sVars, NoWrite
          <5>2. loc[m] \in Locals
            BY DEF TypeOK, WorkOK
          <5>3. CASE UpsertArgoSecret(m) \/ DeleteArgoSecret(m)
            <6>1. Desired(m) \in ArgoSecrets
              BY <1>1, <5>2 DEF Desired, ArgoSecrets, Locals, CRs
            <6> QED BY <2>1, <5>3, <6>1 DEF UpsertArgoSecret, DeleteArgoSecret
          <5>4. CASE EnrichExistingSecret(m) \/ StripEnrichedMetadata(m)
            <6>1. [ip |-> loc[m].ip, lb |-> loc[m].lb, info |-> loc[m].info] \in Metadata
              BY <5>2 DEF Metadata, Locals
            <6> QED BY <2>1, <5>4, <6>1 DEF EnrichExistingSecret, StripEnrichedMetadata
          <5> QED BY <2>2, <2>3, <2>5, <5>1, <5>3, <5>4 DEF Reconcile, EnsureReservation,
                 Reserve, CheckDrift, UpdateIP, GetClusterInfo, LoadKubeconfig,
                 UpdateStatus, ReleaseIP, RemoveFinalizer
        <4> QED BY <4>1, <4>2, <4>3
      <3> QED BY <1>1, <1>3, <3>1, <3>2 DEF Coherent, CopyCurrent
    <2> QED BY <2>4, <2>5
  <1> QED BY <1>2, <1>3 DEF Coherent, CopyCurrent

LEMMA NextCoherent == TypeOK /\ Coherent /\ [Next]_vars => Coherent'
  <1> SUFFICES ASSUME TypeOK, Coherent, [Next]_vars PROVE Coherent'
    OBVIOUS
  <1>1. CASE UNCHANGED vars
    BY <1>1 DEF vars, k8sVars, workVars, Coherent, CacheCoherent, CopyCurrent
  <1>2. ASSUME NEW m \in Managers, Reconcile(m) PROVE Coherent'
    BY <1>2, ReconcileCoherent
  <1>3. ASSUME NEW m \in Managers, Misfortune(m) PROVE Coherent'
    <2>1. \A n \in Managers : n # m => SameWorker(n)
      BY <1>3, OthersKept
    <2>2. CASE Crash(m)
      <3>1. pc'[m] = "idle"
        BY <2>2 DEF Crash, Idle, TypeOK, WorkOK
      <3>2. CopyCurrent'
        BY <2>1, <2>2, <3>1 DEF Crash, Coherent, CopyCurrent, SameWorker
      <3>3. CacheCoherent'
        <4>1. /\ \A n \in Managers : view'[n] = IF n = m THEN api ELSE view[n]
              /\ \A n \in Managers : synced'[n] = IF n = m THEN AllSynced ELSE synced[n]
              /\ api' = api
          BY <2>2 DEF Crash, TypeOK, StoreOK
        <4> QED BY <4>1 DEF Coherent, CacheCoherent
      <3> QED BY <3>2, <3>3 DEF Coherent
    <2>3. CASE FailedCall(m) \/ LostReply(m) \/ IgnoredError(m)
      <3>1. UNCHANGED k8sVars
        BY <2>3 DEF FailedCall, LostReply, IgnoredError
      <3>2. pc'[m] = "idle" \/ SameWorker(m) \/ (UNCHANGED <<key, obj>> /\ pc[m] # "idle")
        BY <2>3 DEF FailedCall, LostReply, IgnoredError, Fail, Return, Idle, Goto, TypeOK, WorkOK
      <3> QED BY <2>1, <3>1, <3>2 DEF k8sVars, Coherent, CacheCoherent, CopyCurrent, SameWorker
    <2> QED BY <1>3, <2>2, <2>3 DEF Misfortune
  <1>4. ASSUME NEW m \in Managers, NEW K \in Informers, Deliver(m, K) PROVE Coherent'
    <2>1. /\ api' = api /\ UNCHANGED <<fresh, pc, key, obj>>
          /\ \A n \in Managers : view'[n] =
                IF n = m THEN [k \in Kinds |-> IF k \in K THEN api[k] ELSE view[m][k]] ELSE view[n]
          /\ \A n \in Managers : synced'[n] =
                IF n = m THEN [k \in Kinds |-> IF k \in K THEN AllSynced[k] ELSE synced[m][k]]
                ELSE synced[n]
      BY <1>4 DEF Deliver, TypeOK, StoreOK
    <2>2. CacheCoherent'
      <3>1. ASSUME NEW n \in Managers, NEW k \in Kinds, NEW c \in Clusters, synced'[n][k][c]
            PROVE  view'[n][k][c] = api'[k][c]
        <4>1. CASE n = m /\ k \in K
          <5>1. view'[n][k] = api[k]
            BY <2>1, <4>1
          <5> QED BY <2>1, <5>1
        <4>2. CASE ~(n = m /\ k \in K)
          <5>1. synced'[n][k] = synced[n][k] /\ view'[n][k] = view[n][k]
            <6>1. CASE n = m
              BY <2>1, <4>2, <6>1
            <6>2. CASE n # m
              BY <2>1, <6>2
            <6> QED BY <6>1, <6>2
          <5> QED BY <2>1, <3>1, <5>1 DEF Coherent, CacheCoherent
        <4> QED BY <4>1, <4>2
      <3> QED BY <3>1 DEF CacheCoherent
    <2> QED BY <2>1, <2>2 DEF Coherent, CopyCurrent
  <1>5. ASSUME NEW m \in Managers, Resync(m) PROVE Coherent'
    BY <1>5 DEF Resync, k8sVars, Coherent, CacheCoherent, CopyCurrent
  <1>6. ASSUME NEW m \in Managers, NEW c \in Clusters, Start(m, c) PROVE Coherent'
    <2>1. \A n \in Managers : n # m => SameWorker(n) /\ fresh'[n] = fresh[n]
      BY <1>6, OthersKept DEF Start, TypeOK, StoreOK
    <2>2. api' = api /\ view' = view /\ synced' = synced
      BY <1>6 DEF Start
    <2>3. "cr" \in Kinds
      BY DEF Kinds
    <2>4. pc'[m] # "idle" /\ fresh'[m] => obj'[m] = api'["cr"][key'[m]]
      <3>1. CASE UNCHANGED <<pc, key, obj, fresh>>
        BY <2>2, <3>1 DEF Coherent, CopyCurrent
      <3>2. CASE ~UNCHANGED <<pc, key, obj, fresh>>
        <4>1. /\ key'[m] = c /\ obj'[m] = view[m]["cr"][c] /\ fresh'[m] = synced[m]["cr"][c]
          BY <1>6, <3>2 DEF Start, TypeOK, StoreOK, WorkOK
        <4> QED BY <2>2, <2>3, <4>1 DEF Coherent, CacheCoherent
      <3> QED BY <3>1, <3>2
    <2> QED BY <2>1, <2>2, <2>4 DEF Coherent, CacheCoherent, CopyCurrent, SameWorker
  <1>7. ASSUME NEW c \in Clusters, Environment(c) PROVE Coherent'
    <2>1. PICK k \in Kinds : \E new \in Objects(k) : EnvWrite(k, c, new)
      BY <1>7, EnvironmentWrites
    <2>2. \A n \in Managers : n # None
      BY NoneAssumption
    <2>3. view' = view /\ \A n \in Managers : SameWorker(n)
      BY <2>1 DEF EnvWrite, workVars, SameWorker
    <2> QED BY <2>1, <2>2, <2>3, WriteCoherent DEF EnvWrite, Coherent, CopyCurrent
  <1> QED BY <1>1, <1>2, <1>3, <1>4, <1>5, <1>6, <1>7 DEF Next

THEOREM CachesCoherent == Spec => []Coherent
  BY InitCoherent, NextCoherent, TypeCorrect, PTL DEF Spec

-----------------------------------------------------------------------------
(***************************************************************************)
(* What Reconcile carries from the copy it read to the status it writes.   *)
(***************************************************************************)
Before    == {"finalizer", "ensure", "reserve"}
Checking  == {"drift", "update", "info"}
Rendering == {"render", "upsert", "enrich", "status"}

\* Once the reservation is settled the local IP is the recorded one, and the
\* local readiness never falls behind the recorded one.
Follows(m) ==
    LET cr == obj[m]
        l == loc[m] IN
    /\ pc[m] = "idle" => l = NoLocals
    /\ pc[m] \in Before => l.ip = None
    /\ pc[m] \in {"reserve"} \cup Checking => ~RegistrationOnly(cr.spec)
    /\ pc[m] = "reserve" => cr.ip = None
    /\ pc[m] \in Checking => (cr.ip # None => l.ip = cr.ip)
    /\ pc[m] \in Rendering =>
          IF RegistrationOnly(cr.spec) THEN l.ip = None
          ELSE cr.ip # None => l.ip = cr.ip
    /\ pc[m] \in Before \cup Checking \cup Rendering => (cr.ready => l.ready)

LocalsFollow == \A m \in Managers : Follows(m)

\* A worker that stops has forgotten everything.
LEMMA IdleFollows ==
    ASSUME TypeOK, NEW m \in Managers, Idle(m)
    PROVE  Follows(m)'
  <1>1. pc'[m] = "idle" /\ loc'[m] = NoLocals
    BY DEF Idle, TypeOK, WorkOK
  <1> QED BY <1>1 DEF Follows, Before, Checking, Rendering

\* The steps of Reconcile keep the worker's locals in line.
LEMMA ReconcileFollows ==
    ASSUME TypeOK, NEW m \in Managers, Follows(m), Reconcile(m)
    PROVE  Follows(m)'
  <1>1. loc[m] \in Locals
    BY DEF TypeOK, WorkOK
  <1>2. ASSUME Fail(m) \/ Return(m) \/ Idle(m) PROVE Follows(m)'
    BY <1>2, IdleFollows DEF Fail, Return
  <1>3. ASSUME NEW step, Goto(m, step)
        PROVE  pc'[m] = step /\ obj'[m] = obj[m]
    BY <1>3 DEF Goto, TypeOK, WorkOK
  <1>4. ASSUME NEW s PROVE Publish(s) \in {"enrich", "render"}
    BY DEF Publish
  <1>5. ASSUME NEW cr PROVE AfterCleanup(cr) \in {"release", "unfinalize"}
    BY DEF AfterCleanup
  <1> USE DEF Follows, Before, Checking, Rendering
  <1>6. CASE AddFinalizer(m)
    <2>1. CASE fresh[m]
      <3>1. obj[m] \in CRs
        BY <1>6 DEF AddFinalizer, TypeOK, WorkOK
      <3>2. pc'[m] = "ensure" /\ obj'[m] = [obj[m] EXCEPT !.fin = TRUE] /\ loc'[m] = loc[m]
        BY <1>6, <2>1 DEF AddFinalizer, TypeOK, WorkOK
      <3>3. obj'[m].ready = obj[m].ready
        BY <3>1, <3>2 DEF CRs
      <3> QED BY <1>6, <3>2, <3>3 DEF AddFinalizer
    <2> QED BY <1>2, <1>6, <2>1 DEF AddFinalizer
  <1>7. CASE EnsureReservation(m)
    <2>1. ASSUME RegistrationOnly(obj[m].spec) PROVE Follows(m)'
      <3>1. Goto(m, Publish(obj[m].spec))
            /\ loc' = [loc EXCEPT ![m] = [loc[m] EXCEPT !.lb = PinnedLB(obj[m].spec)]]
        BY <1>7, <2>1 DEF EnsureReservation, TypeOK, WorkOK
      <3>2. loc'[m].ip = loc[m].ip /\ loc'[m].ready = loc[m].ready
        BY <1>1, <3>1 DEF Locals, TypeOK, WorkOK
      <3>3. pc'[m] \in {"enrich", "render"} /\ obj'[m] = obj[m]
        BY <1>3, <1>4, <3>1
      <3> QED BY <1>7, <2>1, <3>2, <3>3 DEF EnsureReservation
    <2>2. ASSUME ~RegistrationOnly(obj[m].spec), obj[m].ip # None PROVE Follows(m)'
      <3>1. /\ loc' = [loc EXCEPT ![m] =
                         [loc[m] EXCEPT !.ip = obj[m].ip, !.lb = ResolvedLB(obj[m])]]
            /\ Goto(m, "drift")
        BY <1>7, <2>2 DEF EnsureReservation, TypeOK, WorkOK
      <3>2. loc'[m].ip = obj[m].ip /\ loc'[m].ready = loc[m].ready
        BY <1>1, <3>1 DEF Locals, TypeOK, WorkOK
      <3>3. pc'[m] = "drift" /\ obj'[m] = obj[m]
        BY <1>3, <3>1
      <3> QED BY <1>7, <2>2, <3>2, <3>3 DEF EnsureReservation
    <2>3. ASSUME ~RegistrationOnly(obj[m].spec), obj[m].ip = None PROVE Follows(m)'
      <3>1. \/ Goto(m, "reserve") /\ UNCHANGED loc
            \/ /\ Goto(m, "drift")
               /\ \E i \in Listed(key[m]) : loc' = [loc EXCEPT ![m] =
                     [loc[m] EXCEPT !.ip = i, !.lb = PinnedLB(obj[m].spec)]]
        BY <1>7, <2>3 DEF EnsureReservation, TypeOK, WorkOK
      <3>2. loc'[m].ready = loc[m].ready
        BY <1>1, <3>1 DEF Locals, TypeOK, WorkOK
      <3>3. pc'[m] = "drift" \/ (pc'[m] = "reserve" /\ loc'[m] = loc[m])
        BY <1>3, <3>1
      <3>4. obj'[m] = obj[m]
        BY <1>3, <3>1
      <3> QED BY <1>7, <2>3, <3>2, <3>3, <3>4 DEF EnsureReservation
    <2> QED BY <2>1, <2>2, <2>3
  <1>8. CASE Reserve(m)
    <2>1. CASE ~Fail(m)
      <3>1. PICK first \in IPs, others \in SUBSET IPs :
               /\ Goto(m, "drift")
               /\ loc' = [loc EXCEPT ![m].ip = first,
                            ![m].lb = IF obj[m].spec.lb = "count" THEN others
                                      ELSE PinnedLB(obj[m].spec)]
        BY <1>8, <2>1 DEF Reserve
      <3>2. loc'[m].ready = loc[m].ready
        BY <1>1, <3>1 DEF Locals, TypeOK, WorkOK
      <3>3. pc'[m] = "drift" /\ obj'[m] = obj[m]
        BY <1>3, <3>1
      <3> QED BY <1>8, <3>2, <3>3 DEF Reserve
    <2> QED BY <1>2, <2>1
  <1>9. CASE CheckDrift(m) \/ UpdateIP(m)
    <2>1. pc'[m] \in {"update", "info"} /\ obj'[m] = obj[m] /\ loc'[m] = loc[m]
      BY <1>3, <1>9 DEF CheckDrift, UpdateIP
    <2> QED BY <1>9, <2>1 DEF CheckDrift, UpdateIP
  <1>10. CASE GetClusterInfo(m)
    <2>1. loc'[m].ip = loc[m].ip /\ loc'[m].ready = loc[m].ready
      BY <1>1, <1>10 DEF GetClusterInfo, Locals, TypeOK, WorkOK
    <2>2. pc'[m] \in {"enrich", "render"} /\ obj'[m] = obj[m]
      BY <1>3, <1>4, <1>10 DEF GetClusterInfo
    <2> QED BY <1>10, <2>1, <2>2 DEF GetClusterInfo
  <1>11. CASE LoadKubeconfig(m)
    <2>1. CASE ~Fail(m)
      <3>1. PICK answers \in BOOLEAN : loc' = [loc EXCEPT ![m] =
               [loc[m] EXCEPT !.rev = Revision(m),
                              !.server = BuildServer(obj[m].spec, loc[m].ip, loc[m].info),
                              !.ready = loc[m].ready \/ answers,
                              !.again = ~loc[m].ready /\ ~answers]]
        BY <1>11, <2>1 DEF LoadKubeconfig, Probe
      <3>2. loc'[m].ip = loc[m].ip /\ loc'[m].ready = (loc[m].ready \/ answers)
        BY <1>1, <3>1 DEF Locals, TypeOK, WorkOK
      <3>3. Goto(m, "upsert")
        BY <1>11, <2>1 DEF LoadKubeconfig
      <3>4. pc'[m] = "upsert" /\ obj'[m] = obj[m]
        BY <1>3, <3>3
      <3> QED BY <1>11, <3>2, <3>4 DEF LoadKubeconfig
    <2> QED BY <1>2, <2>1
  <1>12. CASE UpsertArgoSecret(m) \/ EnrichExistingSecret(m)
    <2>1. ASSUME NEW cond, Published(m, cond) PROVE Follows(m)'
      <3>1. loc'[m].ip = loc[m].ip /\ loc'[m].ready = loc[m].ready
        BY <1>1, <2>1 DEF Published, Locals, TypeOK, WorkOK
      <3>2. pc'[m] = "status" /\ obj'[m] = obj[m]
        BY <1>3, <2>1 DEF Published
      <3> QED BY <1>12, <3>1, <3>2 DEF UpsertArgoSecret, EnrichExistingSecret
    <2> QED BY <1>2, <1>12, <2>1 DEF UpsertArgoSecret, EnrichExistingSecret
  <1>13. CASE DeleteArgoSecret(m) \/ StripEnrichedMetadata(m) \/ ReleaseIP(m)
    <2>1. Fail(m) \/ pc'[m] \in {"release", "unfinalize"}
      BY <1>3, <1>5, <1>13 DEF DeleteArgoSecret, StripEnrichedMetadata, ReleaseIP
    <2> QED BY <1>2, <2>1
  <1>14. CASE UpdateStatus(m) \/ RemoveFinalizer(m)
    BY <1>2, <1>14 DEF UpdateStatus, RemoveFinalizer
  <1> QED BY <1>6, <1>7, <1>8, <1>9, <1>10, <1>11, <1>12, <1>13, <1>14 DEF Reconcile

LEMMA NextFollows == TypeOK /\ LocalsFollow /\ [Next]_vars => LocalsFollow'
  <1> SUFFICES ASSUME TypeOK, LocalsFollow, [Next]_vars PROVE LocalsFollow'
    OBVIOUS
  <1>1. ASSUME NEW n \in Managers, SameWorker(n) PROVE Follows(n)'
    BY <1>1 DEF LocalsFollow, Follows, SameWorker
  <1>2. CASE UNCHANGED <<pc, key, obj, loc>>
    BY <1>1, <1>2 DEF SameWorker, LocalsFollow
  <1>3. ASSUME NEW m \in Managers, Follows(m)',
               Reconcile(m) \/ Misfortune(m) \/ (\E c \in Clusters : Start(m, c))
        PROVE  LocalsFollow'
    <2>1. ASSUME NEW n \in Managers, n # m PROVE Follows(n)'
      BY <1>1, <1>3, <2>1, OthersKept
    <2> QED BY <1>3, <2>1 DEF LocalsFollow
  <1>4. ASSUME NEW m \in Managers, Reconcile(m) PROVE LocalsFollow'
    BY <1>3, <1>4, ReconcileFollows DEF LocalsFollow
  <1>5. ASSUME NEW m \in Managers, Misfortune(m) PROVE LocalsFollow'
    <2>1. CASE Idle(m)
      BY <1>3, <1>5, <2>1, IdleFollows
    <2>2. CASE ~Idle(m)
      <3>1. /\ IgnoredError(m) /\ UNCHANGED loc
            /\ pc[m] \in {"info", "delete"}
            /\ Goto(m, IF pc[m] = "info" THEN Publish(obj[m].spec) ELSE AfterCleanup(obj[m]))
        BY <1>5, <2>2 DEF Misfortune, FailedCall, LostReply, IgnoredError, Crash, Fail, Return
      <3>2. /\ obj'[m] = obj[m] /\ loc'[m] = loc[m]
            /\ pc'[m] \in IF pc[m] = "info" THEN {"enrich", "render"} ELSE {"release", "unfinalize"}
        BY <3>1 DEF Goto, Publish, AfterCleanup, TypeOK, WorkOK
      <3>3. Follows(m)'
        BY <3>1, <3>2 DEF LocalsFollow, Follows, Before, Checking, Rendering
      <3> QED BY <1>3, <1>5, <3>3
    <2> QED BY <2>1, <2>2
  <1>6. ASSUME NEW m \in Managers, NEW c \in Clusters, Start(m, c) PROVE LocalsFollow'
    <2> DEFINE cr == view[m]["cr"][c]
    <2>1. CASE UNCHANGED <<pc, key, obj, loc>>
      BY <1>2, <2>1
    <2>2. CASE ~UNCHANGED <<pc, key, obj, loc>>
      <3>1. /\ loc' = [loc EXCEPT ![m] = [loc[m] EXCEPT !.ready = cr.ready]]
            /\ obj'[m] = cr
            /\ pc'[m] \in {"finalizer", "ensure", "strip", "delete"}
            /\ pc[m] = "idle"
        BY <1>6, <2>2 DEF Start, FirstStep, TypeOK, WorkOK
      <3>2. loc[m] = NoLocals /\ loc[m] \in Locals
        BY <3>1 DEF LocalsFollow, Follows, TypeOK, WorkOK
      <3>3. loc'[m].ip = None /\ loc'[m].ready = cr.ready
        BY <3>1, <3>2 DEF NoLocals, Locals, TypeOK, WorkOK
      <3>4. Follows(m)'
        BY <3>1, <3>3 DEF Follows, Before, Checking, Rendering
      <3> QED BY <1>3, <1>6, <3>4
    <2> QED BY <2>1, <2>2
  <1>7. CASE \/ UNCHANGED vars
             \/ \E m \in Managers, K \in Informers : Deliver(m, K)
             \/ \E m \in Managers : Resync(m)
             \/ \E c \in Clusters : Environment(c)
    BY <1>2, <1>7 DEF vars, Deliver, Resync, Environment, CreateCR, EditCR, DeleteCR,
       RotateKubeconfig, ToggleForeign, LoseArgoSecret, CollectGarbage, EnvWrite, workVars
  <1> QED BY <1>4, <1>5, <1>6, <1>7 DEF Next

\* What StatusLatches asks of one change of a CR.
Latched(old, new) ==
    old # None /\ new # None /\ new # old =>
       (old.uid = new.uid =>
          /\ old.ready => new.ready
          /\ old.ip # None /\ new.ip # old.ip
                => new.ip = None /\ RegistrationOnly(old.spec))

LEMMA WriteCR ==
    ASSUME TypeOK, NEW writer, NEW d \in Clusters, NEW new \in Objects("cr"),
           Write(writer, "cr", d, new), NEW c \in Clusters
    PROVE  api'["cr"][c] = IF c = d THEN new ELSE api["cr"][c]
  <1>1. api = [j \in Kinds |-> api[j]] /\ api["cr"] \in [Clusters -> Objects("cr")]
    BY DEF TypeOK, StoreOK, IsStore, Kinds
  <1>2. CASE new = api["cr"][d]
    BY <1>2 DEF Write
  <1>3. CASE new # api["cr"][d]
    <2>1. api' = [api EXCEPT !["cr"] = [api["cr"] EXCEPT ![d] = new]]
      BY <1>1, <1>3 DEF Write
    <2>2. api'["cr"] = [api["cr"] EXCEPT ![d] = new]
      BY <1>1, <2>1 DEF Kinds
    <2> QED BY <1>1, <2>2
  <1> QED BY <1>2, <1>3

LEMMA StatusStep ==
    ASSUME TypeOK, Coherent, LocalsFollow, [Next]_vars, NEW c \in Clusters
    PROVE  Latched(api["cr"][c], api'["cr"][c])
  <1>1. ASSUME api'["cr"][c] = api["cr"][c] PROVE Latched(api["cr"][c], api'["cr"][c])
    BY <1>1 DEF Latched
  <1>2. /\ Objects("cr") = CRs \cup {None}
        /\ Objects("argo") = ArgoSecrets \cup {None}
        /\ Objects("foreign") = Metadata \cup {None, Bare}
        /\ {"cr", "argo", "foreign", "source"} = Kinds
    BY DEF Objects, Kinds
  <1>3. ASSUME NEW writer, NEW d \in Clusters, NEW k \in Kinds, NEW new \in Objects(k),
               Write(writer, k, d, new), ~(k = "cr" /\ d = c)
        PROVE  api'["cr"][c] = api["cr"][c]
    BY <1>2, <1>3, WriteEffect
  <1>4. ASSUME NEW writer, NEW d \in Clusters, NEW new \in Objects("cr"),
               Write(writer, "cr", d, new), Latched(api["cr"][d], new)
        PROVE  Latched(api["cr"][c], api'["cr"][c])
    <2>1. api'["cr"][c] = IF c = d THEN new ELSE api["cr"][c]
      BY <1>4, WriteCR
    <2> QED BY <1>1, <1>4, <2>1
  <1>5. ASSUME NEW m \in Managers, Reconcile(m)
        PROVE  Latched(api["cr"][c], api'["cr"][c])
    <2>1. CASE AddFinalizer(m) /\ fresh[m]
      <3> DEFINE new == [obj[m] EXCEPT !.fin = TRUE]
      <3>1. key[m] \in Clusters /\ obj[m] \in CRs /\ obj[m] = api["cr"][key[m]]
        BY <2>1 DEF AddFinalizer, TypeOK, WorkOK, Coherent, CopyCurrent
      <3>2. new \in Objects("cr") /\ new.ip = obj[m].ip /\ new.ready = obj[m].ready
        BY <1>2, <3>1 DEF CRs
      <3>3. Write(m, "cr", key[m], new)
        BY <2>1 DEF AddFinalizer
      <3>4. Latched(api["cr"][key[m]], new)
        BY <3>1, <3>2 DEF Latched
      <3> HIDE DEF new
      <3> QED BY <1>4, <3>1, <3>2, <3>3, <3>4
    <2>2. CASE UpdateStatus(m) /\ fresh[m]
      <3>1. /\ key[m] \in Clusters /\ obj[m] \in CRs /\ obj[m] = api["cr"][key[m]]
            /\ loc[m] \in Locals
        BY <2>2 DEF UpdateStatus, TypeOK, WorkOK, Coherent, CopyCurrent
      <3>2. (IF loc[m].info = "nil" THEN obj[m].info ELSE loc[m].info) \in Infos
        BY <3>1 DEF CRs, Locals
      <3>3. /\ NewStatus(m) \in Objects("cr")
            /\ NewStatus(m).ip = loc[m].ip /\ NewStatus(m).ready = loc[m].ready
        BY <1>2, <3>1, <3>2 DEF NewStatus, CRs, Locals
      <3>4. /\ obj[m].ready => loc[m].ready
            /\ IF RegistrationOnly(obj[m].spec) THEN loc[m].ip = None
               ELSE obj[m].ip # None => loc[m].ip = obj[m].ip
        BY <2>2 DEF UpdateStatus, LocalsFollow, Follows, Rendering
      <3>5. Latched(api["cr"][key[m]], NewStatus(m))
        BY <3>1, <3>3, <3>4 DEF Latched
      <3>6. Write(m, "cr", key[m], NewStatus(m))
        BY <2>2 DEF UpdateStatus
      <3> QED BY <1>4, <3>1, <3>3, <3>5, <3>6
    <2>3. CASE RemoveFinalizer(m) /\ fresh[m]
      <3>1. key[m] \in Clusters /\ Write(m, "cr", key[m], None)
        BY <2>3 DEF RemoveFinalizer, TypeOK, WorkOK
      <3>2. None \in Objects("cr") /\ Latched(api["cr"][key[m]], None)
        BY <1>2 DEF Latched
      <3> QED BY <1>4, <3>1, <3>2
    <2>4. CASE NoWrite \/ UNCHANGED k8sVars
      BY <1>1, <2>4 DEF NoWrite, k8sVars
    <2>5. CASE UpsertArgoSecret(m) \/ DeleteArgoSecret(m)
      <3>1. key[m] \in Clusters /\ Desired(m) \in ArgoSecrets
        <4>1. key[m] \in Clusters /\ obj[m] \in CRs /\ loc[m] \in Locals
          BY <2>5 DEF UpsertArgoSecret, DeleteArgoSecret, TypeOK, WorkOK
        <4> QED BY <4>1 DEF Desired, ArgoSecrets, Locals, CRs
      <3>2. NoWrite \/ \E new \in Objects("argo") : Write(m, "argo", key[m], new)
        BY <1>2, <2>5, <3>1 DEF UpsertArgoSecret, DeleteArgoSecret
      <3>3. "argo" \in Kinds /\ "argo" # "cr"
        BY <1>2
      <3> QED BY <1>1, <1>3, <2>4, <3>1, <3>2, <3>3
    <2>6. CASE EnrichExistingSecret(m) \/ StripEnrichedMetadata(m)
      <3>1. /\ key[m] \in Clusters
            /\ [ip |-> loc[m].ip, lb |-> loc[m].lb, info |-> loc[m].info] \in Metadata
        <4>1. key[m] \in Clusters /\ loc[m] \in Locals
          BY <2>6 DEF EnrichExistingSecret, StripEnrichedMetadata, TypeOK, WorkOK
        <4> QED BY <4>1 DEF Metadata, Locals
      <3>2. NoWrite \/ \E new \in Objects("foreign") : Write(m, "foreign", key[m], new)
        BY <1>2, <2>6, <3>1 DEF EnrichExistingSecret, StripEnrichedMetadata
      <3>3. "foreign" \in Kinds /\ "foreign" # "cr"
        BY <1>2
      <3> QED BY <1>1, <1>3, <2>4, <3>1, <3>2, <3>3
    <2> QED BY <1>5, <2>1, <2>2, <2>3, <2>4, <2>5, <2>6 DEF Reconcile, AddFinalizer,
         EnsureReservation, Reserve, CheckDrift, UpdateIP, GetClusterInfo, LoadKubeconfig,
         UpdateStatus, ReleaseIP, RemoveFinalizer
  <1>6. ASSUME NEW d \in Clusters, Environment(d)
        PROVE  Latched(api["cr"][c], api'["cr"][c])
    <2>1. api["cr"][d] # None => api["cr"][d] \in CRs
      <3>1. api["cr"] \in [Clusters -> CRs \cup {None}]
        BY <1>2 DEF TypeOK, StoreOK, IsStore
      <3> QED BY <3>1
    <2>2. CASE CreateCR(d)
      <3>1. PICK s \in SpecChoices : Write(None, "cr", d, NewCR(births[d] + 1, s))
        BY <2>2 DEF CreateCR, EnvWrite
      <3>2. NewCR(births[d] + 1, s) \in CRs
        BY DEF NewCR, CRs, Ranges, Infos, Conds, TypeOK, BudgetOK
      <3>3. Latched(api["cr"][d], NewCR(births[d] + 1, s))
        BY <2>2 DEF CreateCR, Latched
      <3> QED BY <1>2, <1>4, <3>1, <3>2, <3>3
    <2>3. CASE EditCR(d)
      <3>1. PICK s \in SpecChoices : Write(None, "cr", d, [api["cr"][d] EXCEPT !.spec = s])
        BY <2>3 DEF EditCR, EnvWrite
      <3> DEFINE new == [api["cr"][d] EXCEPT !.spec = s]
      <3>2. /\ new \in Objects("cr") /\ new.ip = api["cr"][d].ip
            /\ new.ready = api["cr"][d].ready
        BY <1>2, <2>1, <2>3 DEF EditCR, CRs
      <3>3. Latched(api["cr"][d], new)
        BY <3>2 DEF Latched
      <3> QED BY <1>4, <3>1, <3>2, <3>3
    <2>4. CASE DeleteCR(d)
      <3> DEFINE new == [api["cr"][d] EXCEPT !.deleting = TRUE]
      <3>1. Write(None, "cr", d, new) \/ Write(None, "cr", d, None)
        BY <2>4 DEF DeleteCR, EnvWrite
      <3>2. /\ new \in Objects("cr") /\ new.ip = api["cr"][d].ip
            /\ new.ready = api["cr"][d].ready
        BY <1>2, <2>1, <2>4 DEF DeleteCR, CRs
      <3>3. Latched(api["cr"][d], new)
        BY <3>2 DEF Latched
      <3>4. None \in Objects("cr") /\ Latched(api["cr"][d], None)
        BY <1>2 DEF Latched
      <3> HIDE DEF new
      <3> QED BY <1>4, <3>1, <3>2, <3>3, <3>4
    <2>5. CASE ~(CreateCR(d) \/ EditCR(d) \/ DeleteCR(d))
      <3>1. \E k \in Kinds \ {"cr"} : \E new \in Objects(k) : Write(None, k, d, new)
        <4>1. api["source"][d] \in Nat /\ Objects("source") = Nat
          <5>1. Objects("source") = Nat
            BY DEF Objects
          <5>2. api["source"] \in [Clusters -> Nat]
            BY <1>2, <5>1 DEF TypeOK, StoreOK, IsStore
          <5> QED BY <5>1, <5>2
        <4>2. CASE RotateKubeconfig(d)
          BY <1>2, <4>1, <4>2 DEF RotateKubeconfig, EnvWrite
        <4>3. CASE ToggleForeign(d)
          BY <1>2, <4>3 DEF ToggleForeign, EnvWrite
        <4>4. CASE LoseArgoSecret(d) \/ CollectGarbage(d)
          BY <1>2, <4>4 DEF LoseArgoSecret, CollectGarbage, EnvWrite
        <4> QED BY <1>6, <2>5, <4>2, <4>3, <4>4 DEF Environment
      <3> QED BY <1>1, <1>3, <3>1
    <2> QED BY <2>2, <2>3, <2>4, <2>5
  <1>7. ASSUME NEW m \in Managers, Misfortune(m)
        PROVE  Latched(api["cr"][c], api'["cr"][c])
    BY <1>1, <1>7 DEF Misfortune, FailedCall, LostReply, IgnoredError, Crash, k8sVars
  <1>8. ASSUME NEW m \in Managers,
               \/ \E d \in Clusters : Start(m, d)
               \/ \E K \in Informers : Deliver(m, K)
               \/ Resync(m)
        PROVE  Latched(api["cr"][c], api'["cr"][c])
    BY <1>1, <1>8 DEF k8sVars, Start, Deliver, Resync
  <1>9. CASE UNCHANGED vars
    BY <1>1, <1>9 DEF vars, k8sVars
  <1> QED BY <1>5, <1>6, <1>7, <1>8, <1>9 DEF Next

\* The locals follow the copy in every behaviour.
LEMMA AlwaysFollows == Spec => []LocalsFollow
  <1>1. Init => LocalsFollow
    BY DEF Init, LocalsFollow, Follows, Before, Checking, Rendering
  <1> QED BY <1>1, NextFollows, TypeCorrect, PTL DEF Spec

(***************************************************************************)
(* However many managers reconcile a CR, from however stale a cache: what  *)
(* one of them recorded in its status (readiness, the reserved IP) is not  *)
(* taken back by another.                                                  *)
(***************************************************************************)
THEOREM StatusIsLatched == Spec => StatusLatches
  <1>1. TypeOK /\ Coherent /\ LocalsFollow /\ [Next]_vars
           => [\A c \in Clusters :
                 LET old == api["cr"][c]
                     new == api'["cr"][c] IN
                 old # None /\ new # None /\ new # old =>
                    (old.uid = new.uid =>
                       /\ old.ready => new.ready
                       /\ old.ip # None /\ new.ip # old.ip
                             => new.ip = None /\ RegistrationOnly(old.spec))]_vars
    BY StatusStep DEF Latched
  <1> QED BY <1>1, TypeCorrect, CachesCoherent, AlwaysFollows, PTL DEF Spec, StatusLatches

-----------------------------------------------------------------------------
\* The objects of a store are of their kinds.
LEMMA StoreObjects ==
    ASSUME TypeOK, NEW k \in Kinds, NEW c \in Clusters
    PROVE  /\ api[k][c] \in Objects(k)
           /\ \A m \in Managers : view[m][k][c] \in Objects(k)
  <1>1. api[k] \in [Clusters -> Objects(k)]
    BY DEF TypeOK, StoreOK, IsStore
  <1>2. ASSUME NEW m \in Managers PROVE view[m][k] \in [Clusters -> Objects(k)]
    BY DEF TypeOK, StoreOK, IsStore
  <1> QED BY <1>1, <1>2

\* A write changes one object.
LEMMA WriteStores ==
    ASSUME TypeOK, NEW writer, NEW k \in Kinds, NEW c \in Clusters,
           NEW new \in Objects(k), Write(writer, k, c, new),
           NEW j \in Kinds, NEW d \in Clusters
    PROVE  api'[j][d] = IF j = k /\ d = c THEN new ELSE api[j][d]
  <1>1. api = [i \in Kinds |-> api[i]] /\ \A i \in Kinds : api[i] \in [Clusters -> Objects(i)]
    BY DEF TypeOK, StoreOK, IsStore
  <1>2. CASE new = api[k][c]
    BY <1>2 DEF Write
  <1>3. CASE new # api[k][c]
    <2>1. api' = [api EXCEPT ![k] = [api[k] EXCEPT ![c] = new]]
      BY <1>1, <1>3 DEF Write
    <2>2. api'[j] = IF j = k THEN [api[k] EXCEPT ![c] = new] ELSE api[j]
      BY <1>1, <2>1
    <2> QED BY <1>1, <2>2
  <1> QED BY <1>2, <1>3

(***************************************************************************)
(* What a step of Reconcile writes.                                        *)
(***************************************************************************)
\* The metadata enrich mode merges onto the foreign Secret.
Merged(m) == [ip |-> loc[m].ip, lb |-> loc[m].lb, info |-> loc[m].info]

Result(m, k) ==
    CASE k = "cr"      -> {[obj[m] EXCEPT !.fin = TRUE], NewStatus(m), None}
      [] k = "argo"    -> {Desired(m), None}
      [] k = "foreign" -> {Merged(m), Bare}
      [] k = "source"  -> {}

LEMMA ReconcileResult ==
    ASSUME TypeOK, NEW m \in Managers, Reconcile(m)
    PROVE  /\ pc[m] # "idle" /\ key[m] \in Clusters /\ obj[m] \in CRs /\ loc[m] \in Locals
           /\ view' = view
           /\ \/ NoWrite
              \/ \E k \in Kinds : \E new \in Objects(k) :
                    new \in Result(m, k) /\ Write(m, k, key[m], new)
  <1>1. /\ Objects("cr") = CRs \cup {None}
        /\ Objects("argo") = ArgoSecrets \cup {None}
        /\ Objects("foreign") = Metadata \cup {None, Bare}
        /\ {"cr", "argo", "foreign"} \subseteq Kinds
    BY DEF Objects, Kinds
  <1>2. /\ Result(m, "cr") = {[obj[m] EXCEPT !.fin = TRUE], NewStatus(m), None}
        /\ Result(m, "argo") = {Desired(m), None}
        /\ Result(m, "foreign") = {Merged(m), Bare}
    BY DEF Result
  <1>3. pc[m] # "idle" /\ key[m] \in Clusters /\ obj[m] \in CRs /\ loc[m] \in Locals
    BY DEF Reconcile, AddFinalizer, EnsureReservation, Reserve, CheckDrift, UpdateIP,
           GetClusterInfo, LoadKubeconfig, UpsertArgoSecret, EnrichExistingSecret,
           UpdateStatus, DeleteArgoSecret, StripEnrichedMetadata, ReleaseIP,
           RemoveFinalizer, TypeOK, WorkOK
  <1>4. /\ [obj[m] EXCEPT !.fin = TRUE] \in CRs
        /\ NewStatus(m) \in CRs
        /\ Desired(m) \in ArgoSecrets
        /\ Merged(m) \in Metadata
    <2>1. (IF loc[m].info = "nil" THEN obj[m].info ELSE loc[m].info) \in Infos
      BY <1>3 DEF CRs, Locals
    <2> QED BY <1>3, <2>1 DEF NewStatus, Desired, Merged, CRs, ArgoSecrets, Metadata, Locals
  <1>5. CASE UNCHANGED k8sVars
    BY <1>3, <1>5 DEF k8sVars, NoWrite
  <1>6. CASE AddFinalizer(m) \/ UpdateStatus(m) \/ RemoveFinalizer(m)
    BY <1>1, <1>2, <1>3, <1>4, <1>6 DEF AddFinalizer, UpdateStatus, RemoveFinalizer
  <1>7. CASE UpsertArgoSecret(m) \/ DeleteArgoSecret(m)
    BY <1>1, <1>2, <1>3, <1>4, <1>7 DEF UpsertArgoSecret, DeleteArgoSecret
  <1>8. CASE EnrichExistingSecret(m) \/ StripEnrichedMetadata(m)
    BY <1>1, <1>2, <1>3, <1>4, <1>8 DEF EnrichExistingSecret, StripEnrichedMetadata, Merged
  <1> QED BY <1>5, <1>6, <1>7, <1>8 DEF Reconcile, EnsureReservation, Reserve, CheckDrift,
               UpdateIP, GetClusterInfo, LoadKubeconfig, ReleaseIP
====
