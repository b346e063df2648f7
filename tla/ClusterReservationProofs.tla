---------------------- MODULE ClusterReservationProofs ----------------------
(***************************************************************************)
(* What clusters publish, they hold: the safety of the addresses of the    *)
(* ClusterbookCluster controller, for every number of managers, names and  *)
(* addresses and every bound.                                              *)
(***************************************************************************)
EXTENDS ClusterReconcilerProofs

\* No CR asks for its address to be released when it is deleted (the default
\* of spec.releaseOnDelete).
NoRelease == \A s \in SpecChoices : ~s.release

\* Every address of o, an object, a status or a worker's locals, is assigned
\* to c in the pool h.
Backs(h, c, o) ==
    /\ o.ip # None => h[o.ip] = c
    /\ \A i \in IPs : i \in o.lb => h[i] = c

\* The same of an object of kind k, which may be missing or publish nothing.
Fine(h, k, c, x) ==
    \/ x = None \/ k = "source" \/ (k = "foreign" /\ x = Bare)
    \/ Backs(h, c, x)

\* The strengthening of PublishedIsHeld: also what caches still show, and
\* what a worker has read and is about to publish, is assigned.
StoreBacked ==
    \A k \in Kinds, c \in Clusters :
       /\ Fine(holder, k, c, api[k][c])
       /\ \A m \in Managers : Fine(holder, k, c, view[m][k][c])

WorkerBacked(m) ==
    /\ pc[m] # "release"
    /\ pc[m] # "idle" => /\ Backs(holder, key[m], obj[m])
                         /\ Backs(holder, key[m], loc[m])

AllBacked == StoreBacked /\ \A m \in Managers : WorkerBacked(m)

-----------------------------------------------------------------------------
\* An assignment stands.
Stands == \A i \in IPs : holder[i] # None => holder'[i] = holder[i]

\* Without releases the server only ever assigns what is free.
LEMMA PoolGrows ==
    ASSUME TypeOK, \A m \in Managers : pc[m] # "release", [Next]_vars
    PROVE  Stands
  <1>1. CASE UNCHANGED holder
    BY <1>1 DEF Stands
  <1>2. ASSUME NEW c, NEW s, NEW first, NEW others, Assign(c, s, first, others)
        PROVE  Stands
    BY <1>2 DEF Assign, Free, Stands
  <1>3. ASSUME NEW m \in Managers, Reconcile(m) PROVE Stands
    BY <1>1, <1>2, <1>3 DEF Reconcile, AddFinalizer, EnsureReservation, Reserve,
       CheckDrift, UpdateIP, SetDNS, GetClusterInfo, LoadKubeconfig, UpsertArgoSecret,
       EnrichExistingSecret, UpdateStatus, DeleteArgoSecret, StripEnrichedMetadata,
       ReleaseIP, RemoveFinalizer, poolVars
  <1>4. ASSUME NEW m \in Managers, Misfortune(m) PROVE Stands
    BY <1>1, <1>2, <1>4 DEF Misfortune, FailedCall, LostReply, IgnoredError, Crash,
       SetDNS, poolVars
  <1>5. CASE \/ UNCHANGED vars
             \/ \E m \in Managers, c \in Clusters : Start(m, c)
             \/ \E m \in Managers, K \in Informers : Deliver(m, K)
             \/ \E m \in Managers : Resync(m)
             \/ \E c \in Clusters : Environment(c)
    BY <1>1, <1>5 DEF vars, Start, Deliver, Resync, Environment, CreateCR, EditCR,
       DeleteCR, RotateKubeconfig, ToggleForeign, LoseArgoSecret, CollectGarbage,
       EnvWrite, poolVars
  <1> QED BY <1>3, <1>4, <1>5 DEF Next

\* So what is backed stays backed, whoever takes the step.
LEMMA BacksStand ==
    ASSUME Stands, NEW c \in Clusters, NEW o, o.ip \in IPs \cup {None},
           Backs(holder, c, o)
    PROVE  Backs(holder', c, o)
  BY NoneAssumption DEF Stands, Backs

\* So does what is fine to publish.
LEMMA FineStands ==
    ASSUME Stands, NEW k \in Kinds, NEW c \in Clusters, NEW x \in Objects(k),
           Fine(holder, k, c, x)
    PROVE  Fine(holder', k, c, x)
  <1>1. CASE x = None \/ k = "source" \/ (k = "foreign" /\ x = Bare)
    BY <1>1 DEF Fine
  <1>2. CASE x \in CRs \cup ArgoSecrets \cup Metadata /\ Backs(holder, c, x)
    <2>1. x.ip \in IPs \cup {None}
      BY <1>2 DEF CRs, ArgoSecrets, Metadata
    <2> QED BY <1>2, <2>1, BacksStand DEF Fine
  <1> QED BY <1>1, <1>2 DEF Fine, Kinds, Objects

-----------------------------------------------------------------------------
(***************************************************************************)
(* Every step keeps what is published, cached and in work backed.          *)
(***************************************************************************)
\* A write of something backed leaves the store and the caches backed.
LEMMA WriteBacked ==
    ASSUME TypeOK, StoreBacked, Stands, view' = view,
           NEW writer, NEW k \in Kinds, NEW c \in Clusters, NEW new \in Objects(k),
           Write(writer, k, c, new), Fine(holder, k, c, new)
    PROVE  StoreBacked'
  <1>0. \A j \in Kinds, d \in Clusters :
           api'[j][d] = IF j = k /\ d = c THEN new ELSE api[j][d]
    BY WriteStores
  <1>1. ASSUME NEW j \in Kinds, NEW d \in Clusters
        PROVE  Fine(holder', j, d, api'[j][d])
    <2>1. api'[j][d] = IF j = k /\ d = c THEN new ELSE api[j][d]
      BY <1>0
    <2>2. api[j][d] \in Objects(j) /\ Fine(holder, j, d, api[j][d])
      BY StoreObjects DEF StoreBacked
    <2> QED BY <2>1, <2>2, FineStands
  <1>2. ASSUME NEW j \in Kinds, NEW d \in Clusters, NEW m \in Managers
        PROVE  Fine(holder', j, d, view'[m][j][d])
    <2>1. view[m][j][d] \in Objects(j) /\ Fine(holder, j, d, view[m][j][d])
      BY StoreObjects DEF StoreBacked
    <2> QED BY <2>1, FineStands
  <1> QED BY <1>1, <1>2 DEF StoreBacked

\* So does a step that only moves objects from the store to the caches.
LEMMA ReadBacked ==
    ASSUME TypeOK, StoreBacked, Stands, api' = api,
           \A m \in Managers, k \in Kinds, c \in Clusters :
              view'[m][k][c] \in {api[k][c], view[m][k][c]}
    PROVE  StoreBacked'
  <1>1. ASSUME NEW k \in Kinds, NEW c \in Clusters, NEW x \in {api[k][c]} \cup
                  {view[m][k][c] : m \in Managers}
        PROVE  Fine(holder', k, c, x)
    BY StoreObjects, FineStands DEF StoreBacked
  <1> QED BY <1>1 DEF StoreBacked

\* A worker that stops, or is left alone, stays backed.
LEMMA IdleBacked ==
    ASSUME TypeOK, NEW m \in Managers, Idle(m)
    PROVE  WorkerBacked(m)'
  BY DEF Idle, WorkerBacked, TypeOK, WorkOK

\* A worker that no step of its own concerns stays backed.
LEMMA SameBacked ==
    ASSUME TypeOK, Stands, NEW m \in Managers, SameWorker(m), WorkerBacked(m)
    PROVE  WorkerBacked(m)'
  <1>1. CASE pc[m] = "idle"
    BY <1>1 DEF SameWorker, WorkerBacked
  <1>2. CASE pc[m] # "idle"
    <2>1. key[m] \in Clusters /\ obj[m].ip \in IPs \cup {None} /\ loc[m].ip \in IPs \cup {None}
      BY <1>2 DEF TypeOK, WorkOK, CRs, Locals
    <2>2. Backs(holder', key[m], obj[m]) /\ Backs(holder', key[m], loc[m])
      BY <1>2, <2>1, BacksStand DEF WorkerBacked
    <2> QED BY <2>2 DEF SameWorker, WorkerBacked
  <1> QED BY <1>1, <1>2

\* A worker that moves on with backed locals stays backed.
LEMMA GotoBacked ==
    ASSUME TypeOK, Stands, NEW m \in Managers, pc[m] # "idle", WorkerBacked(m),
           NEW step, step # "release", Goto(m, step),
           Backs(holder', key[m], loc'[m])
    PROVE  WorkerBacked(m)'
  <1>1. key[m] \in Clusters /\ obj[m].ip \in IPs \cup {None}
    BY DEF TypeOK, WorkOK, CRs
  <1>2. Backs(holder', key[m], obj[m])
    BY <1>1, BacksStand DEF WorkerBacked
  <1> QED BY <1>2 DEF Goto, WorkerBacked, TypeOK, WorkOK

\* Pinned ranges are not of the pool.
LEMMA PinnedBacked ==
    ASSUME NEW s, NEW i \in IPs
    PROVE  i \notin PinnedLB(s)
  BY NoneAssumption DEF PinnedLB

\* Whatever Reconcile writes has been backed while it was in work.
LEMMA ResultBacked ==
    ASSUME TypeOK, NEW m \in Managers, Reconcile(m), WorkerBacked(m),
           NEW k \in Kinds, NEW new \in Result(m, k)
    PROVE  Fine(holder, k, key[m], new)
  <1>1. /\ obj[m] \in CRs /\ loc[m] \in Locals
        /\ Backs(holder, key[m], obj[m]) /\ Backs(holder, key[m], loc[m])
    BY ReconcileResult DEF WorkerBacked
  <1>2. CASE k = "cr"
    <2>1. new \in {[obj[m] EXCEPT !.fin = TRUE], NewStatus(m), None}
      BY <1>2 DEF Result
    <2>2. CASE new = [obj[m] EXCEPT !.fin = TRUE]
      <3>1. new.ip = obj[m].ip /\ new.lb = obj[m].lb
        BY <1>1, <2>2 DEF CRs
      <3> QED BY <1>1, <3>1 DEF Fine, Backs
    <2>3. CASE new = NewStatus(m)
      <3>1. new.ip = loc[m].ip /\ new.lb = loc[m].lb
        BY <1>1, <2>3 DEF NewStatus, CRs
      <3> QED BY <1>1, <3>1 DEF Fine, Backs
    <2> QED BY <2>1, <2>2, <2>3 DEF Fine
  <1>3. CASE k = "argo"
    <2>1. new = None \/ (new.ip = loc[m].ip /\ new.lb = loc[m].lb)
      BY <1>3 DEF Result, Desired
    <2> QED BY <1>1, <2>1 DEF Fine, Backs
  <1>4. CASE k = "foreign"
    <2>1. new = Bare \/ (new.ip = loc[m].ip /\ new.lb = loc[m].lb)
      BY <1>4 DEF Result, Merged
    <2> QED BY <1>1, <1>4, <2>1 DEF Fine, Backs
  <1>5. CASE k = "source"
    BY <1>5 DEF Fine
  <1> QED BY <1>2, <1>3, <1>4, <1>5 DEF Kinds

\* The steps of Reconcile leave the worker backed.
LEMMA ReconcileBacked ==
    ASSUME TypeOK, NoRelease, Stands, NEW m \in Managers, Reconcile(m), WorkerBacked(m)
    PROVE  WorkerBacked(m)'
  <1>1. /\ pc[m] # "idle" /\ key[m] \in Clusters /\ obj[m] \in CRs /\ loc[m] \in Locals
        /\ obj[m].ip \in IPs \cup {None} /\ loc[m].ip \in IPs \cup {None}
    BY ReconcileResult DEF CRs, Locals
  <1>2. Backs(holder', key[m], obj[m]) /\ Backs(holder', key[m], loc[m])
    BY <1>1, BacksStand DEF WorkerBacked
  <1>3. ASSUME Fail(m) \/ Return(m) \/ Idle(m) PROVE WorkerBacked(m)'
    BY <1>3, IdleBacked DEF Fail, Return
  <1>4. ASSUME NEW step \in Steps \ {"release"}, Goto(m, step),
               loc'[m].ip = loc[m].ip, loc'[m].lb = loc[m].lb
        PROVE  WorkerBacked(m)'
    <2>1. Backs(holder', key[m], loc'[m])
      BY <1>2, <1>4 DEF Backs
    <2> QED BY <1>1, <1>4, <2>1, GotoBacked
  <1>5. Publish(obj[m].spec) \in Steps \ {"release"} /\ AfterCleanup(obj[m]) = "unfinalize"
    BY <1>1 DEF Publish, AfterCleanup, NoRelease, CRs, Steps
  <1>6. CASE AddFinalizer(m)
    <2>1. CASE fresh[m]
      <3>1. /\ pc'[m] = "ensure" /\ key'[m] = key[m] /\ loc'[m] = loc[m]
            /\ obj'[m] = [obj[m] EXCEPT !.fin = TRUE]
        BY <1>6, <2>1 DEF AddFinalizer, TypeOK, WorkOK
      <3>2. obj'[m].ip = obj[m].ip /\ obj'[m].lb = obj[m].lb
        BY <1>1, <3>1 DEF CRs
      <3> QED BY <1>2, <3>1, <3>2 DEF WorkerBacked, Backs
    <2> QED BY <1>3, <1>6, <2>1 DEF AddFinalizer
  <1>7. CASE EnsureReservation(m)
    <2>1. ASSUME NEW ip, NEW lb, NEW step \in Steps \ {"release"}, Goto(m, step),
                 loc' = [loc EXCEPT ![m] = [loc[m] EXCEPT !.ip = ip, !.lb = lb]],
                 ip # None => holder'[ip] = key[m],
                 \A i \in IPs : i \in lb => holder'[i] = key[m]
          PROVE  WorkerBacked(m)'
      <3>1. loc'[m].ip = ip /\ loc'[m].lb = lb
        BY <1>1, <2>1 DEF Locals, TypeOK, WorkOK
      <3>2. Backs(holder', key[m], loc'[m])
        BY <2>1, <3>1 DEF Backs
      <3> QED BY <1>1, <2>1, <3>2, GotoBacked
    <2>2. ASSUME RegistrationOnly(obj[m].spec) PROVE WorkerBacked(m)'
      <3>1. Goto(m, Publish(obj[m].spec))
            /\ loc' = [loc EXCEPT ![m] = [loc[m] EXCEPT !.lb = PinnedLB(obj[m].spec)]]
        BY <1>7, <2>2 DEF EnsureReservation, TypeOK, WorkOK
      <3>2. loc'[m].ip = loc[m].ip /\ loc'[m].lb = PinnedLB(obj[m].spec)
        BY <1>1, <3>1 DEF Locals, TypeOK, WorkOK
      <3>3. Backs(holder', key[m], loc'[m])
        BY <1>2, <3>2, PinnedBacked DEF Backs
      <3> QED BY <1>1, <1>5, <3>1, <3>3, GotoBacked
    <2>3. ASSUME ~RegistrationOnly(obj[m].spec), obj[m].ip # None PROVE WorkerBacked(m)'
      <3>1. /\ loc' = [loc EXCEPT ![m] =
                         [loc[m] EXCEPT !.ip = obj[m].ip, !.lb = ResolvedLB(obj[m])]]
            /\ Goto(m, "drift")
        BY <1>7, <2>3 DEF EnsureReservation, TypeOK, WorkOK
      <3>2. \A i \in IPs : i \in ResolvedLB(obj[m]) => holder'[i] = key[m]
        BY <1>2, PinnedBacked DEF ResolvedLB, Backs
      <3>3. obj[m].ip # None => holder'[obj[m].ip] = key[m]
        BY <1>2 DEF Backs
      <3> QED BY <2>1, <3>1, <3>2, <3>3 DEF Steps
    <2>4. ASSUME ~RegistrationOnly(obj[m].spec), obj[m].ip = None PROVE WorkerBacked(m)'
      <3>1. CASE Goto(m, "reserve") /\ UNCHANGED loc
        BY <1>4, <3>1 DEF Steps
      <3>2. ASSUME NEW i \in Listed(key[m]), Goto(m, "drift"),
                   loc' = [loc EXCEPT ![m].ip = i, ![m].lb = PinnedLB(obj[m].spec)]
            PROVE  WorkerBacked(m)'
        <4>1. loc' = [loc EXCEPT ![m] = [loc[m] EXCEPT !.ip = i, !.lb = PinnedLB(obj[m].spec)]]
          BY <3>2 DEF TypeOK, WorkOK
        <4>2. i \in IPs /\ holder[i] = key[m]
          BY DEF Listed, Held
        <4>3. holder'[i] = key[m]
          BY <1>1, <4>2, NoneAssumption DEF Stands
        <4> QED BY <2>1, <3>2, <4>1, <4>3, PinnedBacked DEF Steps
      <3> QED BY <1>7, <2>4, <3>1, <3>2 DEF EnsureReservation
    <2> QED BY <2>2, <2>3, <2>4
  <1>8. CASE Reserve(m)
    <2>1. CASE ~Fail(m)
      <3>1. PICK first \in IPs, others \in SUBSET IPs :
               /\ Assign(key[m], obj[m].spec, first, others)
               /\ Goto(m, "drift")
               /\ loc' = [loc EXCEPT ![m].ip = first,
                            ![m].lb = IF obj[m].spec.lb = "count" THEN others
                                      ELSE PinnedLB(obj[m].spec)]
        BY <1>8, <2>1 DEF Reserve
      <3>2. /\ loc'[m].ip = first
            /\ loc'[m].lb = IF obj[m].spec.lb = "count" THEN others ELSE PinnedLB(obj[m].spec)
        BY <1>1, <3>1 DEF Locals, TypeOK, WorkOK
      <3>3. \A i \in IPs : i \in others \cup {first} => holder'[i] = key[m]
        BY <3>1 DEF Assign
      <3>4. Backs(holder', key[m], loc'[m])
        BY <3>2, <3>3, PinnedBacked DEF Backs
      <3> QED BY <1>1, <3>1, <3>4, GotoBacked
    <2> QED BY <1>3, <2>1
  <1>9. CASE CheckDrift(m) \/ UpdateIP(m)
    BY <1>4, <1>9 DEF CheckDrift, UpdateIP, Steps
  <1>10. CASE GetClusterInfo(m)
    <2>1. loc'[m].ip = loc[m].ip /\ loc'[m].lb = loc[m].lb
      BY <1>1, <1>10 DEF GetClusterInfo, Locals, TypeOK, WorkOK
    <2> QED BY <1>4, <1>5, <1>10, <2>1 DEF GetClusterInfo
  <1>11. CASE LoadKubeconfig(m)
    <2>1. CASE ~Fail(m)
      <3>1. PICK answers \in BOOLEAN : loc' = [loc EXCEPT ![m] =
               [loc[m] EXCEPT !.rev = Revision(m),
                              !.server = BuildServer(obj[m].spec, loc[m].ip, loc[m].info),
                              !.ready = loc[m].ready \/ answers,
                              !.again = ~loc[m].ready /\ ~answers]]
        BY <1>11, <2>1 DEF LoadKubeconfig, Probe
      <3>2. loc'[m].ip = loc[m].ip /\ loc'[m].lb = loc[m].lb
        BY <1>1, <3>1 DEF Locals, TypeOK, WorkOK
      <3> QED BY <1>4, <1>11, <2>1, <3>2 DEF LoadKubeconfig, Steps
    <2> QED BY <1>3, <2>1
  <1>12. CASE UpsertArgoSecret(m) \/ EnrichExistingSecret(m)
    <2>1. ASSUME NEW cond, Published(m, cond) PROVE WorkerBacked(m)'
      <3>1. loc'[m].ip = loc[m].ip /\ loc'[m].lb = loc[m].lb
        BY <1>1, <2>1 DEF Published, Locals, TypeOK, WorkOK
      <3> QED BY <1>4, <2>1, <3>1 DEF Published, Steps
    <2> QED BY <1>3, <1>12, <2>1 DEF UpsertArgoSecret, EnrichExistingSecret
  <1>13. CASE DeleteArgoSecret(m) \/ StripEnrichedMetadata(m)
    BY <1>3, <1>4, <1>5, <1>13 DEF DeleteArgoSecret, StripEnrichedMetadata, Steps
  <1>14. CASE UpdateStatus(m) \/ RemoveFinalizer(m)
    BY <1>3, <1>14 DEF UpdateStatus, RemoveFinalizer
  <1>15. ~ReleaseIP(m)
    BY DEF ReleaseIP, WorkerBacked
  <1> QED BY <1>6, <1>7, <1>8, <1>9, <1>10, <1>11, <1>12, <1>13, <1>14, <1>15 DEF Reconcile

\* What users, other controllers and the garbage collector write is backed:
\* they leave the status alone.
LEMMA EnvironmentBacked ==
    ASSUME TypeOK, StoreBacked, NEW c \in Clusters, Environment(c)
    PROVE  \E k \in Kinds : \E new \in Objects(k) :
              EnvWrite(k, c, new) /\ Fine(holder, k, c, new)
  <1>1. /\ Objects("cr") = CRs \cup {None}
        /\ Objects("argo") = ArgoSecrets \cup {None}
        /\ Objects("foreign") = Metadata \cup {None, Bare}
        /\ Objects("source") = Nat
        /\ Kinds = {"cr", "argo", "foreign", "source"}
    BY DEF Objects, Kinds
  <1>2. ASSUME NEW k \in Kinds, NEW new \in Objects(k), EnvWrite(k, c, new),
               Fine(holder, k, c, new)
        PROVE  \E j \in Kinds : \E x \in Objects(j) : EnvWrite(j, c, x) /\ Fine(holder, j, c, x)
    BY <1>2
  <1>3. ASSUME api["cr"][c] # None
        PROVE  api["cr"][c] \in CRs /\ Backs(holder, c, api["cr"][c])
    BY <1>1, <1>3, StoreObjects DEF StoreBacked, Fine
  <1>4. CASE CreateCR(c)
    <2>1. PICK s \in SpecChoices : EnvWrite("cr", c, NewCR(births[c] + 1, s))
      BY <1>4 DEF CreateCR
    <2>2. NewCR(births[c] + 1, s) \in CRs
      BY DEF NewCR, CRs, Ranges, Infos, Conds, TypeOK, BudgetOK
    <2>3. Fine(holder, "cr", c, NewCR(births[c] + 1, s))
      BY DEF Fine, Backs, NewCR
    <2> QED BY <1>1, <1>2, <2>1, <2>2, <2>3
  <1>5. CASE EditCR(c)
    <2>1. PICK s \in SpecChoices : EnvWrite("cr", c, [api["cr"][c] EXCEPT !.spec = s])
      BY <1>5 DEF EditCR
    <2> DEFINE new == [api["cr"][c] EXCEPT !.spec = s]
    <2>2. new \in CRs /\ new.ip = api["cr"][c].ip /\ new.lb = api["cr"][c].lb
      BY <1>3, <1>5 DEF EditCR, CRs
    <2>3. Fine(holder, "cr", c, new)
      BY <1>3, <1>5, <2>2 DEF EditCR, Fine, Backs
    <2> HIDE DEF new
    <2> QED BY <1>1, <1>2, <2>1, <2>2, <2>3 DEF new
  <1>6. CASE DeleteCR(c)
    <2> DEFINE new == [api["cr"][c] EXCEPT !.deleting = TRUE]
    <2>1. EnvWrite("cr", c, new) \/ EnvWrite("cr", c, None)
      BY <1>6 DEF DeleteCR
    <2>2. new \in CRs /\ new.ip = api["cr"][c].ip /\ new.lb = api["cr"][c].lb
      BY <1>3, <1>6 DEF DeleteCR, CRs
    <2>3. Fine(holder, "cr", c, new) /\ Fine(holder, "cr", c, None)
      BY <1>3, <1>6, <2>2 DEF DeleteCR, Fine, Backs
    <2> HIDE DEF new
    <2> QED BY <1>1, <1>2, <2>1, <2>2, <2>3
  <1>7. CASE RotateKubeconfig(c)
    <2>1. api["source"][c] + 1 \in Nat
      BY <1>1, StoreObjects
    <2> QED BY <1>1, <1>2, <1>7, <2>1 DEF RotateKubeconfig, Fine
  <1>8. CASE ToggleForeign(c)
    BY <1>1, <1>2, <1>8 DEF ToggleForeign, Fine
  <1>9. CASE LoseArgoSecret(c) \/ CollectGarbage(c)
    BY <1>1, <1>2, <1>9 DEF LoseArgoSecret, CollectGarbage, Fine
  <1> QED BY <1>4, <1>5, <1>6, <1>7, <1>8, <1>9 DEF Environment

\* AllBacked is inductive.
LEMMA NextBacked ==
    ASSUME NoRelease, TypeOK, LocalsFollow, AllBacked, [Next]_vars
    PROVE  AllBacked'
  <1>1. Stands
    BY PoolGrows DEF AllBacked, WorkerBacked
  <1>2. StoreBacked
    BY DEF AllBacked
  <1>3. ASSUME NEW n \in Managers, SameWorker(n) PROVE WorkerBacked(n)'
    BY <1>1, <1>3, SameBacked DEF AllBacked
  <1>4. ASSUME NEW m \in Managers, WorkerBacked(m)',
               Reconcile(m) \/ Misfortune(m) \/ (\E c \in Clusters : Start(m, c))
        PROVE  \A n \in Managers : WorkerBacked(n)'
    <2>1. ASSUME NEW n \in Managers, n # m PROVE WorkerBacked(n)'
      BY <1>3, <1>4, <2>1, OthersKept
    <2> QED BY <1>4, <2>1
  <1>5. ASSUME api' = api, view' = view PROVE StoreBacked'
    BY <1>1, <1>2, <1>5, ReadBacked
  <1>6. ASSUME NEW m \in Managers, Reconcile(m) PROVE AllBacked'
    <2>1. StoreBacked'
      <3>1. CASE NoWrite
        BY <1>5, <1>6, <3>1, ReconcileResult DEF NoWrite
      <3>2. ASSUME NEW k \in Kinds, NEW new \in Objects(k), new \in Result(m, k),
                   Write(m, k, key[m], new)
            PROVE  StoreBacked'
        <4>1. key[m] \in Clusters /\ view' = view
          BY <1>6, ReconcileResult
        <4>2. Fine(holder, k, key[m], new)
          BY <1>6, <3>2, ResultBacked DEF AllBacked
        <4> QED BY <1>1, <1>2, <3>2, <4>1, <4>2, WriteBacked
      <3> QED BY <1>6, <3>1, <3>2, ReconcileResult
    <2>2. WorkerBacked(m)'
      BY <1>1, <1>6, ReconcileBacked DEF AllBacked
    <2> QED BY <1>4, <1>6, <2>1, <2>2 DEF AllBacked
  <1>7. ASSUME NEW m \in Managers, Misfortune(m) PROVE AllBacked'
    <2>1. StoreBacked'
      <3>1. CASE Crash(m)
        <4>1. /\ api' = api
              /\ \A n \in Managers : view'[n] = IF n = m THEN api ELSE view[n]
          BY <3>1 DEF Crash, TypeOK, StoreOK
        <4> QED BY <1>1, <1>2, <4>1, ReadBacked
      <3>2. CASE ~Crash(m)
        BY <1>5, <1>7, <3>2 DEF Misfortune, FailedCall, LostReply, IgnoredError, k8sVars
      <3> QED BY <3>1, <3>2
    <2>2. WorkerBacked(m)'
      <3>1. CASE Idle(m)
        BY <3>1, IdleBacked
      <3>2. CASE ~Idle(m)
        <4>1. /\ pc[m] \in {"info", "delete"} /\ UNCHANGED loc
              /\ Goto(m, IF pc[m] = "info" THEN Publish(obj[m].spec) ELSE AfterCleanup(obj[m]))
          BY <1>7, <3>2 DEF Misfortune, FailedCall, LostReply, IgnoredError, Crash, Fail, Return
        <4>2. /\ pc[m] # "idle" /\ key[m] \in Clusters
              /\ obj[m].spec \in SpecChoices /\ loc[m].ip \in IPs \cup {None}
          BY <4>1 DEF TypeOK, WorkOK, CRs, Locals
        <4>3. Publish(obj[m].spec) # "release" /\ AfterCleanup(obj[m]) # "release"
          BY <4>2 DEF Publish, AfterCleanup, NoRelease
        <4>4. Backs(holder', key[m], loc'[m])
          <5>1. Backs(holder, key[m], loc[m])
            BY <4>2 DEF AllBacked, WorkerBacked
          <5> QED BY <1>1, <4>1, <4>2, <5>1, BacksStand
        <4> QED BY <1>1, <4>1, <4>2, <4>3, <4>4, GotoBacked DEF AllBacked
      <3> QED BY <3>1, <3>2
    <2> QED BY <1>4, <1>7, <2>1, <2>2 DEF AllBacked
  <1>8. ASSUME NEW m \in Managers, NEW c \in Clusters, Start(m, c) PROVE AllBacked'
    <2> DEFINE cr == view[m]["cr"][c]
    <2>1. StoreBacked'
      BY <1>5, <1>8 DEF Start
    <2>2. CASE UNCHANGED <<pc, key, obj, loc>>
      BY <1>3, <2>1, <2>2 DEF SameWorker, AllBacked
    <2>3. CASE ~UNCHANGED <<pc, key, obj, loc>>
      <3>1. /\ loc' = [loc EXCEPT ![m] = [loc[m] EXCEPT !.ready = cr.ready]]
            /\ obj'[m] = cr /\ key'[m] = c /\ cr # None /\ holder' = holder
            /\ pc'[m] \in {"finalizer", "ensure", "strip", "delete"}
            /\ pc[m] = "idle"
        BY <1>8, <2>3 DEF Start, FirstStep, TypeOK, WorkOK, poolVars
      <3>2. loc[m] = NoLocals /\ loc[m] \in Locals
        BY <3>1 DEF LocalsFollow, Follows, TypeOK, WorkOK
      <3>3. loc'[m].ip = None /\ loc'[m].lb = {}
        BY <3>1, <3>2 DEF NoLocals, Locals, TypeOK, WorkOK
      <3>4. Backs(holder, c, cr)
        <4>1. "cr" \in Kinds
          BY DEF Kinds
        <4>2. Fine(holder, "cr", c, cr)
          BY <1>2, <4>1 DEF StoreBacked
        <4> QED BY <3>1, <4>2 DEF Fine
      <3>5. WorkerBacked(m)'
        BY <3>1, <3>3, <3>4 DEF WorkerBacked, Backs
      <3> QED BY <1>4, <1>8, <2>1, <3>5 DEF AllBacked
    <2> QED BY <2>2, <2>3
  <1>9. ASSUME NEW m \in Managers, NEW K \in Informers, Deliver(m, K) PROVE AllBacked'
    <2>1. /\ api' = api /\ \A n \in Managers : SameWorker(n)
          /\ \A n \in Managers : view'[n] =
                IF n = m THEN [k \in Kinds |-> IF k \in K THEN api[k] ELSE view[m][k]] ELSE view[n]
      BY <1>9 DEF Deliver, SameWorker, TypeOK, StoreOK
    <2>2. ASSUME NEW n \in Managers, NEW k \in Kinds PROVE view'[n][k] \in {api[k], view[n][k]}
      <3>1. CASE n = m
        BY <2>1, <3>1
      <3>2. CASE n # m
        BY <2>1, <3>2
      <3> QED BY <3>1, <3>2
    <2>3. \A n \in Managers, k \in Kinds, c \in Clusters :
             view'[n][k][c] \in {api[k][c], view[n][k][c]}
      BY <2>2
    <2>4. StoreBacked'
      BY <1>1, <1>2, <2>1, <2>3, ReadBacked
    <2> QED BY <1>3, <2>1, <2>4 DEF AllBacked
  <1>10. ASSUME NEW c \in Clusters, Environment(c) PROVE AllBacked'
    <2>1. PICK k \in Kinds : \E new \in Objects(k) :
             EnvWrite(k, c, new) /\ Fine(holder, k, c, new)
      BY <1>2, <1>10, EnvironmentBacked
    <2>2. view' = view /\ \A n \in Managers : SameWorker(n)
      BY <2>1 DEF EnvWrite, workVars, SameWorker
    <2>3. StoreBacked'
      BY <1>1, <1>2, <2>1, <2>2, WriteBacked DEF EnvWrite
    <2> QED BY <1>3, <2>2, <2>3 DEF AllBacked
  <1>11. CASE UNCHANGED vars \/ \E m \in Managers : Resync(m)
    <2>1. api' = api /\ view' = view /\ \A n \in Managers : SameWorker(n)
      BY <1>11 DEF vars, k8sVars, workVars, Resync, SameWorker
    <2> QED BY <1>3, <1>5, <2>1 DEF AllBacked
  <1> QED BY <1>6, <1>7, <1>8, <1>9, <1>10, <1>11 DEF Next

\* An empty store is backed.
LEMMA InitBacked == Init => AllBacked
  <1> SUFFICES ASSUME Init PROVE AllBacked
    OBVIOUS
  <1>1. ASSUME NEW k \in Kinds, NEW c \in Clusters
        PROVE  Fine(holder, k, c, api[k][c]) /\ \A m \in Managers : view[m] = api
    BY DEF Init, Fine
  <1>2. StoreBacked
    BY <1>1 DEF StoreBacked
  <1> QED BY <1>2 DEF Init, AllBacked, WorkerBacked

-----------------------------------------------------------------------------
\* Without releases everything stays backed in every behaviour.
LEMMA AlwaysBacked == NoRelease => (Spec => []AllBacked)
  <1> SUFFICES ASSUME NoRelease PROVE Spec => []AllBacked
    OBVIOUS
  <1>1. TypeOK /\ LocalsFollow /\ AllBacked /\ [Next]_vars => AllBacked'
    BY NextBacked
  <1> QED BY <1>1, InitBacked, TypeCorrect, AlwaysFollows, PTL DEF Spec

(***************************************************************************)
(* Any number of managers, whatever the listing reports: an IP that a      *)
(* status, a rendered or an enriched Secret shows is assigned to that very *)
(* cluster, as long as no CR asks for release on delete.                   *)
(***************************************************************************)
THEOREM PublishedHeld ==
    ASSUME NoRelease
    PROVE  Spec => []PublishedIsHeld
  <1>1. StoreBacked => PublishedIsHeld
    <2> SUFFICES ASSUME StoreBacked, NEW c \in Clusters
                 PROVE  /\ api["cr"][c] # None => Backed(c, api["cr"][c].ip)
                        /\ api["argo"][c] # None => Backed(c, api["argo"][c].ip)
                        /\ api["foreign"][c] \notin {None, Bare}
                              => Backed(c, api["foreign"][c].ip)
      BY DEF PublishedIsHeld
    <2>1. \A k \in {"cr", "argo", "foreign"} : Fine(holder, k, c, api[k][c])
      BY DEF StoreBacked, Kinds
    <2> QED BY <2>1 DEF Fine, Backs, Backed
  <1>2. AllBacked => PublishedIsHeld
    BY <1>1 DEF AllBacked
  <1> QED BY <1>2, AlwaysBacked, PTL

(***************************************************************************)
(* Under the same condition no two clusters in service have an address in  *)
(* common, be it a primary address or part of a reserved range.            *)
(***************************************************************************)
THEOREM AddressesExclusive ==
    ASSUME NoRelease
    PROVE  Spec => []Exclusive
  <1>1. TypeOK /\ StoreBacked => Exclusive
    <2> SUFFICES ASSUME TypeOK, StoreBacked PROVE Exclusive
      OBVIOUS
    <2>1. ASSUME NEW c \in Clusters, NEW i \in Addresses(c) PROVE i \in IPs /\ holder[i] = c
      <3>1. api["cr"][c] # None /\ i \in IPs /\ (i = api["cr"][c].ip \/ i \in api["cr"][c].lb)
        BY DEF Addresses
      <3>2. Backs(holder, c, api["cr"][c])
        <4>1. "cr" \in Kinds
          BY DEF Kinds
        <4>2. Fine(holder, "cr", c, api["cr"][c])
          BY <4>1 DEF StoreBacked
        <4> QED BY <3>1, <4>2 DEF Fine
      <3> QED BY <3>1, <3>2, NoneAssumption DEF Backs
    <2> QED BY <2>1 DEF Exclusive
  <1>2. TypeOK /\ AllBacked => Exclusive
    BY <1>1 DEF AllBacked
  <1> QED BY <1>2, AlwaysBacked, TypeCorrect, PTL

-----------------------------------------------------------------------------
(***************************************************************************)
(* The controller implements Reservation, step by step.                    *)
(***************************************************************************)
\* What a CR shows of its address.
ShownOf(cr) == IF cr = None THEN None ELSE IF cr.deleting THEN None ELSE cr.ip

\* A write to a CR changes what it shows and nothing else.
LEMMA ShownWrite ==
    ASSUME TypeOK, NEW writer, NEW k \in Kinds, NEW c \in Clusters,
           NEW new \in Objects(k), Write(writer, k, c, new)
    PROVE  Shown' = IF k = "cr" THEN [Shown EXCEPT ![c] = ShownOf(new)] ELSE Shown
  <1>1. "cr" \in Kinds
    BY DEF Kinds
  <1>2. ASSUME NEW d \in Clusters
        PROVE  api'["cr"][d] = IF k = "cr" /\ d = c THEN new ELSE api["cr"][d]
    BY <1>1, WriteStores
  <1>3. Shown = [d \in Clusters |-> ShownOf(api["cr"][d])]
        /\ Shown' = [d \in Clusters |-> ShownOf(api'["cr"][d])]
    BY DEF Shown, ShownOf
  <1>4. ASSUME NEW d \in Clusters
        PROVE  ShownOf(api'["cr"][d])
                  = IF k = "cr" /\ d = c THEN ShownOf(new) ELSE ShownOf(api["cr"][d])
    BY <1>2
  <1> HIDE DEF Shown
  <1>5. CASE k = "cr"
    BY <1>3, <1>4, <1>5
  <1>6. CASE k # "cr"
    BY <1>3, <1>4, <1>6
  <1> QED BY <1>5, <1>6

\* One step of the pool and of the statuses.
AbstractStep == [Reserved!Next]_<<holder, Shown>>

\* A CR that goes, or is deleted, hides its address.
LEMMA HideStep ==
    ASSUME NEW c \in Clusters, holder' = holder, Shown' = [Shown EXCEPT ![c] = None]
    PROVE  AbstractStep
  <1>1. Reserved!Hide(c)
    BY DEF Reserved!Hide
  <1> QED BY <1>1 DEF AbstractStep, Reserved!Next

\* A status that names an address of its cluster shows it.
LEMMA ShowStep ==
    ASSUME NEW c \in Clusters, NEW i \in IPs, holder' = holder, holder[i] = c,
           Shown[c] = None, Shown' = [Shown EXCEPT ![c] = i]
    PROVE  AbstractStep
  <1>1. Reserved!Show(c, i)
    BY DEF Reserved!Show
  <1> QED BY <1>1 DEF AbstractStep, Reserved!Next

\* A reservation for a cluster that holds nothing takes free addresses.
LEMMA TakeStep ==
    ASSUME NEW c \in Clusters, Held(c) = {}, NEW s, NEW first \in IPs,
           NEW others \in SUBSET IPs, Assign(c, s, first, others), Shown' = Shown
    PROVE  AbstractStep
  <1>1. PICK S \in SUBSET IPs : S = others \cup {first}
    OBVIOUS
  <1>2. Reserved!Take(c, S)
    BY <1>1 DEF Reserved!Take, Assign, Held, Free
  <1> QED BY <1>2 DEF AbstractStep, Reserved!Next

\* A CR comes to show nothing, the address it has shown, or, when it showed
\* nothing, one it holds.
LEMMA ChangeStep ==
    ASSUME NEW c \in Clusters, NEW v \in IPs \cup {None}, holder' = holder,
           Shown' = [Shown EXCEPT ![c] = v],
           v # None => holder[v] = c,
           Shown[c] # None => v \in {None, Shown[c]}
    PROVE  AbstractStep
  <1>1. CASE v = None
    BY <1>1, HideStep
  <1>2. CASE v # None /\ Shown[c] = None
    BY <1>2, ShowStep
  <1>3. CASE v # None /\ Shown[c] # None
    <2>1. Shown' = Shown
      BY <1>3 DEF Shown
    <2> QED BY <2>1 DEF AbstractStep
  <1> QED BY <1>1, <1>2, <1>3

\* What a CR of a well-typed store shows.
LEMMA ShownType ==
    ASSUME NEW cr \in Objects("cr")
    PROVE  /\ ShownOf(cr) \in IPs \cup {None}
           /\ ShownOf(cr) # None => cr \in CRs /\ ~cr.deleting /\ ShownOf(cr) = cr.ip
  BY DEF Objects, CRs, ShownOf

\* A step that writes a CR, seen from the pool.
LEMMA CRStep ==
    ASSUME TypeOK, NEW writer, NEW c \in Clusters, NEW new \in Objects("cr"),
           Write(writer, "cr", c, new), holder' = holder,
           Fine(holder, "cr", c, new),
           ShownOf(api["cr"][c]) # None => ShownOf(new) \in {None, ShownOf(api["cr"][c])}
    PROVE  AbstractStep
  <1>1. "cr" \in Kinds
    BY DEF Kinds
  <1>2. Shown' = [Shown EXCEPT ![c] = ShownOf(new)]
    BY <1>1, ShownWrite
  <1>3. Shown[c] = ShownOf(api["cr"][c])
    BY DEF Shown, ShownOf
  <1>4. ShownOf(new) # None => holder[ShownOf(new)] = c
    BY DEF Fine, Backs, ShownOf
  <1>5. ShownOf(new) \in IPs \cup {None}
    BY ShownType
  <1> QED BY <1>2, <1>3, <1>4, <1>5, ChangeStep

\* The steps of a worker that write its CR.
LEMMA StatusRefines ==
    ASSUME TypeOK, Coherent, LocalsFollow, AllBacked, NEW m \in Managers,
           AddFinalizer(m) \/ UpdateStatus(m) \/ RemoveFinalizer(m)
    PROVE  AbstractStep
  <1>1. /\ key[m] \in Clusters /\ obj[m] \in CRs /\ loc[m] \in Locals
        /\ pc[m] # "idle" /\ holder' = holder
    BY DEF AddFinalizer, UpdateStatus, RemoveFinalizer, TypeOK, WorkOK, poolVars
  <1>2. Objects("cr") = CRs \cup {None} /\ "cr" \in Kinds
    BY DEF Objects, Kinds
  <1>3. Reconcile(m)
    BY DEF Reconcile
  <1>4. ASSUME NoWrite PROVE AbstractStep
    BY <1>1, <1>4 DEF NoWrite, AbstractStep, Shown
  <1>5. ASSUME fresh[m] PROVE obj[m] = api["cr"][key[m]]
    BY <1>1, <1>5 DEF Coherent, CopyCurrent
  <1>6. \A new \in Result(m, "cr") : Fine(holder, "cr", key[m], new)
    BY <1>2, <1>3, ResultBacked DEF AllBacked
  <1>7. ASSUME NEW new \in Objects("cr"), new \in Result(m, "cr"), fresh[m],
               Write(m, "cr", key[m], new),
               ShownOf(obj[m]) # None => ShownOf(new) \in {None, ShownOf(obj[m])}
        PROVE  AbstractStep
    BY <1>1, <1>5, <1>6, <1>7, CRStep
  <1>8. Result(m, "cr") = {[obj[m] EXCEPT !.fin = TRUE], NewStatus(m), None}
    BY DEF Result
  <1>9. CASE AddFinalizer(m) /\ fresh[m]
    <2> DEFINE new == [obj[m] EXCEPT !.fin = TRUE]
    <2>1. new \in CRs /\ new.ip = obj[m].ip /\ new.deleting = obj[m].deleting
      BY <1>1 DEF CRs
    <2>2. Write(m, "cr", key[m], new) /\ new \in Result(m, "cr")
      BY <1>8, <1>9 DEF AddFinalizer
    <2>3. ShownOf(obj[m]) # None => ShownOf(new) \in {None, ShownOf(obj[m])}
      BY <2>1 DEF ShownOf
    <2> HIDE DEF new
    <2> QED BY <1>2, <1>7, <1>9, <2>1, <2>2, <2>3
  <1>10. CASE UpdateStatus(m) /\ fresh[m]
    <2>1. (IF loc[m].info = "nil" THEN obj[m].info ELSE loc[m].info) \in Infos
      BY <1>1 DEF CRs, Locals
    <2>2. /\ NewStatus(m) \in CRs /\ NewStatus(m).ip = loc[m].ip
          /\ NewStatus(m).deleting = obj[m].deleting
      BY <1>1, <2>1 DEF NewStatus, CRs, Locals
    <2>3. IF RegistrationOnly(obj[m].spec) THEN loc[m].ip = None
          ELSE obj[m].ip # None => loc[m].ip = obj[m].ip
      BY <1>10 DEF UpdateStatus, LocalsFollow, Follows, Rendering
    <2>4. ShownOf(obj[m]) # None => ShownOf(NewStatus(m)) \in {None, ShownOf(obj[m])}
      BY <2>2, <2>3 DEF ShownOf
    <2> QED BY <1>2, <1>7, <1>8, <1>10, <2>2, <2>4 DEF UpdateStatus
  <1>11. CASE RemoveFinalizer(m) /\ fresh[m]
    BY <1>2, <1>7, <1>8, <1>11 DEF RemoveFinalizer, ShownOf
  <1> QED BY <1>4, <1>9, <1>10, <1>11 DEF AddFinalizer, UpdateStatus, RemoveFinalizer

\* The steps of the environment: users create, edit and delete CRs.
LEMMA EnvironmentRefines ==
    ASSUME TypeOK, AllBacked, NEW c \in Clusters, Environment(c)
    PROVE  AbstractStep
  <1>1. Objects("cr") = CRs \cup {None} /\ Kinds = {"cr", "argo", "foreign", "source"}
    BY DEF Objects, Kinds
  <1>2. ASSUME api["cr"][c] # None PROVE api["cr"][c] \in CRs /\ Backs(holder, c, api["cr"][c])
    BY <1>1, <1>2, StoreObjects DEF AllBacked, StoreBacked, Fine
  <1>3. ASSUME NEW new \in CRs \cup {None}, EnvWrite("cr", c, new),
               Fine(holder, "cr", c, new),
               ShownOf(api["cr"][c]) # None => ShownOf(new) \in {None, ShownOf(api["cr"][c])}
        PROVE  AbstractStep
    BY <1>1, <1>3, CRStep DEF EnvWrite, poolVars
  <1>4. CASE CreateCR(c)
    <2>1. PICK s \in SpecChoices : EnvWrite("cr", c, NewCR(births[c] + 1, s))
      BY <1>4 DEF CreateCR
    <2>2. NewCR(births[c] + 1, s) \in CRs
      BY DEF NewCR, CRs, Ranges, Infos, Conds, TypeOK, BudgetOK
    <2>3. Fine(holder, "cr", c, NewCR(births[c] + 1, s))
          /\ ShownOf(NewCR(births[c] + 1, s)) = None
      BY DEF Fine, Backs, NewCR, ShownOf
    <2> QED BY <1>3, <2>1, <2>2, <2>3
  <1>5. CASE EditCR(c)
    <2>1. PICK s \in SpecChoices : EnvWrite("cr", c, [api["cr"][c] EXCEPT !.spec = s])
      BY <1>5 DEF EditCR
    <2> DEFINE new == [api["cr"][c] EXCEPT !.spec = s]
    <2>2. /\ new \in CRs /\ new.ip = api["cr"][c].ip /\ new.lb = api["cr"][c].lb
          /\ new.deleting = api["cr"][c].deleting
      BY <1>2, <1>5 DEF EditCR, CRs
    <2>3. Fine(holder, "cr", c, new)
      BY <1>2, <1>5, <2>2 DEF EditCR, Fine, Backs
    <2>4. ShownOf(api["cr"][c]) # None => ShownOf(new) \in {None, ShownOf(api["cr"][c])}
      BY <2>2 DEF ShownOf
    <2> HIDE DEF new
    <2> QED BY <1>3, <2>1, <2>2, <2>3, <2>4 DEF new
  <1>6. CASE DeleteCR(c)
    <2> DEFINE new == [api["cr"][c] EXCEPT !.deleting = TRUE]
    <2>1. EnvWrite("cr", c, new) \/ EnvWrite("cr", c, None)
      BY <1>6 DEF DeleteCR
    <2>2. /\ new \in CRs /\ new.ip = api["cr"][c].ip /\ new.lb = api["cr"][c].lb
          /\ new.deleting
      BY <1>2, <1>6 DEF DeleteCR, CRs
    <2>3. Fine(holder, "cr", c, new) /\ Fine(holder, "cr", c, None)
      BY <1>2, <1>6, <2>2 DEF DeleteCR, Fine, Backs
    <2>4. ShownOf(new) = None /\ ShownOf(None) = None
      BY <2>2 DEF ShownOf
    <2> HIDE DEF new
    <2> QED BY <1>3, <2>1, <2>2, <2>3, <2>4
  <1>7. CASE ~(CreateCR(c) \/ EditCR(c) \/ DeleteCR(c))
    <2>1. PICK k \in Kinds \ {"cr"} : \E new \in Objects(k) : EnvWrite(k, c, new)
      <3>1. api["source"][c] + 1 \in Objects("source")
        BY <1>1, StoreObjects DEF Objects
      <3>2. {None, Bare} \subseteq Objects("foreign") /\ None \in Objects("argo")
        BY DEF Objects
      <3>3. CASE RotateKubeconfig(c)
        BY <1>1, <3>1, <3>3 DEF RotateKubeconfig
      <3>4. CASE ToggleForeign(c)
        BY <1>1, <3>2, <3>4 DEF ToggleForeign
      <3>5. CASE LoseArgoSecret(c) \/ CollectGarbage(c)
        BY <1>1, <3>2, <3>5 DEF LoseArgoSecret, CollectGarbage
      <3> QED BY <1>7, <3>3, <3>4, <3>5 DEF Environment
    <2>2. Shown' = Shown
      BY <2>1, ShownWrite DEF EnvWrite
    <2> QED BY <2>1, <2>2 DEF EnvWrite, poolVars, AbstractStep
  <1> QED BY <1>4, <1>5, <1>6, <1>7

\* Every step of the controller is a step of Reservation, or none.
LEMMA NextRefines ==
    ASSUME TypeOK, Coherent, LocalsFollow, NothingHeld, AllBacked, [Next]_vars
    PROVE  AbstractStep
  <1>1. ASSUME holder' = holder, api' = api PROVE AbstractStep
    BY <1>1 DEF AbstractStep, Shown
  <1>2. ASSUME NEW m \in Managers, NEW first \in IPs, NEW others \in SUBSET IPs,
               pc[m] = "reserve", api' = api,
               Assign(key[m], obj[m].spec, first, others)
        PROVE  AbstractStep
    <2>1. key[m] \in Clusters /\ Held(key[m]) = {} /\ Shown' = Shown
      BY <1>2 DEF NothingHeld, TypeOK, WorkOK, Shown
    <2> QED BY <1>2, <2>1, TakeStep
  <1>3. ASSUME NEW m \in Managers, Reconcile(m) PROVE AbstractStep
    <2>1. CASE AddFinalizer(m) \/ UpdateStatus(m) \/ RemoveFinalizer(m)
      BY <2>1, StatusRefines
    <2>2. CASE Reserve(m)
      BY <1>1, <1>2, <2>2 DEF Reserve, k8sVars, poolVars
    <2>3. CASE EnsureReservation(m) \/ CheckDrift(m) \/ UpdateIP(m) \/ GetClusterInfo(m)
               \/ LoadKubeconfig(m)
      BY <1>1, <2>3 DEF EnsureReservation, CheckDrift, UpdateIP, SetDNS, GetClusterInfo,
         LoadKubeconfig, k8sVars, poolVars
    <2>4. CASE \/ UpsertArgoSecret(m) \/ DeleteArgoSecret(m)
               \/ EnrichExistingSecret(m) \/ StripEnrichedMetadata(m)
      <3>1. key[m] \in Clusters /\ obj[m] \in CRs /\ loc[m] \in Locals
        BY <1>3, ReconcileResult
      <3>2. /\ Desired(m) \in Objects("argo") /\ None \in Objects("argo")
            /\ Bare \in Objects("foreign") /\ {"argo", "foreign"} \subseteq Kinds \ {"cr"}
            /\ [ip |-> loc[m].ip, lb |-> loc[m].lb, info |-> loc[m].info] \in Objects("foreign")
        <4>1. /\ Desired(m) \in ArgoSecrets
              /\ [ip |-> loc[m].ip, lb |-> loc[m].lb, info |-> loc[m].info] \in Metadata
          BY <3>1 DEF Desired, ArgoSecrets, Metadata, Locals, CRs
        <4> QED BY <4>1 DEF Objects, Kinds
      <3>3. /\ holder' = holder
            /\ \/ NoWrite
               \/ \E k \in Kinds \ {"cr"} : \E new \in Objects(k) : Write(m, k, key[m], new)
        BY <2>4, <3>2 DEF UpsertArgoSecret, DeleteArgoSecret, EnrichExistingSecret,
           StripEnrichedMetadata, poolVars
      <3>4. Shown' = Shown
        BY <3>1, <3>3, ShownWrite DEF NoWrite, Shown
      <3> QED BY <3>3, <3>4 DEF AbstractStep
    <2>5. ~ReleaseIP(m)
      BY DEF ReleaseIP, AllBacked, WorkerBacked
    <2> QED BY <1>3, <2>1, <2>2, <2>3, <2>4, <2>5 DEF Reconcile
  <1>4. ASSUME NEW m \in Managers, Misfortune(m) PROVE AbstractStep
    <2>1. CASE LostReply(m)
      <3>1. pc[m] # "release"
        BY DEF AllBacked, WorkerBacked
      <3> QED BY <1>1, <1>2, <2>1, <3>1 DEF LostReply, SetDNS, k8sVars
    <2>2. CASE FailedCall(m) \/ IgnoredError(m) \/ Crash(m)
      BY <1>1, <2>2 DEF FailedCall, IgnoredError, Crash, k8sVars, poolVars
    <2> QED BY <1>4, <2>1, <2>2 DEF Misfortune
  <1>5. ASSUME NEW c \in Clusters, Environment(c) PROVE AbstractStep
    BY <1>5, EnvironmentRefines
  <1>6. CASE \/ UNCHANGED vars
             \/ \E m \in Managers, c \in Clusters : Start(m, c)
             \/ \E m \in Managers, K \in Informers : Deliver(m, K)
             \/ \E m \in Managers : Resync(m)
    BY <1>1, <1>6 DEF vars, Start, Deliver, Resync, k8sVars, poolVars
  <1> QED BY <1>3, <1>4, <1>5, <1>6 DEF Next

(***************************************************************************)
(* One manager, whose listing names the clusters as they are and whose CRs *)
(* ask for no release, implements Reservation: it takes addresses only for *)
(* a name that holds none, shows only what is held, and takes none back.   *)
(***************************************************************************)
THEOREM RefinesReservation ==
    ASSUME SingleManager, Mangles = FALSE, NoRelease
    PROVE  Spec => ImplementsReservation
  <1>1. Init => Reserved!Init
    BY NoneAssumption DEF Init, Reserved!Init, Shown, Kinds
  <1>2. Init => NothingHeld
    BY DEF Init, NothingHeld
  <1>3. TypeOK /\ NothingHeld /\ [Next]_vars => NothingHeld'
    BY ReserveStep
  <1>4. TypeOK /\ Coherent /\ LocalsFollow /\ NothingHeld /\ AllBacked /\ [Next]_vars
           => [Reserved!Next]_<<holder, Shown>>
    BY NextRefines DEF AbstractStep
  <1> QED BY <1>1, <1>2, <1>3, <1>4, TypeCorrect, CachesCoherent, AlwaysFollows,
             AlwaysBacked, PTL DEF Spec, ImplementsReservation, Reserved!Spec
====
