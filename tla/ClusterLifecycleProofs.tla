---------------------- MODULE ClusterLifecycleProofs -----------------------
(***************************************************************************)
(* From the finalizer to the last cleanup: what one manager guarantees     *)
(* about the life of a ClusterbookCluster, the Secrets that depend on it   *)
(* and the revisions it renders, for every number of names and addresses   *)
(* and every bound.                                                        *)
(***************************************************************************)
EXTENDS ClusterReconcilerProofs

\* The steps that work for a CR in service, and those that take it down.
Working    == {"ensure", "reserve", "drift", "update", "info", "render",
               "upsert", "enrich", "status"}
Finalizing == {"delete", "strip", "release", "unfinalize"}

(***************************************************************************)
(* The discipline of the finalizer.  A CR without it has recorded nothing; *)
(* a copy that a cache or a worker has of a CR with it, not yet deleted,   *)
(* is of a CR that still is there; and while the worker finalizes its      *)
(* current copy no cache shows another one.                                *)
(***************************************************************************)
Unadopted ==
    \A c \in Clusters :
       LET cr == api["cr"][c] IN
       cr # None => (cr.deleting => cr.fin) /\ (~cr.fin => cr.ip = None)

Adopted(c) == api["cr"][c] # None /\ api["cr"][c].fin

Disciplined(m) ==
    /\ \A c \in Clusters :
          LET cr == view[m]["cr"][c] IN
          cr # None /\ cr.fin /\ ~cr.deleting => Adopted(c)
    /\ pc[m] = "finalizer" => ~obj[m].fin /\ ~obj[m].deleting
    /\ pc[m] \in Working => obj[m].fin /\ Adopted(key[m])
    /\ pc[m] \in Finalizing =>
          /\ obj[m].fin /\ obj[m].deleting
          /\ fresh[m] => view[m]["cr"][key[m]] = obj[m]

Discipline == Unadopted /\ \A m \in Managers : Disciplined(m)

\* What is to be released has been before the finalizer goes.
ReleaseDone ==
    \A m \in Managers :
       pc[m] = "unfinalize" /\ AfterCleanup(obj[m]) = "release"
          => holder[obj[m].ip] # key[m]

\* The rendered revision, the one about to be rendered, the one in the cache
\* and the one in the kubeconfig Secret are in that order.
RevisionsOrdered ==
    \A m \in Managers :
       /\ \A c \in Clusters :
             /\ view[m]["source"][c] <= api["source"][c]
             /\ api["argo"][c] # None => api["argo"][c].rev <= view[m]["source"][c]
       /\ pc[m] = "upsert" =>
             /\ loc[m].rev # 0 /\ loc[m].rev <= view[m]["source"][key[m]]
             /\ api["argo"][key[m]] # None => api["argo"][key[m]].rev <= loc[m].rev

\* Every CR enriches a Secret.
EnrichOnly == \A s \in SpecChoices : s.enrich

\* Metadata is there only while its CR has the finalizer, the cache knows of
\* the Secret that has it, and it is stripped before anything else goes.
Marked(c) == api["foreign"][c] \notin {None, Bare}

EnrichTracked ==
    /\ \A c \in Clusters : Marked(c) => Adopted(c)
    /\ \A m \in Managers :
          /\ pc[m] # "delete"
          /\ \A c \in Clusters : Marked(c) => view[m]["foreign"][c] # None
          /\ pc[m] \in {"release", "unfinalize"} => ~Marked(key[m])

-----------------------------------------------------------------------------
(***************************************************************************)
(* What a step of a worker does to its place in Reconcile and to the API   *)
(* server.                                                                 *)
(***************************************************************************)
\* The worker adds the finalizer, works on, cleans up or releases.
Adopts(m) ==
    /\ AddFinalizer(m) /\ fresh[m]
    /\ pc'[m] = "ensure" /\ obj'[m] = [obj[m] EXCEPT !.fin = TRUE]

WorksOn(m) ==
    /\ pc[m] \in Working /\ pc'[m] \in Working /\ obj'[m] = obj[m]
    /\ pc'[m] = "upsert" => LoadKubeconfig(m) /\ ~Fail(m)

CleansUp(m) ==
    /\ pc[m] \in {"delete", "strip"} /\ pc'[m] = AfterCleanup(obj[m]) /\ obj'[m] = obj[m]
    /\ pc[m] = "strip" => StripEnrichedMetadata(m) /\ ~Fail(m)

Releases(m) ==
    ReleaseIP(m) /\ pc'[m] = "unfinalize" /\ obj'[m] = obj[m]

\* A worker that does not stop goes one of these four ways.
LEMMA WorkerMoves ==
    ASSUME TypeOK, NEW m \in Managers, Reconcile(m) \/ Misfortune(m)
    PROVE  \/ Idle(m)
           \/ key'[m] = key[m] /\ (Adopts(m) \/ WorksOn(m) \/ CleansUp(m) \/ Releases(m))
  <1>1. ASSUME Fail(m) \/ Return(m) PROVE Idle(m)
    BY <1>1 DEF Fail, Return
  <1>2. ASSUME NEW step, Goto(m, step)
        PROVE  pc'[m] = step /\ key'[m] = key[m] /\ obj'[m] = obj[m]
    BY <1>2 DEF Goto, TypeOK, WorkOK
  <1>3. \A s : Publish(s) \in {"enrich", "render"}
    BY DEF Publish
  <1>4. CASE AddFinalizer(m)
    BY <1>1, <1>4 DEF AddFinalizer, Adopts, TypeOK, WorkOK
  <1>5. CASE EnsureReservation(m) \/ Reserve(m) \/ CheckDrift(m) \/ UpdateIP(m)
             \/ GetClusterInfo(m)
    <2>1. Idle(m) \/ \E step \in Working \ {"upsert"} : Goto(m, step)
      BY <1>1, <1>3, <1>5 DEF EnsureReservation, Reserve, CheckDrift, UpdateIP,
         GetClusterInfo, Working
    <2> QED BY <1>2, <1>5, <2>1 DEF EnsureReservation, Reserve, CheckDrift, UpdateIP,
         GetClusterInfo, Working, WorksOn
  <1>6. CASE LoadKubeconfig(m)
    <2>1. CASE ~Fail(m)
      <3>1. Goto(m, "upsert") /\ pc[m] = "render"
        BY <1>6, <2>1 DEF LoadKubeconfig
      <3> QED BY <1>2, <1>6, <2>1, <3>1 DEF Working, WorksOn
    <2> QED BY <1>1, <2>1
  <1>7. CASE UpsertArgoSecret(m) \/ EnrichExistingSecret(m)
    <2>1. pc[m] \in Working /\ (Fail(m) \/ Goto(m, "status"))
      BY <1>7 DEF UpsertArgoSecret, EnrichExistingSecret, Published, Working
    <2> QED BY <1>1, <1>2, <2>1 DEF Working, WorksOn
  <1>8. CASE DeleteArgoSecret(m)
    BY <1>2, <1>8 DEF DeleteArgoSecret, CleansUp
  <1>9. CASE StripEnrichedMetadata(m)
    <2>1. pc[m] = "strip" /\ (Fail(m) \/ Goto(m, AfterCleanup(obj[m])))
      BY <1>9 DEF StripEnrichedMetadata
    <2> QED BY <1>1, <1>2, <1>9, <2>1 DEF CleansUp
  <1>10. CASE ReleaseIP(m)
    BY <1>2, <1>10 DEF ReleaseIP, Releases
  <1>11. CASE UpdateStatus(m) \/ RemoveFinalizer(m)
    BY <1>1, <1>11 DEF UpdateStatus, RemoveFinalizer
  <1>12. CASE Misfortune(m)
    <2>1. CASE pc[m] = "info" /\ Goto(m, Publish(obj[m].spec))
      BY <1>2, <1>3, <2>1 DEF Working, WorksOn
    <2>2. CASE pc[m] = "delete" /\ Goto(m, AfterCleanup(obj[m]))
      BY <1>2, <2>2 DEF CleansUp
    <2> QED BY <1>1, <1>12, <2>1, <2>2 DEF Misfortune, FailedCall, LostReply, IgnoredError, Crash
  <1> QED BY <1>4, <1>5, <1>6, <1>7, <1>8, <1>9, <1>10, <1>11, <1>12 DEF Reconcile

\* What Reconcile changes at the API server, object by object.
CRChange(m, c) ==
    /\ c = key[m] /\ fresh[m]
    /\ \/ AddFinalizer(m) /\ api'["cr"][c] = [obj[m] EXCEPT !.fin = TRUE]
       \/ UpdateStatus(m) /\ api'["cr"][c] = NewStatus(m)
       \/ RemoveFinalizer(m) /\ api'["cr"][c] = None

ArgoChange(m, c) ==
    /\ c = key[m]
    /\ \/ UpsertArgoSecret(m) /\ api'["argo"][c] = Desired(m)
       \/ DeleteArgoSecret(m) /\ api'["argo"][c] = None

ForeignChange(m, c) ==
    /\ c = key[m] /\ view[m]["foreign"][c] # None
    /\ \/ EnrichExistingSecret(m)
       \/ StripEnrichedMetadata(m) /\ api'["foreign"][c] = Bare

\* A step of Reconcile changes each object in one of the ways said above.
LEMMA StepWrites ==
    ASSUME TypeOK, NEW m \in Managers, Reconcile(m), NEW c \in Clusters
    PROVE  /\ api'["cr"][c] = api["cr"][c] \/ CRChange(m, c)
           /\ api'["argo"][c] = api["argo"][c] \/ ArgoChange(m, c)
           /\ api'["foreign"][c] = api["foreign"][c] \/ ForeignChange(m, c)
           /\ api'["source"][c] = api["source"][c]
  <1>1. /\ Objects("cr") = CRs \cup {None}
        /\ Objects("argo") = ArgoSecrets \cup {None}
        /\ Objects("foreign") = Metadata \cup {None, Bare}
        /\ Kinds = {"cr", "argo", "foreign", "source"}
    BY DEF Objects, Kinds
  <1>2. key[m] \in Clusters /\ obj[m] \in CRs /\ loc[m] \in Locals
    BY ReconcileResult
  <1>3. ASSUME NEW k \in Kinds, NEW new \in Objects(k), Write(m, k, key[m], new)
        PROVE  \A j \in Kinds :
                  api'[j][c] = IF j = k /\ c = key[m] THEN new ELSE api[j][c]
    <2>1. PICK d \in Clusters : d = key[m]
      BY <1>2
    <2>2. Write(m, k, d, new)
      BY <1>3, <2>1
    <2>3. ASSUME NEW j \in Kinds
          PROVE  api'[j][c] = IF j = k /\ c = d THEN new ELSE api[j][c]
      BY <2>2, WriteStores, Z3
    <2> QED BY <2>1, <2>3
  <1>4. CASE NoWrite \/ UNCHANGED k8sVars
    BY <1>4 DEF NoWrite, k8sVars
  <1>5. /\ [obj[m] EXCEPT !.fin = TRUE] \in CRs
        /\ NewStatus(m) \in CRs
        /\ Desired(m) \in ArgoSecrets
        /\ [ip |-> loc[m].ip, lb |-> loc[m].lb, info |-> loc[m].info] \in Metadata
    <2>1. (IF loc[m].info = "nil" THEN obj[m].info ELSE loc[m].info) \in Infos
      BY <1>2 DEF CRs, Locals
    <2> QED BY <1>2, <2>1 DEF NewStatus, Desired, CRs, ArgoSecrets, Metadata, Locals
  <1>6. CASE AddFinalizer(m) /\ fresh[m]
    <2>1. Write(m, "cr", key[m], [obj[m] EXCEPT !.fin = TRUE])
      BY <1>6 DEF AddFinalizer
    <2>2. \A j \in Kinds : api'[j][c] =
             IF j = "cr" /\ c = key[m] THEN [obj[m] EXCEPT !.fin = TRUE] ELSE api[j][c]
      BY <1>1, <1>3, <1>5, <2>1
    <2> QED BY <1>1, <1>6, <2>2 DEF CRChange
  <1>7. CASE UpdateStatus(m) /\ fresh[m]
    <2>1. Write(m, "cr", key[m], NewStatus(m))
      BY <1>7 DEF UpdateStatus
    <2>2. \A j \in Kinds : api'[j][c] =
             IF j = "cr" /\ c = key[m] THEN NewStatus(m) ELSE api[j][c]
      BY <1>1, <1>3, <1>5, <2>1
    <2> QED BY <1>1, <1>7, <2>2 DEF CRChange
  <1>8. CASE RemoveFinalizer(m) /\ fresh[m]
    <2>1. Write(m, "cr", key[m], None)
      BY <1>8 DEF RemoveFinalizer
    <2>2. \A j \in Kinds : api'[j][c] = IF j = "cr" /\ c = key[m] THEN None ELSE api[j][c]
      BY <1>1, <1>3, <2>1
    <2> QED BY <1>1, <1>8, <2>2 DEF CRChange
  <1>9. CASE (UpsertArgoSecret(m) \/ DeleteArgoSecret(m)) /\ ~NoWrite
    <2>1. PICK new \in Objects("argo") :
             /\ Write(m, "argo", key[m], new)
             /\ \/ UpsertArgoSecret(m) /\ new = Desired(m)
                \/ DeleteArgoSecret(m) /\ new = None
      BY <1>1, <1>5, <1>9 DEF UpsertArgoSecret, DeleteArgoSecret
    <2>2. \A j \in Kinds : api'[j][c] = IF j = "argo" /\ c = key[m] THEN new ELSE api[j][c]
      BY <1>1, <1>3, <2>1
    <2> QED BY <1>1, <2>1, <2>2 DEF ArgoChange
  <1>10. CASE (EnrichExistingSecret(m) \/ StripEnrichedMetadata(m)) /\ ~NoWrite
    <2>1. PICK new \in Objects("foreign") :
             /\ Write(m, "foreign", key[m], new) /\ view[m]["foreign"][key[m]] # None
             /\ EnrichExistingSecret(m) \/ (StripEnrichedMetadata(m) /\ new = Bare)
      BY <1>1, <1>5, <1>10 DEF EnrichExistingSecret, StripEnrichedMetadata
    <2>2. \A j \in Kinds : api'[j][c] = IF j = "foreign" /\ c = key[m] THEN new ELSE api[j][c]
      BY <1>1, <1>3, <2>1
    <2> QED BY <1>1, <2>1, <2>2 DEF ForeignChange
  <1> QED BY <1>4, <1>6, <1>7, <1>8, <1>9, <1>10 DEF Reconcile, AddFinalizer,
       EnsureReservation, Reserve, CheckDrift, UpdateIP, GetClusterInfo, LoadKubeconfig,
       UpdateStatus, ReleaseIP, RemoveFinalizer

\* What users, other controllers and the garbage collector change.
Created(c) ==
    /\ api["cr"][c] = None
    /\ \E u \in Nat, s \in SpecChoices : api'["cr"][c] = NewCR(u, s)

Edited(c) ==
    /\ api["cr"][c] # None
    /\ \E s \in SpecChoices : api'["cr"][c] = [api["cr"][c] EXCEPT !.spec = s]

Deleted(c) ==
    LET cr == api["cr"][c] IN
    /\ cr # None /\ ~cr.deleting
    /\ api'["cr"][c] = IF cr.fin THEN [cr EXCEPT !.deleting = TRUE] ELSE None

\* A step of the environment leaves the workers alone and changes each object
\* in one of these ways.
LEMMA EnvironmentEffect ==
    ASSUME TypeOK, NEW c \in Clusters, Environment(c)
    PROVE  /\ UNCHANGED <<view, pc, key, obj, loc, holder>>
           /\ \A n \in Managers : fresh'[n] => fresh[n]
           /\ \A d \in Clusters :
                 /\ api'["cr"][d] = api["cr"][d] \/ Created(d) \/ Edited(d) \/ Deleted(d)
                 /\ api'["argo"][d] \in {api["argo"][d], None}
                 /\ api'["foreign"][d] \in {api["foreign"][d], None, Bare}
                 /\ api'["source"][d] \in {api["source"][d], api["source"][d] + 1}
  <1>1. /\ Objects("cr") = CRs \cup {None}
        /\ Objects("argo") = ArgoSecrets \cup {None}
        /\ Objects("foreign") = Metadata \cup {None, Bare}
        /\ Objects("source") = Nat
        /\ Kinds = {"cr", "argo", "foreign", "source"}
    BY DEF Objects, Kinds
  <1>2. \A d \in Clusters : api["source"][d] \in Nat
    BY <1>1, StoreObjects
  <1>3. ASSUME api["cr"][c] # None PROVE api["cr"][c] \in CRs
    BY <1>1, <1>3, StoreObjects
  <1>4. PICK k \in Kinds : \E new \in Objects(k) : EnvWrite(k, c, new)
    BY EnvironmentWrites
  <1>5. UNCHANGED <<view, pc, key, obj, loc, holder>>
    BY <1>4 DEF EnvWrite, workVars, poolVars
  <1>6. \A n \in Managers : fresh'[n] => fresh[n]
    BY <1>4 DEF EnvWrite, Write, TypeOK, StoreOK
  <1>7. ASSUME NEW j \in Kinds, NEW x \in Objects(j), EnvWrite(j, c, x), NEW d \in Clusters
        PROVE  \A i \in Kinds : api'[i][d] = IF i = j /\ d = c THEN x ELSE api[i][d]
    <2>1. api = [i \in Kinds |-> api[i]] /\ \A i \in Kinds : api[i] \in [Clusters -> Objects(i)]
      BY DEF TypeOK, StoreOK, IsStore
    <2>2. CASE x = api[j][c]
      BY <1>7, <2>2 DEF EnvWrite, Write
    <2>3. CASE x # api[j][c]
      <3>1. api' = [api EXCEPT ![j] = [api[j] EXCEPT ![c] = x]]
        BY <1>7, <2>1, <2>3 DEF EnvWrite, Write
      <3>2. \A i \in Kinds : api'[i] = IF i = j THEN [api[j] EXCEPT ![c] = x] ELSE api[i]
        BY <2>1, <3>1
      <3> QED BY <2>1, <3>2
    <2> QED BY <2>2, <2>3
  <1>8. ASSUME NEW x \in CRs \cup {None}, EnvWrite("cr", c, x),
               \/ Created(c) \/ Edited(c) \/ Deleted(c)
               \/ api'["cr"][c] # x, NEW d \in Clusters
        PROVE  /\ api'["cr"][d] = api["cr"][d] \/ Created(d) \/ Edited(d) \/ Deleted(d)
               /\ api'["argo"][d] = api["argo"][d]
               /\ api'["foreign"][d] = api["foreign"][d]
               /\ api'["source"][d] = api["source"][d]
    BY <1>1, <1>7, <1>8
  <1>9. CASE CreateCR(c)
    <2>1. PICK s \in SpecChoices : EnvWrite("cr", c, NewCR(births[c] + 1, s))
      BY <1>9 DEF CreateCR
    <2>2. NewCR(births[c] + 1, s) \in CRs /\ births[c] + 1 \in Nat
      BY DEF NewCR, CRs, Ranges, Infos, Conds, TypeOK, BudgetOK
    <2>3. api'["cr"][c] = NewCR(births[c] + 1, s) => Created(c)
      BY <1>9, <2>2 DEF CreateCR, Created
    <2> QED BY <1>2, <1>5, <1>6, <1>8, <2>1, <2>2, <2>3
  <1>10. CASE EditCR(c)
    <2>1. PICK s \in SpecChoices : EnvWrite("cr", c, [api["cr"][c] EXCEPT !.spec = s])
      BY <1>10 DEF EditCR
    <2> DEFINE x == [api["cr"][c] EXCEPT !.spec = s]
    <2>2. x \in CRs
      BY <1>3, <1>10 DEF EditCR, CRs
    <2>3. api'["cr"][c] = x => Edited(c)
      BY <1>10 DEF EditCR, Edited
    <2>4. EnvWrite("cr", c, x)
      BY <2>1
    <2> HIDE DEF x
    <2> QED BY <1>2, <1>5, <1>6, <1>8, <2>2, <2>3, <2>4
  <1>11. CASE DeleteCR(c)
    <2> DEFINE x == IF api["cr"][c].fin THEN [api["cr"][c] EXCEPT !.deleting = TRUE] ELSE None
    <2>1. EnvWrite("cr", c, x)
      BY <1>11 DEF DeleteCR
    <2>2. x \in CRs \cup {None}
      BY <1>3, <1>11 DEF DeleteCR, CRs
    <2>3. api'["cr"][c] = x => Deleted(c)
      BY <1>11 DEF DeleteCR, Deleted
    <2> HIDE DEF x
    <2> QED BY <1>2, <1>5, <1>6, <1>8, <2>1, <2>2, <2>3
  <1>12. CASE RotateKubeconfig(c)
    <2>1. EnvWrite("source", c, api["source"][c] + 1) /\ api["source"][c] + 1 \in Nat
      BY <1>2, <1>12 DEF RotateKubeconfig
    <2>2. \A d \in Clusters, i \in Kinds :
             api'[i][d] = IF i = "source" /\ d = c THEN api["source"][c] + 1 ELSE api[i][d]
      BY <1>1, <1>7, <2>1
    <2>3. \A d \in Clusters : api'["source"][d] \in {api["source"][d], api["source"][d] + 1}
      BY <1>1, <1>2, <2>2
    <2> QED BY <1>1, <1>5, <1>6, <2>2, <2>3
  <1>13. CASE ToggleForeign(c)
    <2>1. PICK x \in {None, Bare} : EnvWrite("foreign", c, x)
      BY <1>13 DEF ToggleForeign
    <2>2. \A d \in Clusters, i \in Kinds :
             api'[i][d] = IF i = "foreign" /\ d = c THEN x ELSE api[i][d]
      BY <1>1, <1>7, <2>1
    <2> QED BY <1>1, <1>2, <1>5, <1>6, <2>1, <2>2
  <1>14. CASE LoseArgoSecret(c) \/ CollectGarbage(c)
    <2>1. EnvWrite("argo", c, None)
      BY <1>14 DEF LoseArgoSecret, CollectGarbage
    <2>2. \A d \in Clusters, i \in Kinds :
             api'[i][d] = IF i = "argo" /\ d = c THEN None ELSE api[i][d]
      BY <1>1, <1>7, <2>1
    <2> QED BY <1>1, <1>2, <1>5, <1>6, <2>1, <2>2
  <1> QED BY <1>9, <1>10, <1>11, <1>12, <1>13, <1>14 DEF Environment

-----------------------------------------------------------------------------
(***************************************************************************)
(* The finalizer is kept to: Discipline is inductive.                      *)
(***************************************************************************)
\* A copy of the CR never becomes current again, and a CR has the finalizer
\* after AddFinalizer.
LEMMA CopyAges ==
    ASSUME TypeOK, NEW m \in Managers, Reconcile(m) \/ Misfortune(m)
    PROVE  /\ fresh'[m] => fresh[m]
           /\ Adopts(m) => Adopted(key[m])'
  <1>1. CASE Misfortune(m)
    <2>1. fresh' = fresh
      BY <1>1 DEF Misfortune, FailedCall, LostReply, IgnoredError, Crash, k8sVars
    <2>2. pc[m] # "finalizer" \/ ~Adopts(m)
      BY <1>1 DEF Misfortune, FailedCall, LostReply, IgnoredError, Crash, Adopts, Fail,
                  Return, Idle, Goto, TypeOK, WorkOK
    <2> QED BY <2>1, <2>2 DEF Adopts, AddFinalizer
  <1>2. CASE Reconcile(m)
    <2>1. key[m] \in Clusters /\ obj[m] \in CRs
      BY <1>2, ReconcileResult
    <2>2. fresh'[m] => fresh[m]
      <3>1. CASE NoWrite
        BY <3>1 DEF NoWrite
      <3>2. ASSUME NEW k \in Kinds, NEW new \in Objects(k), Write(m, k, key[m], new)
            PROVE  fresh'[m] => fresh[m]
        BY <2>1, <3>2, WriterEffect
      <3> QED BY <1>2, <3>1, <3>2, ReconcileResult
    <2>3. ASSUME Adopts(m) PROVE Adopted(key[m])'
      <3> DEFINE new == [obj[m] EXCEPT !.fin = TRUE]
      <3>1. Write(m, "cr", key[m], new) /\ key' = key
        BY <2>3 DEF Adopts, AddFinalizer
      <3>2. new \in CRs /\ new.fin /\ new # None
        BY <2>1, ObjectAssumption DEF CRs
      <3>3. "cr" \in Kinds /\ new \in Objects("cr")
        BY <3>2 DEF Kinds, Objects
      <3> HIDE DEF new
      <3>4. api'["cr"][key[m]] = new
        BY <2>1, <3>1, <3>3, WriterEffect
      <3> QED BY <3>1, <3>2, <3>4 DEF Adopted
    <2> QED BY <2>2, <2>3
  <1> QED BY <1>1, <1>2

\* A step of Reconcile takes the finalizer off no CR but a current one whose
\* finalize is done, and records nothing in a CR without it.
LEMMA FinalizerKept ==
    ASSUME TypeOK, Coherent, Discipline, NEW m \in Managers, Reconcile(m),
           NEW c \in Clusters
    PROVE  /\ Adopted(c) => \/ Adopted(c)'
                            \/ RemoveFinalizer(m) /\ fresh[m] /\ c = key[m]
           /\ LET cr == api'["cr"][c] IN
              cr # None => (cr.deleting => cr.fin) /\ (~cr.fin => cr.ip = None)
  <1>1. obj[m] \in CRs
    BY ReconcileResult
  <1>2. CASE api'["cr"][c] = api["cr"][c]
    BY <1>2 DEF Discipline, Unadopted, Adopted
  <1>3. CASE c = key[m] /\ AddFinalizer(m) /\ api'["cr"][c] = [obj[m] EXCEPT !.fin = TRUE]
    <2>1. [obj[m] EXCEPT !.fin = TRUE] # None /\ [obj[m] EXCEPT !.fin = TRUE].fin
      BY <1>1, ObjectAssumption DEF CRs
    <2> QED BY <1>3, <2>1 DEF Adopted
  <1>4. CASE UpdateStatus(m) /\ api'["cr"][c] = NewStatus(m)
    <2>1. obj[m].fin
      BY <1>4 DEF UpdateStatus, Discipline, Disciplined, Working
    <2>2. (IF loc[m].info = "nil" THEN obj[m].info ELSE loc[m].info) \in Infos
             /\ loc[m] \in Locals
      BY <1>1, ReconcileResult DEF CRs, Locals
    <2>3. NewStatus(m) # None /\ NewStatus(m).fin
      BY <1>1, <2>1, <2>2, ObjectAssumption DEF NewStatus, CRs, Locals
    <2> QED BY <1>4, <2>3 DEF Adopted
  <1>5. CASE c = key[m] /\ fresh[m] /\ RemoveFinalizer(m) /\ api'["cr"][c] = None
    BY <1>5
  <1> QED BY <1>2, <1>3, <1>4, <1>5, StepWrites DEF CRChange

\* Nor does anybody else.
LEMMA FinalizerLeft ==
    ASSUME TypeOK, Discipline, NEW e \in Clusters, Environment(e), NEW c \in Clusters
    PROVE  /\ Adopted(c) => Adopted(c)'
           /\ LET cr == api'["cr"][c] IN
              cr # None => (cr.deleting => cr.fin) /\ (~cr.fin => cr.ip = None)
  <1>1. "cr" \in Kinds /\ Objects("cr") = CRs \cup {None}
    BY DEF Kinds, Objects
  <1>2. api["cr"][c] \in CRs \cup {None}
    BY <1>1, StoreObjects
  <1>3. CASE api'["cr"][c] = api["cr"][c]
    BY <1>3 DEF Discipline, Unadopted, Adopted
  <1>4. CASE Created(c)
    BY <1>4 DEF Created, NewCR, Adopted
  <1>5. CASE Edited(c)
    <2>1. PICK s \in SpecChoices : api'["cr"][c] = [api["cr"][c] EXCEPT !.spec = s]
      BY <1>5 DEF Edited
    <2>2. api["cr"][c] \in CRs
      BY <1>2, <1>5 DEF Edited
    <2> DEFINE old == api["cr"][c]
               new == [old EXCEPT !.spec = s]
    <2>3. new # None
      BY <2>2, ObjectAssumption DEF CRs
    <2>4. new.fin = old.fin /\ new.deleting = old.deleting /\ new.ip = old.ip
      BY <2>2 DEF CRs
    <2>5. (old.deleting => old.fin) /\ (~old.fin => old.ip = None)
      BY <1>5 DEF Edited, Discipline, Unadopted
    <2>6. api'["cr"][c] = new
      BY <2>1
    <2> HIDE DEF new
    <2> QED BY <2>3, <2>4, <2>5, <2>6 DEF Adopted
  <1>6. CASE Deleted(c)
    <2>1. api["cr"][c] \in CRs
      BY <1>2, <1>6 DEF Deleted
    <2>2. [api["cr"][c] EXCEPT !.deleting = TRUE] # None
      BY <2>1, ObjectAssumption DEF CRs
    <2> QED BY <1>6, <2>1, <2>2 DEF Deleted, Discipline, Unadopted, Adopted, CRs
  <1> QED BY <1>3, <1>4, <1>5, <1>6, EnvironmentEffect

\* What a worker does, or what befalls it, keeps to the discipline.
LEMMA WorkerDiscipline ==
    ASSUME TypeOK, Coherent, Discipline, SingleManager, NEW m \in Managers,
           Reconcile(m) \/ Misfortune(m)
    PROVE  Discipline'
  <1>1. ASSUME NEW c \in Clusters
        PROVE  /\ Adopted(c) => \/ Adopted(c)'
                                \/ RemoveFinalizer(m) /\ fresh[m] /\ c = key[m]
               /\ LET cr == api'["cr"][c] IN
                  cr # None => (cr.deleting => cr.fin) /\ (~cr.fin => cr.ip = None)
    <2>1. CASE Misfortune(m)
      BY <2>1 DEF Misfortune, FailedCall, LostReply, IgnoredError, Crash, k8sVars,
                  Discipline, Unadopted, Adopted
    <2> QED BY <2>1, FinalizerKept
  <1>2. Disciplined(m)
    BY DEF Discipline
  <1>3. ASSUME NEW c \in Clusters, view'[m]["cr"][c] # None, view'[m]["cr"][c].fin,
               ~view'[m]["cr"][c].deleting
        PROVE  Adopted(c)'
    <2>1. CASE Crash(m)
      <3>1. api' = api /\ view'[m] = api
        BY <2>1 DEF Crash, TypeOK, StoreOK
      <3> QED BY <1>3, <3>1 DEF Adopted
    <2>2. CASE ~Crash(m)
      <3>1. view' = view
        BY <2>2, ReconcileResult DEF Misfortune, FailedCall, LostReply, IgnoredError, k8sVars
      <3>2. Adopted(c)
        BY <1>2, <1>3, <3>1 DEF Disciplined
      <3>3. ~(RemoveFinalizer(m) /\ fresh[m] /\ c = key[m])
        BY <1>2, <1>3, <3>1 DEF RemoveFinalizer, Disciplined, Finalizing
      <3> QED BY <1>1, <3>2, <3>3
    <2> QED BY <2>1, <2>2
  <1>4. /\ pc'[m] = "finalizer" => ~obj'[m].fin /\ ~obj'[m].deleting
        /\ pc'[m] \in Working => obj'[m].fin /\ Adopted(key[m])'
        /\ pc'[m] \in Working => key'[m] = key[m]
        /\ pc'[m] \in Finalizing =>
              /\ obj'[m].fin /\ obj'[m].deleting
              /\ fresh'[m] => view'[m]["cr"][key'[m]] = obj'[m]
    <2>1. CASE Idle(m)
      BY <2>1 DEF Idle, TypeOK, WorkOK, Working, Finalizing
    <2>2. CASE key'[m] = key[m] /\ Adopts(m)
      <3>1. obj[m] \in CRs
        BY <2>2 DEF Adopts, AddFinalizer, TypeOK, WorkOK
      <3> QED BY <2>2, <3>1, CopyAges DEF Adopts, Working, Finalizing, CRs
    <2>3. CASE key'[m] = key[m] /\ WorksOn(m)
      <3>1. pc[m] # "unfinalize" /\ key[m] \in Clusters
        BY <2>3 DEF WorksOn, Working, TypeOK, WorkOK
      <3>2. Adopted(key[m])'
        BY <1>1, <1>2, <2>3, <3>1 DEF WorksOn, Disciplined, RemoveFinalizer
      <3> QED BY <1>2, <2>3, <3>2 DEF WorksOn, Disciplined, Working, Finalizing
    <2>4. CASE key'[m] = key[m] /\ (CleansUp(m) \/ Releases(m))
      <3>1. pc[m] \in Finalizing /\ pc'[m] \in {"release", "unfinalize"} /\ obj'[m] = obj[m]
        BY <2>4 DEF CleansUp, Releases, ReleaseIP, AfterCleanup, Finalizing
      <3>2. view' = view
        <4>1. pc'[m] # "idle"
          BY <3>1
        <4> QED BY <4>1, ReconcileResult DEF Misfortune, FailedCall, LostReply, IgnoredError,
                   Crash, k8sVars, Idle, TypeOK, WorkOK
      <3> QED BY <1>2, <2>4, <3>1, <3>2, CopyAges DEF Disciplined, Working, Finalizing
    <2> QED BY <2>1, <2>2, <2>3, <2>4, WorkerMoves
  <1>5. Disciplined(m)'
    BY <1>3, <1>4 DEF Disciplined
  <1> QED BY <1>1, <1>5 DEF Discipline, Unadopted, SingleManager

\* Discipline is inductive for one manager: with two, a cache may show a CR
\* that the other manager has let go.
LEMMA NextDiscipline ==
    ASSUME SingleManager
    PROVE  TypeOK /\ Coherent /\ Discipline /\ [Next]_vars => Discipline'
  <1> SUFFICES ASSUME TypeOK, Coherent, Discipline, [Next]_vars PROVE Discipline'
    OBVIOUS
  <1>1. CASE UNCHANGED vars \/ \E m \in Managers : Resync(m)
    BY <1>1 DEF vars, Resync, k8sVars, workVars, Discipline, Unadopted, Disciplined, Adopted
  <1>2. ASSUME NEW m \in Managers, Reconcile(m) \/ Misfortune(m) PROVE Discipline'
    BY <1>2, WorkerDiscipline
  <1>3. ASSUME NEW m \in Managers, NEW c \in Clusters, Start(m, c) PROVE Discipline'
    <2>1. api' = api /\ view' = view
      BY <1>3 DEF Start
    <2>2. Disciplined(m)'
      <3>1. CASE UNCHANGED <<pc, key, obj, loc, fresh>>
        BY <2>1, <3>1 DEF Discipline, Disciplined, Adopted
      <3>2. CASE ~UNCHANGED <<pc, key, obj, loc, fresh>>
        <4> DEFINE cr == view[m]["cr"][c]
        <4>1. /\ cr # None /\ FirstStep(cr) # "idle"
              /\ pc'[m] = FirstStep(cr) /\ key'[m] = c /\ obj'[m] = cr
          BY <1>3, <3>2 DEF Start, TypeOK, WorkOK
        <4>2. cr.fin /\ ~cr.deleting => Adopted(c)
          BY <4>1 DEF Discipline, Disciplined
        <4>3. pc'[m] \in Working => pc'[m] = "ensure"
          BY <4>1 DEF FirstStep, Working
        <4>4. pc'[m] = "ensure" => cr.fin /\ ~cr.deleting
          BY <4>1 DEF FirstStep
        <4>5. pc'[m] = "finalizer" => ~cr.fin /\ ~cr.deleting
          BY <4>1 DEF FirstStep
        <4>6. pc'[m] \in Finalizing => cr.fin /\ cr.deleting
          BY <4>1 DEF FirstStep, Finalizing
        <4> QED BY <2>1, <4>1, <4>2, <4>3, <4>4, <4>5, <4>6
                DEF Discipline, Disciplined, Adopted
      <3> QED BY <3>1, <3>2
    <2> QED BY <2>1, <2>2 DEF Discipline, Unadopted, SingleManager
  <1>4. ASSUME NEW m \in Managers, NEW K \in Informers, Deliver(m, K) PROVE Discipline'
    <2>1. /\ api' = api /\ UNCHANGED <<fresh, pc, key, obj>>
          /\ view'[m] = [k \in Kinds |-> IF k \in K THEN api[k] ELSE view[m][k]]
      BY <1>4 DEF Deliver, TypeOK, StoreOK
    <2>2. view'[m]["cr"] \in {api["cr"], view[m]["cr"]}
      BY <2>1 DEF Kinds
    <2>3. Disciplined(m)'
      BY <2>1, <2>2 DEF Coherent, CopyCurrent, Discipline, Disciplined, Adopted, Finalizing
    <2> QED BY <2>1, <2>3 DEF Discipline, Unadopted, SingleManager
  <1>5. ASSUME NEW e \in Clusters, Environment(e) PROVE Discipline'
    <2>1. /\ UNCHANGED <<view, pc, key, obj>>
          /\ \A m \in Managers : fresh'[m] => fresh[m]
      BY <1>5, EnvironmentEffect
    <2>2. \A c \in Clusters : Adopted(c) => Adopted(c)'
      BY <1>5, FinalizerLeft
    <2>3. Unadopted'
      BY <1>5, FinalizerLeft DEF Unadopted
    <2>4. ASSUME NEW m \in Managers PROVE Disciplined(m)'
      <3>1. pc[m] \in Working => key[m] \in Clusters
        BY DEF Working, TypeOK, WorkOK
      <3> QED BY <2>1, <2>2, <3>1 DEF Discipline, Disciplined
    <2> QED BY <2>3, <2>4 DEF Discipline
  <1> QED BY <1>1, <1>2, <1>3, <1>4, <1>5 DEF Next

\* Hence it holds in every behaviour.
LEMMA AlwaysDiscipline ==
    ASSUME SingleManager
    PROVE  Spec => []Discipline
  <1>1. Init => Discipline
    <2>1. "cr" \in Kinds /\ "cr" # "source"
      BY DEF Kinds
    <2> QED BY <2>1 DEF Init, Discipline, Unadopted, Disciplined, Working, Finalizing
  <1>2. TypeOK /\ Coherent /\ Discipline /\ [Next]_vars => Discipline'
    BY NextDiscipline
  <1> QED BY <1>1, <1>2, TypeCorrect, CachesCoherent, PTL DEF Spec

-----------------------------------------------------------------------------
(***************************************************************************)
(* Released before gone.                                                   *)
(***************************************************************************)
\* Only finalize, and the deletion of a CR without the finalizer, end a CR.
LEMMA CREnds ==
    ASSUME TypeOK, [Next]_vars, NEW c \in Clusters,
           api["cr"][c] # None, api'["cr"][c] = None
    PROVE  \/ \E m \in Managers : RemoveFinalizer(m) /\ fresh[m] /\ c = key[m]
           \/ ~api["cr"][c].fin
  <1>1. ASSUME NEW m \in Managers, Reconcile(m)
        PROVE  RemoveFinalizer(m) /\ fresh[m] /\ c = key[m]
    <2>1. obj[m] \in CRs /\ loc[m] \in Locals
      BY <1>1, ReconcileResult
    <2>2. (IF loc[m].info = "nil" THEN obj[m].info ELSE loc[m].info) \in Infos
      BY <2>1 DEF CRs, Locals
    <2>3. [obj[m] EXCEPT !.fin = TRUE] \in CRs
      BY <2>1 DEF CRs
    <2>4. NewStatus(m) \in CRs
      BY <2>1, <2>2 DEF NewStatus, CRs, Locals
    <2> QED BY <1>1, <2>3, <2>4, StepWrites, ObjectAssumption DEF CRChange
  <1>2. ASSUME NEW e \in Clusters, Environment(e) PROVE ~api["cr"][c].fin
    <2>1. "cr" \in Kinds /\ Objects("cr") = CRs \cup {None}
      BY DEF Kinds, Objects
    <2>2. api["cr"][c] \in CRs
      BY <2>1, StoreObjects
    <2>3. ~Edited(c)
      <3>1. ASSUME NEW s \in SpecChoices PROVE [api["cr"][c] EXCEPT !.spec = s] # None
        BY <2>2, ObjectAssumption DEF CRs
      <3> QED BY <3>1 DEF Edited
    <2>4. [api["cr"][c] EXCEPT !.deleting = TRUE] # None
      BY <2>2, ObjectAssumption DEF CRs
    <2> QED BY <1>2, <2>3, <2>4, EnvironmentEffect DEF Created, Deleted
  <1>3. CASE api' = api
    BY <1>3
  <1> QED BY <1>1, <1>2, <1>3 DEF Next, vars, k8sVars, Misfortune, FailedCall, LostReply,
       IgnoredError, Crash, Resync, Start, Deliver

\* ReleaseDone is inductive: while a worker is about to remove the finalizer
\* nobody but it reserves anything.
LEMMA NextReleaseDone ==
    ASSUME SingleManager
    PROVE  TypeOK /\ ReleaseDone /\ [Next]_vars => ReleaseDone'
  <1> SUFFICES ASSUME TypeOK, ReleaseDone, [Next]_vars, NEW n \in Managers,
                      pc'[n] = "unfinalize", AfterCleanup(obj'[n]) = "release"
               PROVE  holder'[obj'[n].ip] # key'[n]
    BY DEF ReleaseDone
  <1>1. CASE UNCHANGED <<pc, obj, key, holder>>
    BY <1>1 DEF ReleaseDone
  <1>2. ASSUME NEW m \in Managers, Reconcile(m) \/ Misfortune(m)
        PROVE  holder'[obj'[n].ip] # key'[n]
    <2>1. n = m
      BY DEF SingleManager
    <2>2. key'[m] = key[m] /\ (CleansUp(m) \/ Releases(m))
      BY <1>2, <2>1, WorkerMoves DEF Idle, Adopts, WorksOn, Working, TypeOK, WorkOK
    <2>3. Releases(m) /\ obj[m].ip \in IPs
      <3>1. Releases(m)
        BY <2>1, <2>2 DEF CleansUp
      <3>2. obj'[m] = obj[m] /\ obj[m] \in CRs
        BY <3>1 DEF Releases, ReleaseIP, TypeOK, WorkOK
      <3>3. obj[m].ip # None
        BY <2>1, <3>2 DEF AfterCleanup
      <3> QED BY <3>1, <3>2, <3>3 DEF CRs
    <2>4. holder'[obj[m].ip] = None
      BY <2>3 DEF Releases, ReleaseIP, Unassign, TypeOK, PoolOK
    <2>5. key[m] # None
      BY <2>3, NoneAssumption DEF Releases, ReleaseIP, TypeOK, WorkOK
    <2> QED BY <2>1, <2>2, <2>3, <2>4, <2>5 DEF Releases
  <1>3. ASSUME NEW m \in Managers, NEW c \in Clusters, Start(m, c),
               ~UNCHANGED <<pc, key, obj, loc, fresh>>
        PROVE  FALSE
    <2>1. n = m
      BY DEF SingleManager
    <2>2. pc'[m] \in {"idle", "strip", "delete", "finalizer", "ensure"}
      BY <1>3 DEF Start, FirstStep, TypeOK, WorkOK
    <2> QED BY <2>1, <2>2
  <1>4. ASSUME NEW c \in Clusters, Environment(c) PROVE UNCHANGED <<pc, obj, key, holder>>
    BY <1>4, EnvironmentEffect
  <1> QED BY <1>1, <1>2, <1>3, <1>4 DEF Next, vars, workVars, poolVars, Resync, Deliver, Start

(***************************************************************************)
(* finalize keeps its order: with one manager, a CR whose status names an  *)
(* IP and that asks for its release is not gone before clusterbook has got *)
(* it back, for every number of names, addresses, edits and faults.        *)
(***************************************************************************)
THEOREM ReleasedFirst ==
    ASSUME SingleManager
    PROVE  Spec => ReleasedBeforeGone
  <1> DEFINE Step ==
        \A c \in Clusters :
         LET old == api["cr"][c] IN
         old # None /\ api'["cr"][c] = None =>
            (AfterCleanup(old) = "release" => holder[old.ip] # c)
  <1>1. TypeOK /\ Coherent /\ Discipline /\ ReleaseDone /\ [Next]_vars => [Step]_vars
    <2> SUFFICES ASSUME TypeOK, Coherent, Discipline, ReleaseDone, [Next]_vars,
                        NEW c \in Clusters, api["cr"][c] # None, api'["cr"][c] = None,
                        AfterCleanup(api["cr"][c]) = "release"
                 PROVE  holder[api["cr"][c].ip] # c
      OBVIOUS
    <2>1. api["cr"][c].fin
      BY DEF Discipline, Unadopted, AfterCleanup
    <2>2. PICK m \in Managers : RemoveFinalizer(m) /\ fresh[m] /\ c = key[m]
      BY <2>1, CREnds
    <2>3. pc[m] = "unfinalize" /\ obj[m] = api["cr"][c]
      BY <2>2 DEF RemoveFinalizer, Coherent, CopyCurrent
    <2> QED BY <2>2, <2>3 DEF ReleaseDone
  <1>2. Init => ReleaseDone
    BY DEF Init, ReleaseDone
  <1>3. TypeOK /\ ReleaseDone /\ [Next]_vars => ReleaseDone'
    BY NextReleaseDone
  <1>4. Spec => []Discipline
    BY AlwaysDiscipline
  <1> QED BY <1>1, <1>2, <1>3, <1>4, TypeCorrect, CachesCoherent, PTL
          DEF Spec, ReleasedBeforeGone

-----------------------------------------------------------------------------
(***************************************************************************)
(* The rendered Secret never goes back.                                    *)
(***************************************************************************)
\* The revisions are numbers.
LEMMA RevisionTypes ==
    ASSUME TypeOK, NEW m \in Managers, NEW c \in Clusters
    PROVE  /\ api["source"][c] \in Nat /\ view[m]["source"][c] \in Nat
           /\ api["argo"][c] # None => api["argo"][c].rev \in Nat
           /\ loc[m].rev \in Nat
  <1>1. /\ Objects("argo") = ArgoSecrets \cup {None} /\ Objects("source") = Nat
        /\ {"argo", "source"} \subseteq Kinds
    BY DEF Objects, Kinds
  <1>2. /\ api["source"][c] \in Objects("source")
        /\ view[m]["source"][c] \in Objects("source")
        /\ api["argo"][c] \in Objects("argo")
    BY <1>1, StoreObjects
  <1>3. loc[m] \in Locals
    BY DEF TypeOK, WorkOK
  <1> QED BY <1>1, <1>2, <1>3 DEF ArgoSecrets, Locals

\* RevisionsOrdered is inductive: the worker renders from its own cache, and
\* a cache only moves forward.
LEMMA NextRevisions ==
    ASSUME SingleManager
    PROVE  TypeOK /\ RevisionsOrdered /\ [Next]_vars => RevisionsOrdered'
  <1> SUFFICES ASSUME TypeOK, RevisionsOrdered, [Next]_vars, NEW m \in Managers
               PROVE  /\ \A c \in Clusters :
                            /\ view'[m]["source"][c] <= api'["source"][c]
                            /\ api'["argo"][c] # None
                                  => api'["argo"][c].rev <= view'[m]["source"][c]
                      /\ pc'[m] = "upsert" =>
                            /\ loc'[m].rev # 0 /\ loc'[m].rev <= view'[m]["source"][key'[m]]
                            /\ api'["argo"][key'[m]] # None
                                  => api'["argo"][key'[m]].rev <= loc'[m].rev
    BY DEF RevisionsOrdered
  <1>1. pc[m] = "upsert" => key[m] \in Clusters
    BY DEF TypeOK, WorkOK
  <1>2. CASE UNCHANGED vars \/ \E n \in Managers : Resync(n)
    BY <1>2 DEF vars, Resync, k8sVars, workVars, RevisionsOrdered
  <1>3. CASE Reconcile(m)
    <2>1. view' = view
      BY <1>3, ReconcileResult
    <2>2. ASSUME NEW c \in Clusters
          PROVE  /\ view'[m]["source"][c] <= api'["source"][c]
                 /\ api'["argo"][c] # None => api'["argo"][c].rev <= view'[m]["source"][c]
      <3>1. api'["source"][c] = api["source"][c]
        BY <1>3, StepWrites
      <3>2. CASE api'["argo"][c] = api["argo"][c]
        BY <2>1, <3>1, <3>2 DEF RevisionsOrdered
      <3>3. CASE ArgoChange(m, c)
        <4>1. Desired(m).rev = loc[m].rev
          BY DEF Desired
        <4> QED BY <2>1, <3>1, <3>3, <4>1 DEF ArgoChange, UpsertArgoSecret, RevisionsOrdered
      <3> QED BY <1>3, <3>2, <3>3, StepWrites
    <2>3. ASSUME pc'[m] = "upsert"
          PROVE  /\ loc'[m].rev # 0 /\ loc'[m].rev <= view'[m]["source"][key'[m]]
                 /\ api'["argo"][key'[m]] # None
                       => api'["argo"][key'[m]].rev <= loc'[m].rev
      <3>1. LoadKubeconfig(m) /\ ~Fail(m) /\ key'[m] = key[m]
        BY <1>3, <2>3, WorkerMoves DEF Idle, Adopts, CleansUp, AfterCleanup, Releases,
           WorksOn, TypeOK, WorkOK
      <3>2. /\ loc'[m].rev = view[m]["source"][key[m]] /\ loc'[m].rev # 0
            /\ key[m] \in Clusters /\ api' = api
        <4>1. Revision(m) # 0 /\ api' = api /\ key[m] \in Clusters
          BY <3>1 DEF LoadKubeconfig, k8sVars, TypeOK, WorkOK
        <4>2. \E a \in Probe :
                 loc' = [loc EXCEPT ![m] =
                   [loc[m] EXCEPT !.rev = Revision(m),
                             !.server = BuildServer(obj[m].spec, loc[m].ip, loc[m].info),
                             !.ready = loc[m].ready \/ a,
                             !.again = ~loc[m].ready /\ ~a]]
          BY <3>1, <4>1 DEF LoadKubeconfig
        <4>3. loc'[m].rev = Revision(m)
          BY <4>2 DEF TypeOK, WorkOK, Locals
        <4> QED BY <4>1, <4>3 DEF Revision
      <3> QED BY <2>1, <3>1, <3>2, RevisionTypes DEF RevisionsOrdered
    <2> QED BY <2>2, <2>3
  <1>4. CASE Misfortune(m)
    <2>1. api' = api
      BY <1>4 DEF Misfortune, FailedCall, LostReply, IgnoredError, Crash, k8sVars
    <2>2. pc'[m] # "upsert"
      BY <1>4 DEF Misfortune, FailedCall, LostReply, IgnoredError, Crash, Fail, Return,
                  Idle, Goto, Publish, AfterCleanup, TypeOK, WorkOK
    <2>3. view'[m] \in {view[m], api}
      BY <1>4 DEF Misfortune, FailedCall, LostReply, IgnoredError, Crash, k8sVars,
                  TypeOK, StoreOK
    <2>4. ASSUME NEW c \in Clusters
          PROVE  /\ view'[m]["source"][c] <= api'["source"][c]
                 /\ api'["argo"][c] # None => api'["argo"][c].rev <= view'[m]["source"][c]
      BY <2>1, <2>3, RevisionTypes DEF RevisionsOrdered
    <2> QED BY <2>2, <2>4
  <1>5. ASSUME NEW K \in Informers, Deliver(m, K)
        PROVE  /\ api' = api /\ UNCHANGED <<pc, key, loc>>
               /\ view'[m]["source"] \in {view[m]["source"], api["source"]}
    <2>1. "source" \in Kinds
      BY DEF Kinds
    <2> QED BY <1>5, <2>1 DEF Deliver, TypeOK, StoreOK
  <1>6. CASE \E K \in Informers : Deliver(m, K)
    <2>1. ASSUME NEW c \in Clusters
          PROVE  /\ view'[m]["source"][c] <= api'["source"][c]
                 /\ api'["argo"][c] # None => api'["argo"][c].rev <= view'[m]["source"][c]
                 /\ view[m]["source"][c] <= view'[m]["source"][c]
      BY <1>5, <1>6, RevisionTypes DEF RevisionsOrdered
    <2>2. ASSUME pc[m] = "upsert"
          PROVE  loc[m].rev <= view'[m]["source"][key[m]]
      <3>1. PICK c \in Clusters : c = key[m]
        BY <1>1, <2>2
      <3>2. /\ loc[m].rev \in Nat /\ view[m]["source"][c] \in Nat
            /\ view'[m]["source"][c] \in Nat
        BY <1>5, <1>6, RevisionTypes
      <3> QED BY <2>1, <2>2, <3>1, <3>2 DEF RevisionsOrdered
    <2> QED BY <1>5, <1>6, <2>1, <2>2 DEF RevisionsOrdered
  <1>7. ASSUME NEW c \in Clusters, Start(m, c) PROVE pc'[m] # "upsert" \/ UNCHANGED <<pc, key, loc>>
    BY <1>7 DEF Start, FirstStep, TypeOK, WorkOK
  <1>8. CASE \E c \in Clusters : Start(m, c)
    BY <1>7, <1>8 DEF Start, RevisionsOrdered
  <1>9. ASSUME NEW e \in Clusters, Environment(e)
        PROVE  /\ UNCHANGED <<view, pc, key, loc>>
               /\ \A c \in Clusters :
                     /\ api'["argo"][c] \in {api["argo"][c], None}
                     /\ api["source"][c] <= api'["source"][c] /\ api'["source"][c] \in Nat
    <2>1. "source" \in Kinds /\ Objects("source") = Nat
      BY DEF Kinds, Objects
    <2>2. TypeOK'
      BY NextType
    <2>3. \A c \in Clusters : api["source"][c] \in Nat /\ api'["source"][c] \in Nat
      BY <2>1, <2>2 DEF TypeOK, StoreOK, IsStore
    <2>4. \A c \in Clusters : api'["source"][c] \in {api["source"][c], api["source"][c] + 1}
      BY <1>9, EnvironmentEffect
    <2> QED BY <1>9, <2>3, <2>4, EnvironmentEffect
  <1>10. CASE \E e \in Clusters : Environment(e)
    <2>1. ASSUME NEW c \in Clusters
          PROVE  /\ view'[m]["source"][c] <= api'["source"][c]
                 /\ api'["argo"][c] # None => api'["argo"][c].rev <= view'[m]["source"][c]
      BY <1>9, <1>10, RevisionTypes DEF RevisionsOrdered
    <2> QED BY <1>1, <1>9, <1>10, <2>1 DEF RevisionsOrdered
  <1>11. \A n \in Managers : n = m
    BY DEF SingleManager
  <1> QED BY <1>2, <1>3, <1>4, <1>6, <1>8, <1>10, <1>11 DEF Next

\* Hence it holds in every behaviour.
LEMMA AlwaysRevisions ==
    ASSUME SingleManager
    PROVE  Spec => []RevisionsOrdered
  <1>1. Init => RevisionsOrdered
    BY DEF Init, RevisionsOrdered, Kinds
  <1>2. TypeOK /\ RevisionsOrdered /\ [Next]_vars => RevisionsOrdered'
    BY NextRevisions
  <1> QED BY <1>1, <1>2, TypeCorrect, PTL DEF Spec

(***************************************************************************)
(* With one manager the rendered Secret never goes back to a kubeconfig    *)
(* older than the one it has shown, however stale the cache it was         *)
(* rendered from, for every number of clusters, revisions and faults.      *)
(***************************************************************************)
THEOREM RendersForward ==
    ASSUME SingleManager
    PROVE  Spec => RenderNeverRegresses
  <1> DEFINE Step ==
        \A c \in Clusters :
         LET old == api["argo"][c]
             new == api'["argo"][c] IN
         old # None /\ new # None => old.rev <= new.rev
  <1>1. TypeOK /\ RevisionsOrdered /\ [Next]_vars => [Step]_vars
    <2> SUFFICES ASSUME TypeOK, RevisionsOrdered, [Next]_vars, NEW c \in Clusters,
                        api["argo"][c] # None, api'["argo"][c] # None
                 PROVE  api["argo"][c].rev <= api'["argo"][c].rev
      OBVIOUS
    <2>1. CASE api'["argo"][c] = api["argo"][c]
      <3>1. api["argo"][c].rev \in Nat
        <4>1. "argo" \in Kinds /\ Objects("argo") = ArgoSecrets \cup {None}
          BY DEF Kinds, Objects
        <4>2. api["argo"][c] \in ArgoSecrets
          BY <4>1, StoreObjects
        <4> QED BY <4>2 DEF ArgoSecrets
      <3> QED BY <2>1, <3>1
    <2>2. ASSUME NEW m \in Managers, ArgoChange(m, c)
          PROVE  api["argo"][c].rev <= api'["argo"][c].rev
      <3>1. Desired(m).rev = loc[m].rev
        BY DEF Desired
      <3> QED BY <2>2, <3>1 DEF ArgoChange, UpsertArgoSecret, RevisionsOrdered
    <2>3. ASSUME NEW m \in Managers, Reconcile(m)
          PROVE  api["argo"][c].rev <= api'["argo"][c].rev
      BY <2>1, <2>2, <2>3, StepWrites
    <2>4. ASSUME NEW e \in Clusters, Environment(e)
          PROVE  api["argo"][c].rev <= api'["argo"][c].rev
      BY <2>1, <2>4, EnvironmentEffect
    <2>5. CASE api' = api
      BY <2>1, <2>5
    <2> QED BY <2>3, <2>4, <2>5 DEF Next, vars, k8sVars, Misfortune, FailedCall, LostReply,
         IgnoredError, Crash, Resync, Start, Deliver
  <1>2. Spec => []RevisionsOrdered
    BY AlwaysRevisions
  <1> QED BY <1>1, <1>2, TypeCorrect, PTL DEF Spec, RenderNeverRegresses

-----------------------------------------------------------------------------
(***************************************************************************)
(* Enrichment is reversed.                                                 *)
(***************************************************************************)
\* After the strip step the foreign Secret, if the worker saw it, is bare.
LEMMA Stripped ==
    ASSUME TypeOK, NEW m \in Managers, StripEnrichedMetadata(m), ~Fail(m)
    PROVE  view[m]["foreign"][key[m]] = None \/ api'["foreign"][key[m]] = Bare
  <1>1. PICK c \in Clusters : c = key[m]
    BY DEF StripEnrichedMetadata, TypeOK, WorkOK
  <1>2. CASE Write(m, "foreign", c, Bare)
    <2>1. "foreign" \in Kinds /\ Bare \in Objects("foreign")
      BY DEF Kinds, Objects
    <2>2. PICK new \in Objects("foreign") : new = Bare
      BY <2>1
    <2>3. Write(m, "foreign", c, new)
      BY <1>2, <2>2
    <2>4. \A j \in Kinds, d \in Clusters :
             api'[j][d] = IF j = "foreign" /\ d = c THEN new ELSE api[j][d]
      BY <2>1, <2>3, WriteEffect
    <2> QED BY <1>1, <2>1, <2>2, <2>4
  <1> QED BY <1>1, <1>2 DEF StripEnrichedMetadata

\* EnrichTracked is inductive: what a worker marks it has seen, and strips
\* before it takes the finalizer off.
LEMMA WorkerTracks ==
    ASSUME TypeOK, Coherent, Discipline, EnrichTracked, SingleManager,
           NEW m \in Managers, Reconcile(m)
    PROVE  EnrichTracked'
  <1>1. view' = view /\ key[m] \in Clusters
    BY ReconcileResult
  <1>2. ASSUME NEW c \in Clusters, Marked(c)'
        PROVE  /\ Adopted(c)' /\ view[m]["foreign"][c] # None
               /\ Marked(c) \/ (c = key[m] /\ EnrichExistingSecret(m))
    <2>1. CASE api'["foreign"][c] = api["foreign"][c]
      <3>1. Marked(c)
        BY <1>2, <2>1 DEF Marked
      <3>2. ~(RemoveFinalizer(m) /\ c = key[m])
        BY <3>1 DEF EnrichTracked, RemoveFinalizer
      <3> QED BY <3>1, <3>2, FinalizerKept DEF EnrichTracked
    <2>2. CASE c = key[m] /\ view[m]["foreign"][c] # None /\ EnrichExistingSecret(m)
      <3>1. Adopted(c) /\ ~RemoveFinalizer(m)
        BY <2>2 DEF EnrichExistingSecret, RemoveFinalizer, Discipline, Disciplined, Working
      <3> QED BY <2>2, <3>1, FinalizerKept
    <2> QED BY <1>2, <2>1, <2>2, StepWrites DEF ForeignChange, Marked
  <1>3. pc'[m] # "delete"
    BY WorkerMoves DEF Idle, Adopts, WorksOn, Working, CleansUp, AfterCleanup, Releases,
       TypeOK, WorkOK
  <1>4. ASSUME pc'[m] \in {"release", "unfinalize"} PROVE ~Marked(key[m])'
    <2>1. key'[m] = key[m] /\ (CleansUp(m) \/ Releases(m))
      BY <1>4, WorkerMoves DEF Idle, Adopts, WorksOn, Working, TypeOK, WorkOK
    <2>2. ~EnrichExistingSecret(m)
      BY <2>1 DEF CleansUp, Releases, ReleaseIP, EnrichExistingSecret
    <2>3. CASE Releases(m)
      <3>1. ~Marked(key[m])
        BY <2>3 DEF Releases, ReleaseIP, EnrichTracked
      <3> QED BY <1>1, <1>2, <2>1, <2>2, <3>1
    <2>4. CASE CleansUp(m)
      <3>1. StripEnrichedMetadata(m) /\ ~Fail(m)
        BY <2>4 DEF CleansUp, EnrichTracked
      <3>2. view[m]["foreign"][key[m]] = None \/ api'["foreign"][key[m]] = Bare
        BY <3>1, Stripped
      <3> QED BY <1>1, <1>2, <2>1, <3>2 DEF Marked
    <2> QED BY <2>1, <2>3, <2>4
  <1> QED BY <1>1, <1>2, <1>3, <1>4 DEF EnrichTracked, SingleManager

\* EnrichTracked is inductive: nobody but the worker marks a Secret.
LEMMA NextTracked ==
    ASSUME SingleManager, EnrichOnly
    PROVE  TypeOK /\ Coherent /\ Discipline /\ EnrichTracked /\ [Next]_vars
              => EnrichTracked'
  <1> SUFFICES ASSUME TypeOK, Coherent, Discipline, EnrichTracked, [Next]_vars
               PROVE  EnrichTracked'
    OBVIOUS
  <1>1. CASE UNCHANGED vars \/ \E m \in Managers : Resync(m)
    BY <1>1 DEF vars, Resync, k8sVars, workVars, EnrichTracked, Marked, Adopted
  <1>2. ASSUME NEW m \in Managers, Reconcile(m) PROVE EnrichTracked'
    BY <1>2, WorkerTracks
  <1>3. ASSUME NEW m \in Managers, Misfortune(m) PROVE EnrichTracked'
    <2>1. api' = api /\ view'[m] \in {view[m], api}
      BY <1>3 DEF Misfortune, FailedCall, LostReply, IgnoredError, Crash, k8sVars,
                  TypeOK, StoreOK
    <2>2. pc'[m] \in {"idle", "enrich", "render"}
      <3>1. pc[m] # "delete" /\ \A s : Publish(s) \in {"enrich", "render"}
        BY DEF EnrichTracked, Publish
      <3> QED BY <1>3, <3>1 DEF Misfortune, FailedCall, LostReply, IgnoredError, Crash,
                 Fail, Return, Idle, Goto, TypeOK, WorkOK
    <2>3. \A c \in Clusters : Marked(c)' => Marked(c) /\ Adopted(c)' /\ api["foreign"][c] # None
      BY <2>1 DEF EnrichTracked, Marked, Adopted
    <2> QED BY <2>1, <2>2, <2>3 DEF EnrichTracked, SingleManager
  <1>4. ASSUME NEW m \in Managers, NEW c \in Clusters, Start(m, c) PROVE EnrichTracked'
    <2>1. CASE UNCHANGED <<pc, key>>
      BY <1>4, <2>1 DEF Start, EnrichTracked, Marked, Adopted
    <2>2. CASE ~UNCHANGED <<pc, key>>
      <3>1. view[m]["cr"][c] \in CRs
        <4>1. "cr" \in Kinds /\ Objects("cr") = CRs \cup {None}
          BY DEF Kinds, Objects
        <4>2. view[m]["cr"][c] \in Objects("cr")
          BY <4>1, StoreObjects
        <4> QED BY <1>4, <2>2, <4>1, <4>2 DEF Start
      <3>2. view[m]["cr"][c].spec.enrich
        BY <3>1 DEF CRs, EnrichOnly
      <3>3. pc'[m] \in {"idle", "strip", "finalizer", "ensure"}
        BY <1>4, <2>2, <3>2 DEF Start, FirstStep, TypeOK, WorkOK
      <3> QED BY <1>4, <3>3 DEF Start, EnrichTracked, Marked, Adopted, SingleManager
    <2> QED BY <2>1, <2>2
  <1>5. ASSUME NEW m \in Managers, NEW K \in Informers, Deliver(m, K) PROVE EnrichTracked'
    <2>1. api' = api /\ UNCHANGED <<pc, key>>
      BY <1>5 DEF Deliver
    <2>2. view'[m]["foreign"] \in {view[m]["foreign"], api["foreign"]}
      <3>1. "foreign" \in Kinds
        BY DEF Kinds
      <3> QED BY <1>5, <3>1 DEF Deliver, TypeOK, StoreOK
    <2>3. \A c \in Clusters : Marked(c)' => Marked(c) /\ Adopted(c)' /\ api["foreign"][c] # None
      BY <2>1 DEF EnrichTracked, Marked, Adopted
    <2> QED BY <2>1, <2>2, <2>3 DEF EnrichTracked, Marked, SingleManager
  <1>6. ASSUME NEW e \in Clusters, Environment(e) PROVE EnrichTracked'
    <2>1. /\ UNCHANGED <<view, pc, key>>
          /\ \A c \in Clusters : api'["foreign"][c] \in {api["foreign"][c], None, Bare}
      BY <1>6, EnvironmentEffect
    <2>2. \A c \in Clusters : Marked(c)' => Marked(c)
      BY <2>1 DEF Marked
    <2>3. \A c \in Clusters : Adopted(c) => Adopted(c)'
      BY <1>6, FinalizerLeft
    <2>4. ASSUME NEW m \in Managers, pc[m] \in {"release", "unfinalize"}
          PROVE  ~Marked(key[m])'
      <3>1. key[m] \in Clusters
        BY <2>4 DEF TypeOK, WorkOK
      <3>2. ~Marked(key[m])
        BY <2>4 DEF EnrichTracked
      <3> QED BY <2>1, <2>2, <3>1, <3>2
    <2> QED BY <2>1, <2>2, <2>3, <2>4 DEF EnrichTracked
  <1> QED BY <1>1, <1>2, <1>3, <1>4, <1>5, <1>6 DEF Next

(***************************************************************************)
(* With one manager and CRs that stay in enrich mode, a foreign Secret     *)
(* carries clusterbook metadata only while its CR is there, whatever the   *)
(* owner of the Secret, stale caches, conflicts and crashes do meanwhile.  *)
(* An edit that takes a CR out of enrich mode leaves the metadata behind:  *)
(* finalize then deletes the rendered Secret instead.                      *)
(***************************************************************************)
THEOREM EnrichmentReversed ==
    ASSUME SingleManager, EnrichOnly
    PROVE  Spec => []EnrichReversed
  <1>1. Init => EnrichTracked
    <2>1. {"cr", "foreign"} \subseteq Kinds
      BY DEF Kinds
    <2> QED BY <2>1 DEF Init, EnrichTracked, Marked
  <1>2. TypeOK /\ Coherent /\ Discipline /\ EnrichTracked /\ [Next]_vars => EnrichTracked'
    BY NextTracked
  <1>3. EnrichTracked => EnrichReversed
    BY DEF EnrichTracked, EnrichReversed, Marked, Adopted
  <1>4. Spec => []Discipline
    BY AlwaysDiscipline
  <1> QED BY <1>1, <1>2, <1>3, <1>4, TypeCorrect, CachesCoherent, PTL DEF Spec

-----------------------------------------------------------------------------
(***************************************************************************)
(* What the controller promises to whoever emits a ClusterbookCluster: it  *)
(* implements Registration, which VclusterReconciler is composed with.     *)
(***************************************************************************)
\* The variables of Registration, as the refinement mapping gives them.
child == [c \in Clusters |-> Phase(c)]
shown == [c \in Clusters |-> Rendered(c)]

RegisteredStep == [Registered!Next]_<<child, api["source"], shown>>

\* A step changes one object of one name, if any.
OnlyOne(k, c) ==
    \A j \in Kinds, d \in Clusters : j # k \/ d # c => api'[j][d] = api[j][d]

\* A write changes the object written and no other.
LEMMA WriteOne ==
    ASSUME TypeOK, NEW writer, NEW k \in Kinds, NEW c \in Clusters,
           NEW new \in Objects(k), Write(writer, k, c, new)
    PROVE  OnlyOne(k, c)
  <1>1. api = [i \in Kinds |-> api[i]] /\ \A i \in Kinds : api[i] \in [Clusters -> Objects(i)]
    BY DEF TypeOK, StoreOK, IsStore
  <1>2. CASE new = api[k][c]
    BY <1>2 DEF Write, OnlyOne
  <1>3. CASE new # api[k][c]
    <2>1. api' = [api EXCEPT ![k] = [api[k] EXCEPT ![c] = new]]
      BY <1>1, <1>3 DEF Write
    <2>2. \A j \in Kinds : api'[j] = IF j = k THEN [api[k] EXCEPT ![c] = new] ELSE api[j]
      BY <1>1, <2>1
    <2> QED BY <1>1, <2>2 DEF OnlyOne
  <1> QED BY <1>2, <1>3

\* No step of the controller changes two objects.
LEMMA OneWrite ==
    ASSUME TypeOK, [Next]_vars
    PROVE  api' = api \/ \E k \in Kinds, c \in Clusters : OnlyOne(k, c)
  <1>1. ASSUME NEW w, NEW k \in Kinds, NEW c \in Clusters, NEW new \in Objects(k),
               Write(w, k, c, new)
        PROVE  \E j \in Kinds, d \in Clusters : OnlyOne(j, d)
    BY <1>1, WriteOne
  <1>2. ASSUME NEW m \in Managers, Reconcile(m)
        PROVE  api' = api \/ \E k \in Kinds, c \in Clusters : OnlyOne(k, c)
    BY <1>1, <1>2, ReconcileResult DEF NoWrite
  <1>3. ASSUME NEW e \in Clusters, Environment(e)
        PROVE  \E k \in Kinds, c \in Clusters : OnlyOne(k, c)
    BY <1>1, <1>3, EnvironmentWrites DEF EnvWrite
  <1> QED BY <1>2, <1>3 DEF Next, vars, k8sVars, Misfortune, FailedCall, LostReply,
       IgnoredError, Crash, Resync, Start, Deliver

-----------------------------------------------------------------------------
(***************************************************************************)
(* The moves of one name, kind by kind.                                    *)
(***************************************************************************)
\* The life of a CR: created, given the finalizer, deleted, let go.
Lives(from, to) ==
    \/ from = to
    \/ <<from, to>> \in {<<"none", "new">>, <<"new", "none">>, <<"new", "kept">>,
                         <<"kept", "deleting">>, <<"deleting", "none">>}

\* Every step moves a CR along the phases that Registration allows.
LEMMA PhaseMoves ==
    ASSUME TypeOK, Coherent, Discipline, [Next]_vars, NEW c \in Clusters
    PROVE  Lives(Phase(c), Phase(c)')
  <1>1. "cr" \in Kinds /\ Objects("cr") = CRs \cup {None}
    BY DEF Kinds, Objects
  <1>2. api["cr"][c] \in CRs \cup {None}
    BY <1>1, StoreObjects
  <1>3. ASSUME api'["cr"][c] = api["cr"][c] PROVE Lives(Phase(c), Phase(c)')
    BY <1>3 DEF Lives, Phase
  <1>4. ASSUME NEW m \in Managers, Reconcile(m), CRChange(m, c)
        PROVE  Lives(Phase(c), Phase(c)')
    <2>1. obj[m] \in CRs /\ loc[m] \in Locals /\ obj[m] = api["cr"][c]
      BY <1>4, ReconcileResult DEF CRChange, Coherent, CopyCurrent
    <2>2. Disciplined(m) /\ api["cr"][c] # None
      BY <2>1, ObjectAssumption DEF Discipline
    <2>3. CASE AddFinalizer(m) /\ api'["cr"][c] = [obj[m] EXCEPT !.fin = TRUE]
      <3> DEFINE new == [obj[m] EXCEPT !.fin = TRUE]
      <3>1. new # None /\ new.fin /\ new.deleting = obj[m].deleting
        BY <2>1, ObjectAssumption DEF CRs
      <3>2. ~obj[m].fin /\ ~obj[m].deleting
        BY <2>2, <2>3 DEF AddFinalizer, Disciplined
      <3>3. api'["cr"][c] = new
        BY <2>3
      <3> HIDE DEF new
      <3> QED BY <2>1, <2>2, <3>1, <3>2, <3>3 DEF Lives, Phase
    <2>4. CASE UpdateStatus(m) /\ api'["cr"][c] = NewStatus(m)
      <3>1. (IF loc[m].info = "nil" THEN obj[m].info ELSE loc[m].info) \in Infos
        BY <2>1 DEF CRs, Locals
      <3>2. /\ NewStatus(m) \in CRs
            /\ NewStatus(m).fin = obj[m].fin /\ NewStatus(m).deleting = obj[m].deleting
        BY <2>1, <3>1 DEF NewStatus, CRs, Locals
      <3> QED BY <2>1, <2>2, <2>4, <3>2, ObjectAssumption DEF Lives, Phase
    <2>5. CASE RemoveFinalizer(m) /\ api'["cr"][c] = None
      <3>1. obj[m].deleting
        BY <2>2, <2>5 DEF RemoveFinalizer, Disciplined, Finalizing
      <3> QED BY <2>1, <2>2, <2>5, <3>1 DEF Lives, Phase
    <2> QED BY <1>4, <2>3, <2>4, <2>5 DEF CRChange
  <1>5. ASSUME Created(c) PROVE Lives(Phase(c), Phase(c)')
    <2>1. PICK u \in Nat, s \in SpecChoices : api'["cr"][c] = NewCR(u, s)
      BY <1>5 DEF Created
    <2>2. NewCR(u, s) \in CRs
      BY DEF NewCR, CRs, Ranges, Infos, Conds
    <2>3. ~NewCR(u, s).fin /\ ~NewCR(u, s).deleting
      BY DEF NewCR
    <2> QED BY <1>5, <2>1, <2>2, <2>3, ObjectAssumption DEF Created, Lives, Phase
  <1>6. ASSUME Edited(c) PROVE Lives(Phase(c), Phase(c)')
    <2>1. PICK s \in SpecChoices : api'["cr"][c] = [api["cr"][c] EXCEPT !.spec = s]
      BY <1>6 DEF Edited
    <2> DEFINE old == api["cr"][c]
               new == [old EXCEPT !.spec = s]
    <2>2. new \in CRs /\ new.fin = old.fin /\ new.deleting = old.deleting
      BY <1>2, <1>6 DEF Edited, CRs
    <2>3. api'["cr"][c] = new
      BY <2>1
    <2> HIDE DEF new
    <2> QED BY <1>6, <2>2, <2>3, ObjectAssumption DEF Edited, Lives, Phase
  <1>7. ASSUME Deleted(c) PROVE Lives(Phase(c), Phase(c)')
    <2> DEFINE old == api["cr"][c]
               new == [old EXCEPT !.deleting = TRUE]
    <2>1. new \in CRs /\ new.deleting
      BY <1>2, <1>7 DEF Deleted, CRs
    <2>2. api'["cr"][c] = IF old.fin THEN new ELSE None
      BY <1>7 DEF Deleted
    <2> HIDE DEF new
    <2> QED BY <1>7, <2>1, <2>2, ObjectAssumption DEF Deleted, Lives, Phase
  <1>8. ASSUME NEW e \in Clusters, Environment(e) PROVE Lives(Phase(c), Phase(c)')
    BY <1>3, <1>5, <1>6, <1>7, <1>8, EnvironmentEffect
  <1>9. ASSUME NEW m \in Managers, Reconcile(m) PROVE Lives(Phase(c), Phase(c)')
    BY <1>3, <1>4, <1>9, StepWrites
  <1> QED BY <1>3, <1>8, <1>9 DEF Next, vars, k8sVars, Misfortune, FailedCall, LostReply,
       IgnoredError, Crash, Resync, Start, Deliver

\* A rendered Secret is written only for a CR with the finalizer, with a
\* revision there has been, and never an older one.
MayRender(c, r) ==
    /\ Phase(c) \in {"kept", "deleting"}
    /\ r \in 1..api["source"][c] /\ r >= Rendered(c)

\* Every step leaves the rendered revision, removes it, or renders as allowed.
LEMMA RenderMoves ==
    ASSUME TypeOK, Discipline, RevisionsOrdered, [Next]_vars, NEW c \in Clusters
    PROVE  Rendered(c)' \in {Rendered(c), 0} \/ MayRender(c, Rendered(c)')
  <1>1. ASSUME api'["argo"][c] \in {api["argo"][c], None}
        PROVE  Rendered(c)' \in {Rendered(c), 0}
    BY <1>1 DEF Rendered
  <1>2. ASSUME NEW m \in Managers, Reconcile(m), UpsertArgoSecret(m), c = key[m],
               api'["argo"][c] = Desired(m)
        PROVE  MayRender(c, Rendered(c)')
    <2>1. Desired(m) # None /\ Desired(m).rev = loc[m].rev
      <3>1. obj[m] \in CRs /\ loc[m] \in Locals
        BY <1>2, ReconcileResult
      <3>2. Desired(m) \in ArgoSecrets
        BY <3>1 DEF Desired, ArgoSecrets, CRs, Locals
      <3> QED BY <3>2, ObjectAssumption DEF Desired
    <2>2. Rendered(c)' = loc[m].rev
      BY <1>2, <2>1 DEF Rendered
    <2>3. /\ loc[m].rev # 0 /\ loc[m].rev <= view[m]["source"][c]
          /\ view[m]["source"][c] <= api["source"][c]
          /\ api["argo"][c] # None => api["argo"][c].rev <= loc[m].rev
      BY <1>2 DEF UpsertArgoSecret, RevisionsOrdered
    <2>4. /\ loc[m].rev \in Nat /\ view[m]["source"][c] \in Nat /\ api["source"][c] \in Nat
          /\ api["argo"][c] # None => api["argo"][c].rev \in Nat
      BY RevisionTypes
    <2>5. loc[m].rev \in 1..api["source"][c] /\ loc[m].rev >= Rendered(c)
      BY <2>3, <2>4 DEF Rendered
    <2>6. Phase(c) \in {"kept", "deleting"}
      BY <1>2 DEF UpsertArgoSecret, Discipline, Disciplined, Working, Adopted, Phase
    <2> QED BY <2>2, <2>5, <2>6 DEF MayRender
  <1>3. ASSUME NEW m \in Managers, Reconcile(m)
        PROVE  Rendered(c)' \in {Rendered(c), 0} \/ MayRender(c, Rendered(c)')
    BY <1>1, <1>2, <1>3, StepWrites DEF ArgoChange
  <1>4. ASSUME NEW e \in Clusters, Environment(e)
        PROVE  Rendered(c)' \in {Rendered(c), 0}
    BY <1>1, <1>4, EnvironmentEffect
  <1> QED BY <1>1, <1>3, <1>4 DEF Next, vars, k8sVars, Misfortune, FailedCall, LostReply,
       IgnoredError, Crash, Resync, Start, Deliver

\* The kubeconfig Secret is written by its user alone.
LEMMA SourceMoves ==
    ASSUME TypeOK, [Next]_vars, NEW c \in Clusters
    PROVE  api'["source"][c] \in {api["source"][c], api["source"][c] + 1}
  <1>1. ASSUME NEW m \in Managers, Reconcile(m) PROVE api'["source"][c] = api["source"][c]
    BY <1>1, StepWrites
  <1>2. ASSUME NEW e \in Clusters, Environment(e)
        PROVE  api'["source"][c] \in {api["source"][c], api["source"][c] + 1}
    BY <1>2, EnvironmentEffect
  <1> QED BY <1>1, <1>2 DEF Next, vars, k8sVars, Misfortune, FailedCall, LostReply,
       IgnoredError, Crash, Resync, Start, Deliver

-----------------------------------------------------------------------------
(***************************************************************************)
(* Every step is a step of Registration, or none.                          *)
(***************************************************************************)
LEMMA NextRegisters ==
    ASSUME TypeOK, Coherent, Discipline, RevisionsOrdered, [Next]_vars
    PROVE  RegisteredStep
  <1> DEFINE source == api["source"]
  <1>1. {"cr", "argo", "source"} \subseteq Kinds /\ Objects("source") = Nat
    BY DEF Kinds, Objects
  <1>2. source \in [Clusters -> Nat] /\ source' \in [Clusters -> Nat]
    <2>1. TypeOK'
      BY NextType
    <2> QED BY <1>1, <2>1 DEF TypeOK, StoreOK, IsStore
  <1>3. CASE api' = api
    BY <1>3 DEF RegisteredStep, child, shown, Phase, Rendered
  <1>4. ASSUME NEW k \in Kinds, NEW c \in Clusters, OnlyOne(k, c) PROVE RegisteredStep
    <2>1. k # "cr" => child' = child
      BY <1>1, <1>4 DEF OnlyOne, child, Phase
    <2>2. k # "argo" => shown' = shown
      BY <1>1, <1>4 DEF OnlyOne, shown, Rendered
    <2>3. k # "source" => source' = source
      BY <1>1, <1>2, <1>4 DEF OnlyOne
    <2>4. CASE k = "cr"
      <3>1. \A d \in Clusters : d # c => Phase(d)' = Phase(d)
        BY <1>1, <1>4, <2>4 DEF OnlyOne, Phase
      <3>2. child' = [child EXCEPT ![c] = Phase(c)'] /\ child[c] = Phase(c)
        BY <3>1 DEF child
      <3>3. Lives(Phase(c), Phase(c)')
        BY PhaseMoves
      <3>4. CASE Phase(c)' = Phase(c)
        <4>1. child' = child
          BY <3>2, <3>4 DEF child
        <4> QED BY <2>2, <2>3, <2>4, <4>1 DEF RegisteredStep
      <3>5. ASSUME NEW to, Phase(c)' = to PROVE Registered!Child(c, Phase(c), to)
        BY <2>2, <2>3, <2>4, <3>2, <3>5 DEF Registered!Child, child, shown
      <3>6. CASE Phase(c)' # Phase(c)
        <4>1. \/ Registered!Create(c) \/ Registered!Drop(c) \/ Registered!Delete(c)
              \/ Registered!Adopt(c) \/ Registered!Retire(c)
          BY <3>3, <3>5, <3>6 DEF Lives, Registered!Create, Registered!Drop,
             Registered!Delete, Registered!Adopt, Registered!Retire
        <4> QED BY <4>1 DEF RegisteredStep, Registered!Next
      <3> QED BY <3>4, <3>6
    <2>5. CASE k = "argo"
      <3>1. \A d \in Clusters : d # c => Rendered(d)' = Rendered(d)
        BY <1>1, <1>4, <2>5 DEF OnlyOne, Rendered
      <3>2. shown' = [shown EXCEPT ![c] = Rendered(c)'] /\ shown[c] = Rendered(c)
        BY <3>1 DEF shown
      <3>3. Registered!Show(c, Rendered(c)')
        BY <2>1, <2>3, <2>5, <3>2 DEF Registered!Show, child, shown
      <3>4. CASE Rendered(c)' = Rendered(c)
        <4>1. shown' = shown
          BY <3>2, <3>4 DEF shown
        <4> QED BY <2>1, <2>3, <2>5, <4>1 DEF RegisteredStep
      <3>5. CASE Rendered(c)' = 0
        BY <3>3, <3>5 DEF RegisteredStep, Registered!Next, Registered!Remove
      <3>6. CASE MayRender(c, Rendered(c)')
        <4>1. Registered!Render(c, Rendered(c)')
          BY <3>3, <3>6 DEF MayRender, Registered!Render
        <4> QED BY <3>6, <4>1 DEF MayRender, RegisteredStep, Registered!Next
      <3> QED BY <3>4, <3>5, <3>6, RenderMoves
    <2>6. CASE k = "source"
      <3>1. \A d \in Clusters : d # c => source'[d] = source[d]
        BY <1>1, <1>4, <2>6 DEF OnlyOne
      <3>2. source'[c] \in {source[c], source[c] + 1}
        BY SourceMoves
      <3>3. source' = source \/ source' = [source EXCEPT ![c] = source[c] + 1]
        BY <1>2, <3>1, <3>2
      <3>4. CASE source' = source
        BY <2>1, <2>2, <2>6, <3>4 DEF RegisteredStep
      <3>5. CASE source' = [source EXCEPT ![c] = source[c] + 1]
        <4>1. Registered!Rotate(c)
          BY <2>1, <2>2, <2>6, <3>5 DEF Registered!Rotate, child, shown
        <4> QED BY <4>1 DEF RegisteredStep, Registered!Next
      <3> QED BY <3>3, <3>4, <3>5
    <2>7. CASE k \notin {"cr", "argo", "source"}
      BY <2>1, <2>2, <2>3, <2>7 DEF RegisteredStep
    <2> QED BY <2>4, <2>5, <2>6, <2>7
  <1> QED BY <1>3, <1>4, OneWrite

(***************************************************************************)
(* With one manager the controller implements Registration, whatever specs *)
(* users write and however often they edit, delete and recreate a CR: a    *)
(* Secret is rendered only while a CR with the finalizer stands behind it, *)
(* from a revision there has been, and never goes back to an older one.    *)
(***************************************************************************)
THEOREM RefinesRegistration ==
    ASSUME SingleManager
    PROVE  Spec => ImplementsRegistration
  <1>1. Init => Registered!Init
    BY DEF Init, Registered!Init, Phase, Rendered, Kinds
  <1>2. TypeOK /\ Coherent /\ Discipline /\ RevisionsOrdered /\ [Next]_vars
           => [Registered!Next]_<<child, api["source"], shown>>
    BY NextRegisters DEF RegisteredStep
  <1>3. Spec => []Discipline
    BY AlwaysDiscipline
  <1>4. Spec => []RevisionsOrdered
    BY AlwaysRevisions
  <1> QED BY <1>1, <1>2, <1>3, <1>4, TypeCorrect, CachesCoherent, PTL
          DEF Spec, ImplementsRegistration, Registered!Spec, child, shown
====
