---------------------------- MODULE VclusterProofs ----------------------------
(***************************************************************************)
(* Theorems about the Vcluster controller, for every number of names and   *)
(* addresses and every bound: its types, the reservation it implements,    *)
(* and what it asks of the ClusterbookCluster controller it works with.    *)
(***************************************************************************)
EXTENDS VclusterReconciler, ControllerProofs

\* The kubeconfig Secrets, their revisions and the Applications.
PublishedForm ==
    /\ ext \in [Names -> Seq({"fqdn", "service"})] /\ argo \in [Names -> Nat]
    /\ \A n \in Names :
          /\ argo[n] <= Len(ext[n])
          /\ api[External(n)] # None =>
                api[External(n)] \in [uid : Nat, rev : 1..Len(ext[n])]
          /\ api[App(n)] # None => api[App(n)] \in Applications
          /\ api[Child(n)] \in Children \cup {None}

\* GetClusterInfo is asked about an address.
Asked == pc = "info" => loc.ip # None

Typed == Life(Vclusters) /\ PublishedForm /\ Asked

-----------------------------------------------------------------------------
(***************************************************************************)
(* Every step of the controller is one of the moves of ControllerProofs.   *)
(***************************************************************************)
\* Vclusters are a sort of CRs.
LEMMA VclusterSort == CRSort(Vclusters)
  BY VclusterAssumption DEF CRSort, Vclusters, BaseOK

\* The objects of a Vcluster are objects apart.
LEMMA Apart ==
    ASSUME NEW n \in Names
    PROVE  /\ Child(n) \in Cached /\ External(n) \in Cached
           /\ App(n) \in Live /\ Upstream(n) \in Live
           /\ {n, Child(n), External(n), App(n), Upstream(n)} \subseteq Objects
           /\ {Child(n), External(n), App(n), Upstream(n)} \cap Names = {}
           /\ External(n) # App(n) /\ Child(n) # App(n) /\ Child(n) # External(n)
           /\ Upstream(n) # App(n) /\ Upstream(n) # External(n) /\ Upstream(n) # Child(n)
           /\ \A m \in Names :
                 /\ External(m) # Child(n) /\ External(m) # App(n) /\ External(m) # Upstream(n)
                 /\ App(m) # Child(n) /\ App(m) # External(n) /\ App(m) # Upstream(n)
                 /\ Child(m) # Upstream(n)
                 /\ External(m) = External(n) => m = n
                 /\ App(m) = App(n) => m = n
                 /\ Child(m) = Child(n) => m = n
                 /\ m # Child(n) /\ m # External(n) /\ m # App(n) /\ m # Upstream(n)
  <1>1. /\ Child(n) \in Cached /\ External(n) \in Cached
        /\ App(n) \in Live /\ Upstream(n) \in Live
    BY VclusterAssumption
  <1>2. \A m \in Names : /\ m \notin Cached \cup Live
    BY ControllerAssumption
  <1>3. \A m \in Names :
           /\ External(m) # Child(n) /\ External(m) # App(n) /\ External(m) # Upstream(n)
           /\ App(m) # Child(n) /\ App(m) # External(n) /\ App(m) # Upstream(n)
           /\ Child(m) # Upstream(n)
           /\ External(m) = External(n) => m = n
           /\ App(m) = App(n) => m = n
           /\ Child(m) = Child(n) => m = n
    BY DEF External, Child, App, Upstream
  <1>4. /\ External(n) # App(n) /\ Child(n) # App(n) /\ Child(n) # External(n)
        /\ Upstream(n) # App(n) /\ Upstream(n) # External(n) /\ Upstream(n) # Child(n)
    BY DEF External, Child, App, Upstream
  <1> QED BY <1>1, <1>2, <1>3, <1>4 DEF Objects

\* A write of one object leaves the others alone.
LEMMA OthersKept ==
    ASSUME StoreForm, NEW o \in Objects, NEW new, Put(o, new) \/ NoPut, view' = view
    PROVE  \A n \in Names : /\ o # External(n) => api'[External(n)] = api[External(n)]
                            /\ o # App(n) => api'[App(n)] = api[App(n)]
                            /\ o # Child(n) => api'[Child(n)] = api[Child(n)]
  <1> SUFFICES ASSUME NEW n \in Names, NEW p \in {External(n), App(n), Child(n)}, o # p
               PROVE  api'[p] = api[p]
    OBVIOUS
  <1>1. CASE Put(o, new)
    <2>1. p \in Objects \ {o}
      BY Apart
    <2> QED BY <1>1, <2>1, PutForm
  <1>2. CASE NoPut
    BY <1>2 DEF NoPut
  <1> QED BY <1>1, <1>2

\* One step of Registration, or none, and what a step has to establish.
Phases     == [n \in Names |-> Phase(n)]
Revisions  == [n \in Names |-> Len(ext[n])]
UsesStep   == [Registered!Next]_<<Phases, Revisions, argo>>
StepTyped  == StepOK(Vclusters) /\ PublishedForm' /\ Asked' /\ UsesStep

\* What a step leaves alone.
KeepsPublished ==
    /\ UNCHANGED <<ext, argo>>
    /\ \A n \in Names : /\ api'[External(n)] = api[External(n)] /\ api'[App(n)] = api[App(n)]
                        /\ api'[Child(n)] = api[Child(n)]

\* A step that leaves children and revisions alone is none of Registration's.
LEMMA NoUse ==
    ASSUME UNCHANGED <<ext, argo>>, \A n \in Names : api'[Child(n)] = api[Child(n)]
    PROVE  UsesStep
  BY DEF UsesStep, Phases, Revisions, Phase

\* It keeps the types, too, if it leaves the Applications alone.
LEMMA KeepStep ==
    ASSUME Typed, KeepsPublished
    PROVE  PublishedForm' /\ UsesStep
  <1>1. UsesStep
    BY NoUse DEF KeepsPublished
  <1> QED BY <1>1 DEF Typed, PublishedForm, KeepsPublished

\* A child goes from one phase to the next.
LEMMA UseStep ==
    ASSUME UNCHANGED <<ext, argo>>, NEW n \in Names,
           \A m \in Names \ {n} : api'[Child(m)] = api[Child(m)],
           \/ Phase(n) = "none" /\ Phases'[n] = "new"
           \/ Phase(n) = "new" /\ Phases'[n] = "none"
           \/ Phase(n) = "kept" /\ Phases'[n] = "deleting"
           \/ Phase(n) = "deleting" /\ Phases'[n] = "none"
           \/ Phase(n) = Phases'[n]
    PROVE  UsesStep
  <1>1. Phases' = [Phases EXCEPT ![n] = Phases'[n]]
    BY DEF Phases, Phase
  <1>2. Revisions' = Revisions /\ Phases[n] = Phase(n)
    BY DEF Phases, Revisions
  <1>3. CASE Phase(n) = Phases'[n]
    <2>1. Phases' = Phases
      BY <1>1, <1>2, <1>3 DEF Phases
    <2> QED BY <1>2, <2>1 DEF UsesStep
  <1>4. CASE Phase(n) # Phases'[n]
    <2>1. \/ Registered!Create(n) \/ Registered!Drop(n) \/ Registered!Delete(n)
          \/ Registered!Retire(n)
      BY <1>1, <1>2, <1>4
         DEF Registered!Create, Registered!Drop, Registered!Delete, Registered!Retire,
             Registered!Child, Phases, Revisions
    <2> QED BY <2>1 DEF UsesStep, Registered!Next
  <1> QED BY <1>3, <1>4

\* The deletion of a child.
LEMMA DeletedUse ==
    ASSUME UNCHANGED <<ext, argo>>, NEW n \in Names, api[Child(n)] \in Children,
           api'[Child(n)] \in {Deleted(api[Child(n)]), api[Child(n)]},
           \A m \in Names \ {n} : api'[Child(m)] = api[Child(m)]
    PROVE  api'[Child(n)] \in Children \cup {None} /\ UsesStep
  <1> DEFINE c == api[Child(n)]
  <1>1. c.fin \in BOOLEAN /\ c.deleting \in BOOLEAN /\ c # None
    BY VclusterAssumption DEF Children
  <1>2. /\ [c EXCEPT !.deleting = TRUE] \in Children /\ [c EXCEPT !.deleting = TRUE] # None
        /\ [c EXCEPT !.deleting = TRUE].deleting = TRUE
    BY VclusterAssumption DEF Children
  <1>3. api'[Child(n)] \in Children \cup {None}
    BY <1>2 DEF Deleted
  <1>4. Phases'[n] = IF api'[Child(n)] = None THEN "none"
                     ELSE IF api'[Child(n)].deleting THEN "deleting"
                     ELSE IF api'[Child(n)].fin THEN "kept" ELSE "new"
    BY DEF Phases, Phase
  <1>5. Phase(n) = IF c.deleting THEN "deleting" ELSE IF c.fin THEN "kept" ELSE "new"
    BY <1>1 DEF Phase
  <1>6. CASE api'[Child(n)] = c
    BY <1>1, <1>3, <1>4, <1>5, <1>6, UseStep
  <1>7. CASE api'[Child(n)] = Deleted(c)
    <2>1. \/ c.fin /\ Phases'[n] = "deleting"
          \/ ~c.fin /\ Phases'[n] = "none"
      BY <1>1, <1>2, <1>4, <1>7 DEF Deleted
    <2>2. \/ Phase(n) = "new" /\ Phases'[n] = "none"
          \/ Phase(n) = "kept" /\ Phases'[n] = "deleting"
          \/ Phase(n) = "deleting" /\ Phases'[n] = "none"
          \/ Phase(n) = Phases'[n]
      BY <1>1, <1>5, <2>1
    <2> QED BY <1>3, <2>2, UseStep
  <1> QED BY <1>6, <1>7

\* The calls to clusterbook that reserve and release, and their absence.
LEMMA PoolCalls ==
    ASSUME Typed, EnsureReservation \/ ReserveIPs \/ ReleaseIP \/ LostReply(TRUE),
           UNCHANGED <<ext, argo>>
    PROVE  StepTyped
  <1>1. api' = api /\ view' = view
    BY DEF EnsureReservation, EnsureIP, ReserveIPs, Reserve, ReleaseIP, LostReply, k8sVars
  <1>2. PublishedForm' /\ UsesStep
    BY <1>1, KeepStep DEF KeepsPublished
  <1>3. CASE EnsureReservation /\ ~obj.spec.net
    <2>1. /\ pc = "ensure" /\ Goto("app") /\ NoPut /\ UNCHANGED <<obj, loc, births, holder, dns>>
      BY <1>3 DEF EnsureReservation, EnsureIP, k8sVars, poolVars, budgetVars, NoPut
    <2>2. StepOK(Vclusters)
      <3>1. dns' \in [IPs -> BOOLEAN]
        BY <2>1 DEF Typed, Life, WorkForm
      <3>2. PICK n \in Names : TRUE
        BY <2>1 DEF Typed, Life, WorkOf
      <3> QED BY <1>1, <2>1, <3>1, <3>2, Apart, GoStep DEF Typed, Publishing
    <2>3. Asked'
      BY <2>1 DEF Goto, Asked
    <2> QED BY <1>2, <2>2, <2>3 DEF StepTyped
  <1>4. CASE ~(EnsureReservation /\ ~obj.spec.net)
    <2>1. StepOK(Vclusters)
      BY <1>4, VclusterSort, CallStep DEF Typed, EnsureReservation, ReserveIPs, Publishing
    <2>2. Asked'
      <3>1. {"ip", "info", "seen"} \subseteq DOMAIN loc /\ None \notin IPs
        BY ControllerAssumption DEF Typed, Life, WorkForm
      <3> QED BY <1>4, <3>1
              DEF EnsureReservation, EnsureIP, Listed, Held, ReserveIPs, Reserve, ReleaseIP,
                  LostReply, Goto, Fail, Idle, Asked
    <2> QED BY <1>2, <2>1, <2>2 DEF StepTyped
  <1> QED BY <1>3, <1>4

\* What is never asked for again once GetClusterInfo has been.
LEMMA NotAsked ==
    ASSUME Goto("app") \/ Goto("upstream") \/ Goto("external") \/ Goto("child")
           \/ Goto("status") \/ Goto("unapp") \/ Goto("unfinalize") \/ Goto(AfterUndo(obj))
           \/ Fail \/ Done
    PROVE  Asked'
  BY DEF Goto, AfterUndo, Fail, Done, Idle, Asked

\* A call that writes one object or none, and goes on or fails.
LEMMA OnStep ==
    ASSUME Typed, pc # "idle", NEW o \in Cached \cup Live, NEW new, NEW step,
           Put(o, new) \/ NoPut, view' = view, UNCHANGED <<births, poolVars>>,
           \/ Fail /\ NoPut
           \/ /\ UNCHANGED <<obj, loc>> /\ Goto(step) /\ step # "info"
              /\ \/ pc \in Publishing /\ step \in Publishing
                 \/ pc \in Undoing /\ step \in Undoing \cup {"unfinalize", AfterUndo(obj)}
    PROVE  StepOK(Vclusters) /\ Asked'
  <1>1. dns' \in [IPs -> BOOLEAN] /\ UNCHANGED <<births, holder>>
    BY DEF Typed, Life, WorkForm, poolVars
  <1>2. StepOK(Vclusters)
    BY <1>1, FailStep, GoStep DEF Typed
  <1>3. Asked'
    BY DEF Fail, Idle, Goto, AfterUndo, Asked
  <1> QED BY <1>2, <1>3

\* GetClusterInfo.
LEMMA InfoStep ==
    ASSUME Typed, GetClusterInfo, UNCHANGED <<ext, argo>>
    PROVE  StepTyped
  <1>1. key \in Names
    BY DEF Typed, Life, WorkOf, GetClusterInfo, GetInfo
  <1>2. StepOK(Vclusters)
    BY <1>1, Apart, GetInfoStep DEF Typed, GetClusterInfo, Publishing
  <1>3. api' = api /\ pc' = "app"
    BY DEF GetClusterInfo, GetInfo, Goto, k8sVars
  <1> QED BY <1>2, <1>3, KeepStep DEF StepTyped, KeepsPublished, Asked

\* The Application is written.
LEMMA ApplicationStep ==
    ASSUME Typed, UpsertApplication, UNCHANGED <<ext, argo>>
    PROVE  StepTyped
  <1> DEFINE new == [uid |-> Owner, ip |-> loc.ip, san |-> loc.info = "fqdn"]
  <1>1. /\ pc # "idle" /\ pc \in Publishing /\ key \in Names /\ StoreForm
        /\ view' = view /\ UNCHANGED <<births, poolVars>> /\ loc.ip \in IPs \cup {None}
    BY DEF Typed, Life, WorkOf, WorkForm, UpsertApplication, Publishing, budgetVars
  <1>2. Put(App(key), new) /\ Goto("upstream") /\ UNCHANGED <<obj, loc>>
    BY DEF UpsertApplication
  <1>3. new \in Applications
    <2>1. Owner \in Nat
      BY <1>1 DEF Owner, Typed, Life, WorkOf, Vclusters
    <2> QED BY <1>1, <2>1 DEF Applications
  <1> HIDE DEF new
  <1>4. StepOK(Vclusters) /\ Asked'
    BY <1>1, <1>2, Apart, OnStep DEF Publishing
  <1>5. App(key) \in Objects /\ api'[App(key)] = new
    BY <1>1, <1>2, Apart, PutForm
  <1>6. \A n \in Names : /\ api'[External(n)] = api[External(n)]
                         /\ api'[Child(n)] = api[Child(n)]
                         /\ api'[App(n)] \in {new, api[App(n)]}
    BY <1>1, <1>2, <1>5, Apart, OthersKept
  <1>7. PublishedForm' /\ UsesStep
    BY <1>1, <1>3, <1>6, NoUse DEF Typed, PublishedForm
  <1> QED BY <1>4, <1>7 DEF StepTyped

\* Until the kubeconfig is there, what is known is recorded.
LEMMA UpstreamStep ==
    ASSUME Typed, ReadUpstream, UNCHANGED <<ext, argo>>
    PROVE  StepTyped
  <1> DEFINE new == [WithAddress(obj) EXCEPT !.app = TRUE]
  <1>1. /\ pc # "idle" /\ pc \in Publishing /\ key \in Names /\ StoreForm
        /\ view' = view /\ UNCHANGED <<births, poolVars>> /\ obj \in Vclusters
        /\ loc.ip \in IPs \cup {None} /\ loc.info \in Infos
    BY DEF Typed, Life, WorkOf, WorkForm, ReadUpstream, Publishing, budgetVars
  <1>2. CASE NoPut /\ Goto("external") /\ UNCHANGED <<obj, loc>>
    <2>1. StepOK(Vclusters) /\ Asked'
      BY <1>1, <1>2, Apart, OnStep DEF Publishing
    <2>2. PublishedForm' /\ UsesStep
      BY <1>2, KeepStep DEF NoPut, KeepsPublished
    <2> QED BY <2>1, <2>2 DEF StepTyped
  <1>3. CASE (IF key \in fresh THEN Put(key, new) ELSE NoPut) /\ Fail
    <2>1. WithAddress(obj) \in Vclusters /\ WithAddress(obj).ip = loc.ip
      BY <1>1 DEF WithAddress, Vclusters
    <2>2. /\ new \in Vclusters /\ new.uid = obj.uid /\ new.deleting = obj.deleting
          /\ new.fin = obj.fin /\ new.spec = obj.spec /\ new.ip = loc.ip
      BY <1>1, <2>1 DEF WithAddress, Vclusters
    <2> HIDE DEF new
    <2>3. Noted(Vclusters, new)
      BY <2>2 DEF Noted
    <2>4. StepOK(Vclusters)
      BY <1>1, <1>3, <2>2, <2>3, RecordStep DEF Typed
    <2>5. KeepsPublished
      BY <1>1, <1>3, Apart, OthersKept DEF KeepsPublished
    <2> QED BY <1>3, <2>4, <2>5, KeepStep, NotAsked DEF StepTyped
  <1> QED BY <1>2, <1>3 DEF ReadUpstream

\* The status.
LEMMA StatusStep ==
    ASSUME Typed, UpdateStatus, UNCHANGED <<ext, argo>>
    PROVE  StepTyped
  <1> DEFINE new == [WithAddress(obj) EXCEPT !.app = TRUE, !.child = obj.spec.register]
  <1>1. /\ pc # "idle" /\ pc \in Publishing /\ key \in Names /\ StoreForm
        /\ view' = view /\ UNCHANGED <<births, poolVars>> /\ obj \in Vclusters
        /\ loc.ip \in IPs \cup {None} /\ loc.info \in Infos /\ obj.spec.register \in BOOLEAN
    BY VclusterAssumption
       DEF Typed, Life, WorkOf, WorkForm, UpdateStatus, PublishStatus, Publishing, budgetVars,
           Vclusters, ValidSpecs
  <1>2. /\ IF key \in fresh THEN Put(key, new) ELSE NoPut
        /\ Done
    BY DEF UpdateStatus, PublishStatus
  <1>3. WithAddress(obj) \in Vclusters /\ WithAddress(obj).ip = loc.ip
    BY <1>1 DEF WithAddress, Vclusters
  <1>4. /\ new \in Vclusters /\ new.uid = obj.uid /\ new.deleting = obj.deleting
        /\ new.fin = obj.fin /\ new.spec = obj.spec /\ new.ip = loc.ip
    BY <1>1, <1>3 DEF WithAddress, Vclusters
  <1> HIDE DEF new
  <1>5. Noted(Vclusters, new)
    BY <1>4 DEF Noted
  <1>6. StepOK(Vclusters)
    BY <1>1, <1>2, <1>4, <1>5, RecordStep DEF Typed
  <1>7. KeepsPublished
    BY <1>1, <1>2, Apart, OthersKept DEF KeepsPublished
  <1> QED BY <1>2, <1>6, <1>7, KeepStep, NotAsked DEF StepTyped

\* A revision of the kubeconfig Secret is written.
LEMMA ExternalStep ==
    ASSUME Typed, WriteExternal, argo' = argo
    PROVE  StepTyped
  <1> DEFINE e == External(key)
             new == [uid |-> Owner, rev |-> Len(ext[key]) + 1]
             adopted == [api[e] EXCEPT !.uid = Owner]
  <1>1. /\ pc # "idle" /\ pc \in Publishing /\ key \in Names /\ StoreForm
        /\ view' = view /\ UNCHANGED <<births, poolVars>> /\ obj.spec.register \in BOOLEAN
    BY VclusterAssumption
       DEF Typed, Life, WorkOf, WorkForm, WriteExternal, Publishing, budgetVars, Vclusters, ValidSpecs
  <1>2. /\ \/ Put(e, new) /\ ext' = [ext EXCEPT ![key] = Append(@, Server)]
           \/ Put(e, adopted) /\ ext' = ext /\ api[e] # None
           \/ NoPut /\ ext' = ext
        /\ \/ Fail /\ NoPut
           \/ UNCHANGED <<obj, loc>> /\ Goto(IF obj.spec.register THEN "child" ELSE "status")
    <2>1. synced[e] => view[e] = api[e]
      BY <1>1, Apart DEF StoreForm
    <2> QED BY <2>1 DEF WriteExternal, Published
  <1>3. Owner \in Nat /\ Len(ext[key]) \in Nat
    BY <1>1 DEF Owner, Typed, Life, WorkOf, Vclusters, PublishedForm
  <1>4. new \in [uid : Nat, rev : 1..(Len(ext[key]) + 1)]
    BY <1>3
  <1>5. api[e] # None => adopted \in [uid : Nat, rev : 1..Len(ext[key])]
    BY <1>1, <1>3 DEF Typed, PublishedForm
  <1> HIDE DEF new, adopted
  <1>6. StepOK(Vclusters) /\ Asked'
    BY <1>1, <1>2, Apart, OnStep DEF Publishing
  <1>7. CASE NoPut /\ ext' = ext
    BY <1>6, <1>7, KeepStep DEF NoPut, KeepsPublished, StepTyped
  <1>8. CASE Put(e, adopted) /\ ext' = ext /\ api[e] # None
    <2>1. e \in Objects /\ api'[e] = adopted
      BY <1>1, <1>8, Apart, PutForm
    <2>2. \A n \in Names : /\ api'[App(n)] = api[App(n)] /\ api'[Child(n)] = api[Child(n)]
                           /\ n # key => api'[External(n)] = api[External(n)]
      BY <1>1, <1>8, <2>1, Apart, OthersKept
    <2>3. PublishedForm' /\ UsesStep
      BY <1>5, <1>8, <2>1, <2>2, NoUse DEF Typed, PublishedForm
    <2> QED BY <1>6, <2>3 DEF StepTyped
  <1>9. CASE Put(e, new) /\ ext' = [ext EXCEPT ![key] = Append(@, Server)]
    <2>1. /\ Server \in {"fqdn", "service"} /\ ext[key] \in Seq({"fqdn", "service"})
          /\ ext \in [Names -> Seq({"fqdn", "service"})]
      BY <1>1 DEF Server, Typed, PublishedForm
    <2>2. /\ Append(ext[key], Server) \in Seq({"fqdn", "service"})
          /\ Len(Append(ext[key], Server)) = Len(ext[key]) + 1 /\ Len(ext[key]) \in Nat
      BY <2>1
    <2>3. /\ ext' \in [Names -> Seq({"fqdn", "service"})]
          /\ Len(ext'[key]) = Len(ext[key]) + 1
          /\ \A n \in Names : Len(ext'[n]) \in Nat /\ Len(ext[n]) \in Nat /\ Len(ext[n]) <= Len(ext'[n])
      <3>1. ext' \in [Names -> Seq({"fqdn", "service"})]
        BY <1>1, <1>9, <2>1, <2>2
      <3>2. Len(ext'[key]) = Len(ext[key]) + 1
        BY <1>1, <1>9, <2>1, <2>2
      <3>3. ASSUME NEW n \in Names
            PROVE  Len(ext'[n]) \in Nat /\ Len(ext[n]) \in Nat /\ Len(ext[n]) <= Len(ext'[n])
        <4>1. Len(ext[n]) \in Nat /\ Len(ext'[n]) \in Nat
          BY <2>1, <3>1
        <4>2. n # key => ext'[n] = ext[n]
          BY <1>9, <2>1
        <4> QED BY <2>2, <3>2, <4>1, <4>2
      <3> QED BY <3>1, <3>2, <3>3
    <2>4. e \in Objects /\ api'[e] = new
      BY <1>1, <1>9, Apart, PutForm
    <2>5. \A n \in Names : /\ api'[App(n)] = api[App(n)] /\ api'[Child(n)] = api[Child(n)]
                           /\ n # key => api'[External(n)] = api[External(n)]
      BY <1>1, <1>9, <2>4, Apart, OthersKept
    <2>6. UsesStep
      <3>1. Phases' = Phases
        BY <2>5 DEF Phases, Phase
      <3>2. Revisions' = [Revisions EXCEPT ![key] = @ + 1]
        <4>1. \A n \in Names : n # key => ext'[n] = ext[n]
          BY <1>9, <2>1
        <4> QED BY <1>1, <2>3, <4>1 DEF Revisions
      <3>3. ASSUME NEW n \in Names, n = key
            PROVE  Registered!Rotate(n)
        BY <3>1, <3>2, <3>3 DEF Registered!Rotate, Phases, Revisions
      <3>4. \E n \in Names : Registered!Rotate(n)
        BY <1>1, <3>3
      <3> QED BY <3>4 DEF UsesStep, Registered!Next
    <2>7. PublishedForm'
      <3>1. argo' \in [Names -> Nat]
        BY DEF Typed, PublishedForm
      <3>2. ASSUME NEW n \in Names
            PROVE  /\ argo'[n] <= Len(ext'[n])
                   /\ api'[External(n)] # None =>
                         api'[External(n)] \in [uid : Nat, rev : 1..Len(ext'[n])]
                   /\ api'[App(n)] # None => api'[App(n)] \in Applications
                   /\ api'[Child(n)] \in Children \cup {None}
        <4>1. /\ argo[n] <= Len(ext[n]) /\ argo[n] \in Nat
              /\ api[External(n)] # None =>
                    api[External(n)] \in [uid : Nat, rev : 1..Len(ext[n])]
              /\ api[App(n)] # None => api[App(n)] \in Applications
              /\ api[Child(n)] \in Children \cup {None}
          BY DEF Typed, PublishedForm
        <4>2. CASE n = key
          BY <1>4, <2>2, <2>3, <2>4, <2>5, <4>1, <4>2
        <4>3. CASE n # key
          BY <2>3, <2>5, <4>1, <4>3
        <4> QED BY <4>2, <4>3
      <3> QED BY <2>3, <3>1, <3>2 DEF PublishedForm
    <2> QED BY <1>6, <2>6, <2>7 DEF StepTyped
  <1> QED BY <1>2, <1>7, <1>9, <1>8

\* The child is written and deleted, and the Application deleted.
LEMMA ChildSteps ==
    ASSUME Typed, UpsertChild \/ DeleteChildCluster \/ DeleteApplication, UNCHANGED <<ext, argo>>
    PROVE  StepTyped
  <1>1. /\ pc # "idle" /\ key \in Names /\ StoreForm
        /\ view' = view /\ UNCHANGED <<births, poolVars>>
    BY DEF Typed, Life, WorkOf, UpsertChild, DeleteChildCluster, DeleteApplication, budgetVars
  <1>2. CASE UpsertChild \/ DeleteChildCluster
    <2>1. PICK new : Put(Child(key), new) \/ NoPut
      BY <1>2 DEF UpsertChild, DeleteChildCluster
    <2>2. \/ Fail /\ NoPut
          \/ pc \in Publishing /\ Goto("status") /\ UNCHANGED <<obj, loc>>
          \/ pc \in Undoing /\ Goto("unapp") /\ UNCHANGED <<obj, loc>>
      BY <1>2 DEF UpsertChild, DeleteChildCluster, Publishing, Undoing
    <2>3. StepOK(Vclusters) /\ Asked'
      BY <1>1, <2>1, <2>2, Apart, OnStep DEF Publishing, Undoing
    <2>4. Child(key) \in Objects
      BY <1>1, Apart
    <2>5. \A n \in Names : /\ api'[External(n)] = api[External(n)] /\ api'[App(n)] = api[App(n)]
                           /\ n # key => api'[Child(n)] = api[Child(n)]
      BY <1>1, <2>1, <2>4, Apart, OthersKept
    <2>6. api'[Child(key)] \in Children \cup {None} /\ UsesStep
      <3>1. CASE NoPut
        BY <1>1, <3>1, NoUse DEF NoPut, Typed, PublishedForm
      <3>2. CASE UpsertChild /\ ~NoPut
        <4> DEFINE c == [uid |-> Owner, fin |-> FALSE, deleting |-> FALSE]
                   adopted == [api[Child(key)] EXCEPT !.uid = Owner]
        <4>1. Owner \in Nat
          BY <1>1 DEF Owner, Typed, Life, WorkOf, Vclusters
        <4>2. \/ Put(Child(key), c) /\ api[Child(key)] = None
              \/ Put(Child(key), adopted) /\ api[Child(key)] # None
          <5>1. synced[Child(key)] => view[Child(key)] = api[Child(key)]
            BY <1>1, Apart DEF StoreForm
          <5> QED BY <3>2, <5>1 DEF UpsertChild
        <4>3. c \in Children /\ c # None /\ ~c.fin /\ ~c.deleting
          <5>1. c \in Children
            BY <4>1 DEF Children
          <5> QED BY <5>1, VclusterAssumption
        <4>4. api[Child(key)] # None =>
                 /\ adopted \in Children /\ adopted # None
                 /\ adopted.fin = api[Child(key)].fin
                 /\ adopted.deleting = api[Child(key)].deleting
          <5>1. api[Child(key)] # None => api[Child(key)] \in Children
            BY <1>1 DEF Typed, PublishedForm
          <5>2. api[Child(key)] # None => adopted \in Children
            BY <4>1, <5>1 DEF Children
          <5> QED BY <5>1, <5>2, VclusterAssumption DEF Children
        <4> HIDE DEF c, adopted
        <4>5. CASE Put(Child(key), c) /\ api[Child(key)] = None
          <5>1. api'[Child(key)] = c
            BY <1>1, <2>4, <4>5, PutForm
          <5>2. Phase(key) = "none" /\ Phases'[key] = "new"
            BY <1>1, <4>3, <4>5, <5>1 DEF Phase, Phases
          <5> QED BY <1>1, <2>5, <4>3, <5>1, <5>2, UseStep
        <4>6. CASE Put(Child(key), adopted) /\ api[Child(key)] # None
          <5>1. api'[Child(key)] = adopted
            BY <1>1, <2>4, <4>6, PutForm
          <5>2. Phase(key) = Phases'[key]
            BY <1>1, <4>4, <4>6, <5>1 DEF Phase, Phases
          <5> QED BY <1>1, <2>5, <4>4, <4>6, <5>1, <5>2, UseStep
        <4> QED BY <4>2, <4>5, <4>6
      <3>3. CASE DeleteChildCluster /\ ~NoPut
        <4>1. api[Child(key)] # None /\ Put(Child(key), Deleted(api[Child(key)]))
          BY <3>3 DEF DeleteChildCluster
        <4>2. api[Child(key)] \in Children /\ api'[Child(key)] = Deleted(api[Child(key)])
          BY <1>1, <2>4, <4>1, PutForm DEF Typed, PublishedForm
        <4> QED BY <1>1, <2>5, <4>2, DeletedUse
      <3> QED BY <1>2, <3>1, <3>2, <3>3
    <2> QED BY <1>1, <2>3, <2>5, <2>6 DEF StepTyped, Typed, PublishedForm
  <1>3. CASE DeleteApplication
    <2>1. Put(App(key), None) \/ NoPut
      BY <1>3 DEF DeleteApplication
    <2>2. PICK step \in {"unfinalize", AfterUndo(obj)} :
             pc \in Undoing /\ Goto(step) /\ UNCHANGED <<obj, loc>>
      BY <1>3 DEF DeleteApplication, Undoing
    <2>3. step # "info"
      BY <2>2 DEF AfterUndo
    <2>4. StepOK(Vclusters) /\ Asked'
      BY <1>1, <2>1, <2>2, <2>3, Apart, OnStep
    <2>5. App(key) \in Objects
      BY <1>1, Apart
    <2>6. \A n \in Names : /\ api'[External(n)] = api[External(n)]
                           /\ api'[Child(n)] = api[Child(n)]
                           /\ api'[App(n)] \in {None, api[App(n)]}
      BY <1>1, <2>1, <2>5, Apart, OthersKept, PutForm DEF NoPut
    <2>7. PublishedForm' /\ UsesStep
      BY <2>6, NoUse DEF Typed, PublishedForm
    <2> QED BY <2>4, <2>7 DEF StepTyped
  <1> QED BY <1>2, <1>3

\* The worker's own writes to its CR.
LEMMA OwnSteps ==
    ASSUME Typed, AddFinalizer \/ RemoveFinalizer, UNCHANGED <<ext, argo>>
    PROVE  StepTyped
  <1>1. key \in Names /\ view' = view /\ StoreForm
    BY DEF Typed, Life, WorkOf, AddFinalizer, RemoveFinalizer
  <1>2. \E new : Put(key, new) \/ NoPut
    BY DEF AddFinalizer, UpdateCR, RemoveFinalizer
  <1>3. KeepsPublished
    BY <1>1, <1>2, Apart, OthersKept DEF KeepsPublished
  <1>4. StepOK(Vclusters)
    BY VclusterSort, AddFinalizerStep, RemoveFinalizerStep DEF Typed
  <1>5. Asked'
    BY DEF AddFinalizer, UpdateCR, RemoveFinalizer, Goto, Fail, Done, Idle, Asked
  <1> QED BY <1>3, <1>4, <1>5, KeepStep DEF StepTyped

\* Errors and crashes.
LEMMA FaultSteps ==
    ASSUME Typed, UNCHANGED <<ext, argo>>,
           \/ FailedCall({"app", "upstream", "external", "child", "undo", "unapp"})
           \/ IgnoredError("app") \/ Crash
    PROVE  StepTyped
  <1>1. StepOK(Vclusters)
    <2>1. CASE IgnoredError("app")
      <3>1. PICK n \in Names : TRUE
        BY <2>1 DEF IgnoredError, Typed, Life, WorkOf
      <3> QED BY <2>1, <3>1, Apart, IgnoredErrorStep DEF Typed, Publishing
    <2> QED BY <2>1, FailedCallStep, CrashStep DEF Typed
  <1>2. api' = api
    BY DEF FailedCall, IgnoredError, Crash, k8sVars
  <1>3. Asked'
    BY DEF FailedCall, IgnoredError, Crash, Restart, Goto, Fail, Done, Idle, Asked
  <1> QED BY <1>1, <1>2, <1>3, KeepStep DEF StepTyped, KeepsPublished

\* What users do to the Vclusters.
LEMMA UserSteps ==
    ASSUME Typed, NEW n \in Names, UNCHANGED <<ext, argo>>,
           CreateCR(n, NewVcluster) \/ DeleteCR(n) \/ EditCR(n, SpecChoices)
    PROVE  StepTyped
  <1>1. StepOK(Vclusters)
    <2>1. CASE CreateCR(n, NewVcluster)
      <3>1. PICK s \in SpecChoices : EnvPut(n, NewVcluster(births[n] + 1, s))
        BY <2>1 DEF CreateCR
      <3>2. NewVcluster(births[n] + 1, s) \in Vclusters
        <4>1. births[n] + 1 \in Nat
          BY DEF Typed, Life, LifeOf
        <4> QED BY <4>1 DEF NewVcluster, Vclusters, Infos
      <3>3. api[n] = None /\ births' = [births EXCEPT ![n] = @ + 1]
        BY <2>1 DEF CreateCR
      <3> QED BY <3>1, <3>2, <3>3, UserStep DEF Typed, NewVcluster
    <2> QED BY <2>1, EditStep DEF Typed
  <1>2. PICK new : EnvPut(n, new)
    BY DEF CreateCR, EditCR, DeleteCR
  <1>3. KeepsPublished /\ UNCHANGED <<pc, loc>>
    BY <1>2, Apart, OthersKept DEF Typed, Life, EnvPut, KeepsPublished
  <1> QED BY <1>1, <1>3, KeepStep DEF StepTyped, Typed, Asked

\* A write of another object by somebody else.
LEMMA ElsewhereStep ==
    ASSUME Typed, NEW o \in Cached \cup Live, NEW new, EnvPut(o, new), births' = births
    PROVE  /\ StepOK(Vclusters) /\ Asked'
           /\ StoreForm /\ view' = view /\ Put(o, new) /\ api'[o] = new
  <1>1. StepOK(Vclusters)
    BY OtherStep DEF Typed
  <1>2. UNCHANGED <<pc, loc, view>> /\ Put(o, new) /\ StoreForm
    BY DEF EnvPut, Typed, Life
  <1>3. api'[o] = new
    BY <1>2, PutForm DEF Objects
  <1> QED BY <1>1, <1>2, <1>3 DEF Typed, Asked

\* ArgoCD installs the vcluster.
LEMMA InstallStep ==
    ASSUME Typed, NEW n \in Names, Install(n), UNCHANGED <<ext, argo>>
    PROVE  StepTyped
  <1>1. EnvPut(Upstream(n), "kubeconfig") /\ births' = births
    BY DEF Install, budgetVars
  <1>2. StepOK(Vclusters) /\ Asked' /\ KeepsPublished
    BY <1>1, Apart, ElsewhereStep, OthersKept DEF KeepsPublished
  <1> QED BY <1>2, KeepStep DEF StepTyped

\* The garbage collector and users delete what a Vcluster owns.
LEMMA LossSteps ==
    ASSUME Typed, NEW n \in Names, CollectOwned(n) \/ LoseOwned(n), UNCHANGED <<ext, argo>>
    PROVE  StepTyped
  <1>1. births' = births
    BY DEF CollectOwned, LoseOwned, Edit, budgetVars
  <1>2. ASSUME NEW o \in {App(n), External(n)}, EnvPut(o, None)
        PROVE  StepTyped
    <2>1. StepOK(Vclusters) /\ Asked'
      BY <1>1, <1>2, Apart, ElsewhereStep
    <2>2. \A m \in Names : /\ api'[External(m)] \in {None, api[External(m)]}
                           /\ api'[App(m)] \in {None, api[App(m)]}
                           /\ api'[Child(m)] = api[Child(m)]
      BY <1>1, <1>2, Apart, ElsewhereStep, OthersKept
    <2> QED BY <2>1, <2>2, NoUse DEF StepTyped, Typed, PublishedForm
  <1>3. CASE api[Child(n)] # None /\ EnvPut(Child(n), Deleted(api[Child(n)]))
    <2>1. StepOK(Vclusters) /\ Asked' /\ api'[Child(n)] = Deleted(api[Child(n)])
      BY <1>1, <1>3, Apart, ElsewhereStep
    <2>2. \A m \in Names : /\ api'[External(m)] = api[External(m)] /\ api'[App(m)] = api[App(m)]
                           /\ m # n => api'[Child(m)] = api[Child(m)]
      BY <1>1, <1>3, Apart, ElsewhereStep, OthersKept
    <2>3. api[Child(n)] \in Children
      BY <1>3 DEF Typed, PublishedForm
    <2>4. api'[Child(n)] \in Children \cup {None} /\ UsesStep
      BY <2>1, <2>2, <2>3, DeletedUse
    <2> QED BY <2>1, <2>2, <2>4 DEF StepTyped, Typed, PublishedForm
  <1> QED BY <1>2, <1>3 DEF CollectOwned, LoseOwned, Orphaned

\* The ClusterbookCluster controller adopts a child and lets it go.
LEMMA AdoptionSteps ==
    ASSUME Typed, NEW n \in Names, AdoptChild(n) \/ RetireChild(n)
    PROVE  StepTyped
  <1> DEFINE c == api[Child(n)]
  <1>1. UNCHANGED <<births, ext, argo>>
    BY DEF AdoptChild, RetireChild, budgetVars
  <1>2. PICK new \in Children \cup {None} : EnvPut(Child(n), new)
    <2>1. CASE AdoptChild(n)
      <3>1. c \in Children
        BY <2>1 DEF AdoptChild, Phase, Typed, PublishedForm
      <3>2. [c EXCEPT !.fin = TRUE] \in Children
        BY <3>1 DEF Children
      <3> QED BY <2>1, <3>2 DEF AdoptChild
    <2> QED BY <2>1 DEF RetireChild
  <1>3. StepOK(Vclusters) /\ Asked'
    BY <1>1, <1>2, Apart, ElsewhereStep
  <1>4. \A m \in Names : /\ api'[External(m)] = api[External(m)] /\ api'[App(m)] = api[App(m)]
                         /\ api'[Child(m)] \in Children \cup {None}
    <2>1. \A m \in Names : /\ api'[External(m)] = api[External(m)] /\ api'[App(m)] = api[App(m)]
                           /\ m # n => api'[Child(m)] = api[Child(m)]
      BY <1>1, <1>2, Apart, ElsewhereStep, OthersKept
    <2>2. api'[Child(n)] = new
      BY <1>1, <1>2, Apart, ElsewhereStep
    <2> QED BY <2>1, <2>2 DEF Typed, PublishedForm
  <1>5. UsesStep
    <2>1. Registered!Adopt(n) \/ Registered!Retire(n)
      BY DEF AdoptChild, RetireChild
    <2> QED BY <2>1 DEF UsesStep, Registered!Next
  <1> QED BY <1>1, <1>3, <1>4, <1>5 DEF StepTyped, Typed, PublishedForm

\* It writes and deletes ArgoCD cluster Secrets.
LEMMA ArgoSteps ==
    ASSUME Typed, NEW n \in Names,
           RemoveArgo(n) \/ \E r \in 1..Len(ext[n]) : RenderArgo(n, r)
    PROVE  StepTyped
  <1>1. UNCHANGED <<vars, ext>>
    BY DEF RemoveArgo, RenderArgo
  <1>2. PICK r \in 0..Len(ext[n]) : argo' = [argo EXCEPT ![n] = r]
    <2>1. CASE RemoveArgo(n)
      <3>1. argo' = [argo EXCEPT ![n] = 0]
        BY <2>1 DEF RemoveArgo, Registered!Remove, Registered!Show
      <3>2. 0 \in 0..Len(ext[n])
        BY DEF Typed, PublishedForm
      <3> QED BY <3>1, <3>2
    <2>2. ASSUME NEW r \in 1..Len(ext[n]), RenderArgo(n, r)
          PROVE  r \in 0..Len(ext[n]) /\ argo' = [argo EXCEPT ![n] = r]
      <3>1. argo' = [argo EXCEPT ![n] = r]
        BY <2>2 DEF RenderArgo, Registered!Render, Registered!Show
      <3>2. Len(ext[n]) \in Nat
        BY DEF Typed, PublishedForm
      <3> QED BY <3>1, <3>2
    <2> QED BY <2>1, <2>2
  <1>3. StepOK(Vclusters)
    BY <1>1, StillStep DEF Typed, vars, budgetVars
  <1>4. PublishedForm' /\ Asked'
    <2>1. \A m \in Names : argo'[m] \in Nat /\ argo'[m] <= Len(ext[m])
      BY <1>2 DEF Typed, PublishedForm
    <2>2. argo' \in [Names -> Nat]
      BY <1>2, <2>1 DEF Typed, PublishedForm
    <2> QED BY <1>1, <2>1, <2>2 DEF Typed, PublishedForm, Asked, vars, k8sVars, workVars
  <1>5. UsesStep
    <2>1. Registered!Remove(n) \/ \E s \in 1..Revisions[n] : Registered!Render(n, s)
      BY DEF RemoveArgo, RenderArgo, Revisions
    <2> QED BY <2>1 DEF UsesStep, Registered!Next, Revisions
  <1> QED BY <1>3, <1>4, <1>5 DEF StepTyped

\* The informers.
LEMMA DeliverySteps ==
    ASSUME Typed, Delivery
    PROVE  StepTyped
  <1>1. PICK K \in Informers : Deliver(K, Wakes)
    BY DEF Delivery
  <1>2. queue' \subseteq Names
    BY <1>1 DEF Deliver, Wakes, Typed, Life, WorkForm
  <1>3. StepOK(Vclusters)
    BY <1>1, <1>2, DeliverStep DEF Typed, Deliver, budgetVars
  <1>4. api' = api /\ UNCHANGED <<pc, loc, ext, argo>>
    BY <1>1 DEF Deliver, Delivery
  <1> QED BY <1>3, <1>4, KeepStep DEF StepTyped, KeepsPublished, Typed, Asked

\* All steps.
LEMMA NextStep ==
    ASSUME Typed, [Next]_allVars
    PROVE  StepTyped
  <1>1. CASE Reconcile
    BY <1>1, OwnSteps, PoolCalls, InfoStep, ApplicationStep, UpstreamStep, ExternalStep,
       ChildSteps, StatusStep DEF Reconcile
  <1>2. CASE Disturbance
    BY <1>2, FaultSteps, PoolCalls, UserSteps, LossSteps DEF Disturbance, Misfortune
  <1>3. CASE Delivery
    BY <1>3, DeliverySteps
  <1>4. ASSUME NEW n \in Names, StartWork(n) PROVE StepTyped
    <2>1. StepOK(Vclusters)
      BY <1>4, StartStep DEF Typed, StartWork
    <2>2. /\ api' = api /\ UNCHANGED <<ext, argo>>
          /\ pc' \in {"idle", "undo", "ensure", "finalizer"} \/ UNCHANGED <<pc, loc>>
      BY <1>4 DEF StartWork, Start, FirstStep, k8sVars
    <2> QED BY <2>1, <2>2, KeepStep DEF StepTyped, KeepsPublished, Typed, Asked
  <1>5. ASSUME NEW n \in Names, ArgoCD(n) \/ Collect(n) \/ ChildController(n) \/ Users(n)
        PROVE  StepTyped
    BY <1>5, InstallStep, LossSteps, AdoptionSteps, ArgoSteps, UserSteps
       DEF ArgoCD, Collect, ChildController, Users
  <1>6. CASE UNCHANGED allVars
    <2>1. StepOK(Vclusters)
      BY <1>6, StillStep DEF Typed, allVars, vars, budgetVars
    <2> QED BY <1>6, <2>1, KeepStep
            DEF StepTyped, KeepsPublished, Typed, Asked, allVars, vars, k8sVars, workVars
  <1> QED BY <1>1, <1>2, <1>3, <1>4, <1>5, <1>6 DEF Next

-----------------------------------------------------------------------------
(***************************************************************************)
(* The theorems.                                                           *)
(***************************************************************************)
\* The first state.
LEMMA FirstTyped ==
    ASSUME Init
    PROVE  Typed /\ Backed /\ Reserved!Init /\ Registered!Init
  <1> DEFINE others == [o \in {} |-> None]
  <1>1. InitWith(others) /\ DOMAIN others \subseteq Cached
    BY DEF Init
  <1>2. Life(Vclusters) /\ Backed /\ Reserved!Init
    BY <1>1, FirstState
  <1>3. \A n \in Names : /\ api[External(n)] = None /\ api[App(n)] = None
                         /\ api[Child(n)] = None
    BY <1>1, Apart DEF InitWith, Objects
  <1>4. pc = "idle"
    BY <1>1 DEF InitWith
  <1>5. PublishedForm
    BY <1>3 DEF Init, PublishedForm
  <1>6. Registered!Init
    BY <1>3 DEF Init, Registered!Init, Phase
  <1> QED BY <1>2, <1>4, <1>5, <1>6 DEF Typed, Asked

\* The inductive invariant.
LEMMA AlwaysTyped == Spec => []Typed
  <1>1. Typed /\ [Next]_allVars => Typed'
    BY NextStep, VclusterSort, StepLife DEF StepTyped, Typed
  <1> QED BY <1>1, FirstTyped, PTL DEF Spec

(***************************************************************************)
(* Whatever is lost, stale or fails, the CRs, their Applications, the      *)
(* revisions of the kubeconfig Secrets and what ArgoCD shows of them are   *)
(* of their types, and GetClusterInfo is asked about an address only.      *)
(***************************************************************************)
THEOREM VclusterTypes == Spec => []TypeOK
  <1>1. Typed => TypeOK
    <2> SUFFICES ASSUME Typed PROVE TypeOK
      OBVIOUS
    <2>1. WorkOK /\ \A n \in Names : api[n] \in Vclusters \cup {None}
      BY VclusterSort DEF Typed, Life, LifeOf, WorkForm, WorkOf, WorkOK, CRSort
    <2>2. pc = "info" => loc.ip \in IPs
      BY DEF Typed, Life, WorkForm, Asked
    <2>3. \A n \in Names : argo[n] \in 0..Len(ext[n])
      BY DEF Typed, PublishedForm
    <2> QED BY <2>1, <2>2, <2>3 DEF TypeOK, Typed, PublishedForm
  <1> QED BY <1>1, AlwaysTyped, PTL

(***************************************************************************)
(* The Vclusters implement Reservation, although the networkKey, and with  *)
(* it status.ip, may come and go: a retried or replayed reconcile takes no *)
(* second address, a CR in service shows one that it holds, and none is    *)
(* taken back from it.  For CRs of one name, or that never ask for their   *)
(* address to be released.                                                 *)
(***************************************************************************)
THEOREM VclusterReserves ==
    ASSUME OneName \/ NoRelease
    PROVE  Spec => ImplementsReservation
  <1>1. Typed /\ Backed /\ [Next]_allVars => Backed' /\ AbstractStep
    BY NextStep, VclusterSort, StepBacked DEF StepTyped, Typed
  <1> QED BY <1>1, FirstTyped, AlwaysTyped, PTL
     DEF Spec, ImplementsReservation, Reserved!Spec, AbstractStep

(***************************************************************************)
(* Whatever the Vcluster controller, its users and the garbage collector   *)
(* do to a child or to its kubeconfig Secret, after crashes and from stale *)
(* caches, is what Registration lets a user do: a child with a finalizer   *)
(* is only marked for deletion and the revisions only grow.  So what the   *)
(* ClusterbookCluster controller is proved to implement holds for it.      *)
(***************************************************************************)
THEOREM RegistersByContract == Spec => UsesRegistration
  <1>1. Typed /\ [Next]_allVars => [Registered!Next]_<<Phases, Revisions, argo>>
    BY NextStep DEF StepTyped, UsesStep
  <1> QED BY <1>1, FirstTyped, AlwaysTyped, PTL
     DEF Spec, UsesRegistration, Registered!Spec, Phases, Revisions
====
