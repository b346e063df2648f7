--------------------------- MODULE ControllerProofs ---------------------------
(***************************************************************************)
(* What the reconcilers over Controller have in common holds for all of    *)
(* them: the life of a CR between the API server, the cache and the        *)
(* worker, and the address it reserves.  The effect of a step on these is  *)
(* one of a few moves; a reconciler is shown to make only such moves.      *)
(***************************************************************************)
EXTENDS Controller, TLAPS

\* The pool has one user, or no CR asks for its address to be released.
OneName   == \A m, n \in Names : m = n
NoRelease == \A s \in SpecChoices : ~s.release

\* The steps after the reservation, those of Reconcile after the finalizer,
\* those that undo what was published, and those of finalize.
Publishing ==
    {"drift", "update", "info", "pool", "capture", "patch", "map", "labels",
     "app", "upstream", "external", "child", "status"}
Serving    == {"ensure", "reserve"} \cup Publishing
Undoing    == {"undo", "strip", "unapp"}
Finishing  == Undoing \cup {"release", "unfinalize"}

\* CRs are records of the CRs of a controller, closed under what is common.
CRSort(CRs) ==
    /\ None \notin CRs
    /\ \A x \in CRs :
          /\ {"uid", "deleting", "fin", "spec", "ip", "info"} \subseteq DOMAIN x
          /\ BaseOK(x)
          /\ [x EXCEPT !.fin = TRUE] \in CRs /\ [x EXCEPT !.deleting = TRUE] \in CRs
          /\ \A s \in SpecChoices : [x EXCEPT !.spec = s] \in CRs

-----------------------------------------------------------------------------
(***************************************************************************)
(* The tables keep their domains, and a cached copy marked current is.     *)
(***************************************************************************)
StoreForm ==
    /\ DOMAIN api = Names \cup Cached \cup Live
    /\ DOMAIN view = Names \cup Cached
    /\ synced \in [Names \cup Cached -> BOOLEAN]
    /\ \A o \in Names \cup Cached : synced[o] => view[o] = api[o]

WorkForm ==
    /\ queue \subseteq Names /\ fresh \subseteq Names \cup Cached
    /\ DOMAIN births = Names
    /\ holder \in [IPs -> Names \cup {None, "others"}] /\ dns \in [IPs -> BOOLEAN]
    /\ {"ip", "info", "seen"} \subseteq DOMAIN loc
    /\ loc.ip \in IPs \cup {None} /\ loc.info \in Infos

\* What the API server and the cache have of one CR.  A cached copy is of this
\* life or of an earlier one; one in service is of a CR that still is there.
Older(x, y) == x.uid <= y.uid /\ (x.uid = y.uid /\ x.deleting => y.deleting)

Kept(n, x) == api[n] # None /\ api[n].fin /\ api[n].uid = x.uid

Orderly(x) == (x.deleting => x.fin) /\ (~x.fin => x.ip = None)

LifeOf(CRs, n) ==
    /\ births[n] \in Nat
    /\ api[n] # None =>
          /\ api[n] \in CRs /\ Orderly(api[n]) /\ api[n].uid = births[n]
          /\ api[n].fin => view[n] # None /\ view[n].uid = api[n].uid
    /\ view[n] # None =>
          /\ view[n] \in CRs /\ Orderly(view[n]) /\ view[n].uid <= births[n]
          /\ api[n] # None => Older(view[n], api[n])
          /\ view[n].fin /\ ~view[n].deleting => Kept(n, view[n])

\* The worker's copy is no newer than the two others, and it is where the
\* copy's finalizer and deletion send it.
WorkOf(CRs) ==
    /\ pc \in {"idle", "finalizer"} \cup Serving \cup Finishing
    /\ pc = "idle" => key = None
    /\ pc # "idle" =>
          /\ key \in Names /\ obj \in CRs /\ obj.uid <= births[key]
          /\ api[key] # None =>
                Older(obj, api[key]) /\ (api[key].fin => api[key].uid = obj.uid)
          /\ view[key] # None =>
                Older(obj, view[key]) /\ (view[key].fin => view[key].uid = obj.uid)
          /\ obj.fin /\ ~obj.deleting => Kept(key, obj)
          /\ key \in fresh => api[key] = obj /\ view[key] # None
          /\ Orderly(obj)
    /\ pc = "finalizer"   => ~obj.fin /\ ~obj.deleting
    /\ pc \in Serving     => obj.fin /\ ~obj.deleting
    /\ pc \in Finishing   => obj.fin /\ obj.deleting
    /\ pc = "reserve"     => obj.ip = None
    /\ pc = "release"     => obj.ip # None /\ obj.spec.release

Life(CRs) == StoreForm /\ WorkForm /\ (\A n \in Names : LifeOf(CRs, n)) /\ WorkOf(CRs)

\* An address that a copy carries is assigned to its CR in the pool h, or, if
\* the CR is being deleted, has been given back.
Backs(h, n, x) ==
    x.ip # None => h[x.ip] = n \/ (OneName /\ x.deleting /\ h[x.ip] = None)

Backed ==
    /\ \A n \in Names : /\ api[n] # None => Backs(holder, n, api[n])
                        /\ view[n] # None => Backs(holder, n, view[n])
    /\ pc # "idle" => Backs(holder, key, obj)
    /\ loc.ip # None =>
          /\ pc \in Publishing /\ holder[loc.ip] = key
          /\ obj.ip # None => loc.ip = obj.ip
    /\ pc = "reserve" => Held(key) = {}

-----------------------------------------------------------------------------
(***************************************************************************)
(* The moves.                                                              *)
(***************************************************************************)
KeepsCRs == \A n \in Names : api'[n] = api[n] /\ view'[n] = view[n]

OthersSame(n) == \A m \in Names \ {n} : api'[m] = api[m] /\ births'[m] = births[m]
SameView == \A n \in Names : view'[n] = view[n]
SameWork == UNCHANGED <<holder, pc, key, obj, loc>> /\ (key \in fresh' => key \in fresh)

\* The worker stops, goes on, or is left alone.
Rests     == KeepsCRs /\ Idle /\ UNCHANGED <<births, holder>>
Onward    ==
    /\ KeepsCRs /\ UNCHANGED <<births, holder, key, obj>>
    /\ key \in fresh' => key \in fresh
    /\ loc'.ip = loc.ip
    /\ \/ pc \in Publishing \cup {"ensure"} /\ pc' \in Publishing
       \/ pc \in Undoing /\ pc' \in Undoing \cup {"unfinalize", AfterUndo(obj)}
Untouched == KeepsCRs /\ SameWork /\ UNCHANGED births

\* Caches catch up, the manager starts again.
CatchesUp ==
    /\ \A n \in Names : api'[n] = api[n] /\ view'[n] \in {api[n], view[n]}
    /\ SameWork /\ UNCHANGED births
Restarts  ==
    /\ \A n \in Names : api'[n] = api[n] /\ view'[n] = api[n]
    /\ Idle /\ UNCHANGED <<births, holder>>

\* A CR is taken up, given its finalizer, annotated or given its status, and
\* let go.
Begins(n) ==
    /\ KeepsCRs /\ UNCHANGED <<births, holder, loc>>
    /\ pc = "idle" /\ view[n] # None
    /\ pc' = FirstStep(view[n]) /\ pc' # "idle" /\ key' = n /\ obj' = view[n]
    /\ n \in fresh' => synced[n]
Writes(new) ==
    /\ key \in fresh /\ api'[key] = new /\ OthersSame(key) /\ SameView
    /\ births'[key] = births[key] /\ UNCHANGED holder
Adopts(CRs) ==
    /\ pc = "finalizer" /\ pc' = "ensure" /\ Writes([obj EXCEPT !.fin = TRUE])
    /\ obj' = [obj EXCEPT !.fin = TRUE] /\ UNCHANGED <<key, loc>>
Noted(CRs, new) ==
    /\ new \in CRs /\ new.uid = obj.uid /\ new.deleting = obj.deleting
    /\ new.fin = obj.fin /\ new.spec = obj.spec
Annotates(CRs) ==
    /\ pc \in Publishing /\ pc' \in Publishing /\ UNCHANGED key
    /\ Noted(CRs, obj') /\ obj'.ip = obj.ip /\ loc'.ip = loc.ip /\ Writes(obj')
Publishes(CRs) ==
    /\ pc \in Publishing /\ Idle
    /\ \E new \in CRs : Noted(CRs, new) /\ new.ip = loc.ip /\ Writes(new)
LetsGo == pc = "unfinalize" /\ Idle /\ Writes(None)

\* Users.
Creates(CRs, n) ==
    /\ SameView /\ SameWork /\ OthersSame(n) /\ n \notin fresh'
    /\ api[n] = None /\ births'[n] = births[n] + 1
    /\ api'[n] \in CRs /\ api'[n].uid = births'[n] /\ api'[n].ip = None
    /\ ~api'[n].deleting /\ ~api'[n].fin
Edits(CRs, n) ==
    /\ SameView /\ SameWork /\ OthersSame(n) /\ n \notin fresh'
    /\ births'[n] = births[n] /\ api[n] # None
    /\ \E s \in SpecChoices : api'[n] = [api[n] EXCEPT !.spec = s]
Deletes(n) ==
    /\ SameView /\ SameWork /\ OthersSame(n) /\ n \notin fresh'
    /\ births'[n] = births[n] /\ api[n] # None
    /\ api'[n] = IF api[n].fin THEN [api[n] EXCEPT !.deleting = TRUE] ELSE None

\* The calls that reserve and release.
Calls ==
    \/ \E after \in Publishing : EnsureIP(after) \/ \E on \in BOOLEAN : Reserve(on, after)
    \/ ReleaseIP \/ \E on \in BOOLEAN : LostReply(on)

Move(CRs) ==
    \/ Rests \/ Onward \/ Untouched \/ CatchesUp \/ Restarts
    \/ Adopts(CRs) \/ Annotates(CRs) \/ Publishes(CRs) \/ LetsGo \/ Calls
    \/ \E n \in Names : Begins(n) \/ Creates(CRs, n) \/ Edits(CRs, n) \/ Deletes(n)

-----------------------------------------------------------------------------
(***************************************************************************)
(* The life of a CR is orderly in every behaviour made of moves.           *)
(***************************************************************************)
\* A name whose copies stay keeps its life.
LEMMA SameLife ==
    ASSUME NEW CRs, NEW n, LifeOf(CRs, n),
           api'[n] = api[n], view'[n] = view[n], births'[n] = births[n]
    PROVE  LifeOf(CRs, n)'
  BY DEF LifeOf, Kept

\* A cache that catches up shows the present life.
LEMMA CaughtUp ==
    ASSUME NEW CRs, CRSort(CRs), NEW n \in Names, LifeOf(CRs, n),
           api'[n] = api[n], births'[n] = births[n], view'[n] \in {api[n], view[n]}
    PROVE  LifeOf(CRs, n)'
  <1>1. CASE view'[n] = view[n]
    BY <1>1, SameLife
  <1>2. CASE view'[n] = api[n]
    <2>1. api[n] # None => api[n].uid \in Nat
      BY DEF LifeOf, CRSort, BaseOK
    <2> QED BY <1>2, <2>1 DEF LifeOf, Kept, Older
  <1> QED BY <1>1, <1>2

\* The worker's writes: the finalizer, a note, nothing.
LEMMA WriteLife ==
    ASSUME NEW CRs, CRSort(CRs), Life(CRs), NEW n \in Names, pc # "idle", NEW new,
           Writes(new),
           \/ Noted(CRs, new) /\ (~new.fin => new.ip = None)
           \/ new = [obj EXCEPT !.fin = TRUE] /\ ~obj.deleting
           \/ new = None /\ obj.deleting
    PROVE  LifeOf(CRs, n)'
  <1>1. CASE n # key
    BY <1>1, SameLife DEF Writes, OthersSame, SameView, Life
  <1>2. CASE n = key
    <2>1. /\ LifeOf(CRs, n) /\ obj \in CRs /\ api[n] = obj /\ view[n] # None
          /\ api'[n] = new /\ births'[n] = births[n] /\ view'[n] = view[n]
          /\ Older(obj, view[n])
      BY <1>2 DEF Life, WorkOf, Writes, SameView
    <2>2. /\ {"uid", "deleting", "fin", "spec", "ip", "info"} \subseteq DOMAIN obj
          /\ obj.uid \in Nat /\ obj.deleting \in BOOLEAN /\ obj.fin \in BOOLEAN
          /\ obj # None /\ view[n].uid \in Nat /\ view[n].deleting \in BOOLEAN
          /\ view[n].fin \in BOOLEAN
      BY <2>1 DEF CRSort, BaseOK, LifeOf
    <2>3. view[n].uid = obj.uid
      BY <2>1, <2>2 DEF LifeOf, Older
    <2>4. CASE Noted(CRs, new) /\ (~new.fin => new.ip = None)
      BY <2>1, <2>2, <2>3, <2>4 DEF LifeOf, Kept, Older, Orderly, Noted, CRSort
    <2>5. CASE new = [obj EXCEPT !.fin = TRUE] /\ ~obj.deleting
      <3>1. /\ new.uid = obj.uid /\ new.fin /\ new.deleting = obj.deleting /\ new \in CRs
        BY <2>1, <2>2, <2>5 DEF CRSort
      <3> QED BY <2>1, <2>2, <2>3, <2>5, <3>1 DEF LifeOf, Kept, Older, Orderly, CRSort
    <2>6. CASE new = None /\ obj.deleting
      BY <2>1, <2>2, <2>3, <2>6 DEF LifeOf, Kept, Older, Orderly
    <2> QED BY <2>4, <2>5, <2>6
  <1> QED BY <1>1, <1>2

\* What users do to a CR.
LEMMA UserLife ==
    ASSUME NEW CRs, CRSort(CRs), Life(CRs), NEW n \in Names, NEW m \in Names,
           Creates(CRs, m) \/ Edits(CRs, m) \/ Deletes(m)
    PROVE  LifeOf(CRs, n)'
  <1>1. CASE n # m
    BY <1>1, SameLife DEF Creates, Edits, Deletes, OthersSame, SameView, Life
  <1>2. CASE n = m
    <2>1. LifeOf(CRs, n) /\ view'[n] = view[n]
      BY <1>2 DEF Life, Creates, Edits, Deletes, SameView
    <2>2. /\ view[n] # None => view[n].uid \in Nat
          /\ births[n] \in Nat
      BY <2>1 DEF LifeOf, CRSort, BaseOK
    <2>3. CASE Creates(CRs, m)
      BY <1>2, <2>1, <2>2, <2>3 DEF Creates, LifeOf, Kept, Older, Orderly
    <2>4. CASE Edits(CRs, m) \/ Deletes(m)
      <3>1. /\ api[n] \in CRs /\ births'[n] = births[n]
            /\ {"uid", "deleting", "fin", "spec", "ip", "info"} \subseteq DOMAIN api[n]
            /\ api[n] # None /\ api[n].uid \in Nat
            /\ api[n].deleting \in BOOLEAN /\ api[n].fin \in BOOLEAN
        BY <1>2, <2>1, <2>4 DEF Edits, Deletes, LifeOf, CRSort, BaseOK
      <3>2. CASE Edits(CRs, m)
        <4>1. PICK s \in SpecChoices : api'[n] = [api[n] EXCEPT !.spec = s]
          BY <1>2, <3>2 DEF Edits
        <4>2. /\ api'[n] \in CRs /\ api'[n].uid = api[n].uid /\ api'[n].fin = api[n].fin
              /\ api'[n].deleting = api[n].deleting /\ api'[n].ip = api[n].ip
              /\ api'[n] # None
          BY <3>1, <4>1 DEF CRSort
        <4> QED BY <2>1, <2>2, <3>1, <4>2 DEF LifeOf, Kept, Older, Orderly
      <3>3. CASE Deletes(m) /\ api[n].fin
        <4>1. api'[n] = [api[n] EXCEPT !.deleting = TRUE]
          BY <1>2, <3>3 DEF Deletes
        <4>2. /\ api'[n] \in CRs /\ api'[n].uid = api[n].uid /\ api'[n].fin = api[n].fin
              /\ api'[n].deleting /\ api'[n].ip = api[n].ip /\ api'[n] # None
          BY <3>1, <4>1 DEF CRSort
        <4> QED BY <2>1, <2>2, <3>1, <3>3, <4>2 DEF LifeOf, Kept, Older, Orderly
      <3>4. CASE Deletes(m) /\ ~api[n].fin
        <4>1. api'[n] = None
          BY <1>2, <3>4 DEF Deletes
        <4> QED BY <2>1, <2>2, <3>1, <3>4, <4>1 DEF LifeOf, Kept, Older, Orderly
      <3> QED BY <1>2, <2>4, <3>2, <3>3, <3>4
    <2> QED BY <2>3, <2>4
  <1> QED BY <1>1, <1>2

\* Every move keeps the life of every name.
LEMMA MoveLife ==
    ASSUME NEW CRs, CRSort(CRs), Life(CRs), Move(CRs), NEW n \in Names
    PROVE  LifeOf(CRs, n)'
  <1>0. LifeOf(CRs, n) /\ WorkOf(CRs)
    BY DEF Life
  <1>1. CASE Rests \/ Onward \/ Untouched \/ \E m \in Names : Begins(m)
    BY <1>0, <1>1, SameLife DEF Rests, Onward, Untouched, Begins, KeepsCRs
  <1>2. CASE CatchesUp \/ Restarts
    BY <1>0, <1>2, CaughtUp DEF CatchesUp, Restarts
  <1>3. CASE Adopts(CRs)
    BY <1>0, <1>3, WriteLife DEF Adopts, WorkOf
  <1>4. CASE Annotates(CRs)
    <2>1. obj.fin
      BY <1>0, <1>4 DEF Annotates, WorkOf, Serving
    <2> QED BY <1>4, <2>1, WriteLife DEF Annotates, Noted, Publishing
  <1>5. CASE Publishes(CRs)
    <2>1. obj.fin /\ pc # "idle"
      BY <1>0, <1>5 DEF Publishes, WorkOf, Serving, Publishing
    <2> QED BY <1>5, <2>1, WriteLife DEF Publishes, Noted
  <1>6. CASE LetsGo
    BY <1>0, <1>6, WriteLife DEF LetsGo, WorkOf, Finishing
  <1>7. CASE Calls
    <2>1. api' = api /\ view' = view /\ births' = births
      BY <1>7 DEF Calls, EnsureIP, Reserve, ReleaseIP, LostReply, Fault, k8sVars, budgetVars
    <2> QED BY <1>0, <2>1, SameLife
  <1>8. CASE \E m \in Names : Creates(CRs, m) \/ Edits(CRs, m) \/ Deletes(m)
    BY <1>8, UserLife
  <1> QED BY <1>1, <1>2, <1>3, <1>4, <1>5, <1>6, <1>7, <1>8 DEF Move

\* An idle worker is orderly.
LEMMA IdleWork ==
    ASSUME NEW CRs, Idle
    PROVE  WorkOf(CRs)'
  BY DEF Idle, WorkOf, Serving, Publishing, Finishing, Undoing

\* A worker that goes on with its copy, whatever its caches do.
LEMMA SameCopy ==
    ASSUME NEW CRs, CRSort(CRs), Life(CRs), pc # "idle",
           UNCHANGED <<key, obj, births>>, key \in fresh' => key \in fresh,
           api'[key] = api[key], view'[key] \in {api[key], view[key]},
           \/ pc' = pc
           \/ pc \in Serving /\ pc' \in Publishing
           \/ pc = "ensure" /\ pc' = "reserve" /\ obj.ip = None
           \/ /\ pc \in Undoing \cup {"release"}
              /\ pc' \in Undoing \cup {"unfinalize", AfterUndo(obj)}
    PROVE  WorkOf(CRs)'
  <1>1. /\ WorkOf(CRs) /\ LifeOf(CRs, key) /\ key \in Names /\ obj \in CRs
    BY DEF Life, WorkOf
  <1>2. /\ \/ pc' = pc
           \/ pc \in Serving /\ pc' \in Publishing
           \/ pc \in Serving /\ pc' = "reserve" /\ obj.ip = None
           \/ pc \in Finishing /\ pc' \in Undoing \cup {"unfinalize"}
           \/ pc \in Finishing /\ pc' = "release" /\ obj.ip # None /\ obj.spec.release
    BY DEF Serving, Finishing, AfterUndo
  <1>3. /\ obj'.uid <= births'[key]
        /\ api'[key] # None =>
              Older(obj, api'[key]) /\ (api'[key].fin => api'[key].uid = obj.uid)
        /\ view'[key] # None =>
              Older(obj, view'[key]) /\ (view'[key].fin => view'[key].uid = obj.uid)
        /\ obj.fin /\ ~obj.deleting => Kept(key, obj)'
        /\ key \in fresh' => api'[key] = obj /\ view'[key] # None
        /\ Orderly(obj)
    BY <1>1 DEF WorkOf, Kept, CRSort
  <1>4. /\ pc' \in {"finalizer"} \cup Serving \cup Finishing
        /\ pc' = "finalizer"   => ~obj.fin /\ ~obj.deleting
        /\ pc' \in Serving     => obj.fin /\ ~obj.deleting
        /\ pc' \in Finishing   => obj.fin /\ obj.deleting
        /\ pc' = "reserve"     => obj.ip = None
        /\ pc' = "release"     => obj.ip # None /\ obj.spec.release
    BY <1>1, <1>2 DEF WorkOf, Serving, Publishing, Finishing, Undoing
  <1>5. pc' # "idle"
    BY <1>4 DEF Serving, Publishing, Finishing, Undoing
  <1> QED BY <1>1, <1>3, <1>4, <1>5 DEF WorkOf

\* A worker that begins has the copy of the cache.
LEMMA BegunWork ==
    ASSUME NEW CRs, CRSort(CRs), Life(CRs), NEW n \in Names, Begins(n)
    PROVE  WorkOf(CRs)'
  <1>1. /\ LifeOf(CRs, n) /\ key' = n /\ obj' = view[n] /\ births'[n] = births[n]
        /\ api'[n] = api[n] /\ view'[n] = view[n] /\ view[n] # None
        /\ pc' = FirstStep(view[n]) /\ pc' # "idle"
        /\ n \in fresh' => api[n] = view[n]
    BY DEF Life, Begins, KeepsCRs, StoreForm
  <1>2. /\ view[n].uid \in Nat /\ view[n] \in CRs
    BY <1>1 DEF LifeOf, CRSort, BaseOK
  <1>3. \/ pc' = "undo" /\ view[n].deleting /\ view[n].fin
        \/ pc' = "ensure" /\ ~view[n].deleting /\ view[n].fin
        \/ pc' = "finalizer" /\ ~view[n].deleting /\ ~view[n].fin
    BY <1>1 DEF FirstStep
  <1>4. /\ view[n].uid <= births[n] /\ Orderly(view[n])
        /\ api[n] # None => Older(view[n], api[n]) /\ (api[n].fin => api[n].uid = view[n].uid)
        /\ Older(view[n], view[n])
        /\ view[n].fin /\ ~view[n].deleting => Kept(n, view[n])
    BY <1>1, <1>2 DEF LifeOf, Older
  <1>5. /\ pc' \in {"finalizer"} \cup Serving \cup Finishing /\ pc' # "idle"
        /\ pc' = "finalizer"   => ~view[n].fin /\ ~view[n].deleting
        /\ pc' \in Serving     => view[n].fin /\ ~view[n].deleting
        /\ pc' \in Finishing   => view[n].fin /\ view[n].deleting
        /\ pc' # "reserve" /\ pc' # "release"
    BY <1>3 DEF Serving, Publishing, Finishing, Undoing
  <1>7. view[n].fin /\ ~view[n].deleting => Kept(n, view[n])'
    BY <1>1, <1>4 DEF Kept
  <1> QED BY <1>1, <1>2, <1>4, <1>5, <1>7 DEF WorkOf

\* A worker that has written its CR and goes on has the present copy.
LEMMA WroteWork ==
    ASSUME NEW CRs, CRSort(CRs), Life(CRs), Adopts(CRs) \/ Annotates(CRs)
    PROVE  WorkOf(CRs)'
  <1>1. /\ pc # "idle" /\ ~obj.deleting
    BY DEF Life, WorkOf, Adopts, Annotates, Serving, Publishing
  <1>2. /\ key \in Names /\ obj \in CRs /\ obj.uid <= births[key] /\ key' = key
        /\ api[key] = obj /\ view[key] # None /\ api'[key] = obj'
        /\ view'[key] = view[key] /\ births'[key] = births[key]
        /\ LifeOf(CRs, key) /\ Older(obj, view[key])
        /\ view[key].fin => view[key].uid = obj.uid
    BY <1>1 DEF Life, WorkOf, Adopts, Annotates, Writes, SameView
  <1>3. /\ {"uid", "deleting", "fin", "spec", "ip", "info"} \subseteq DOMAIN obj
        /\ obj.uid \in Nat /\ obj.deleting \in BOOLEAN
    BY <1>2 DEF CRSort, BaseOK
  <1>4. /\ obj' \in CRs /\ obj'.uid = obj.uid /\ ~obj'.deleting /\ obj'.fin
    <2>1. CASE Adopts(CRs)
      BY <1>1, <1>2, <1>3, <2>1 DEF Adopts, CRSort
    <2>2. CASE Annotates(CRs)
      BY <1>1, <2>2 DEF Annotates, Noted, Life, WorkOf, Serving
    <2> QED BY <2>1, <2>2
  <1>5. pc' \in Serving \ {"reserve"}
    BY DEF Adopts, Annotates, Serving, Publishing
  <1>6. /\ Older(obj', obj') /\ Older(obj', view[key]) /\ Orderly(obj') /\ obj' # None
    BY <1>2, <1>3, <1>4 DEF Older, Orderly, CRSort
  <1>8. /\ pc' # "idle" /\ pc' # "finalizer" /\ pc' \notin Finishing /\ pc' # "release"
    BY <1>5 DEF Serving, Publishing, Finishing, Undoing
  <1> QED BY <1>2, <1>4, <1>5, <1>6, <1>8 DEF WorkOf, Kept

\* Users do nothing that a worker's copy could not be behind.
LEMMA OvertakenWork ==
    ASSUME NEW CRs, CRSort(CRs), Life(CRs), NEW n \in Names,
           Creates(CRs, n) \/ Edits(CRs, n) \/ Deletes(n)
    PROVE  WorkOf(CRs)'
  <1>1. /\ WorkOf(CRs) /\ UNCHANGED <<pc, key, obj>> /\ n \notin fresh'
        /\ key \in fresh' => key \in fresh
    BY DEF Life, Creates, Edits, Deletes, SameWork
  <1>2. CASE pc = "idle"
    BY <1>1, <1>2 DEF WorkOf, Serving, Publishing, Finishing, Undoing
  <1>3. CASE pc # "idle" /\ key # n
    <2>1. /\ key \in Names /\ api'[key] = api[key] /\ view'[key] = view[key]
          /\ births'[key] = births[key]
      BY <1>1, <1>3 DEF WorkOf, Creates, Edits, Deletes, OthersSame, SameView
    <2> QED BY <1>1, <1>3, <2>1 DEF WorkOf, Kept
  <1>4. CASE pc # "idle" /\ key = n
    <2>1. /\ obj \in CRs /\ LifeOf(CRs, n) /\ view'[n] = view[n] /\ key \notin fresh'
          /\ obj.uid <= births[n]
      BY <1>1, <1>4 DEF WorkOf, Life, Creates, Edits, Deletes, SameView
    <2>2. obj.uid \in Nat /\ births[n] \in Nat
      BY <2>1 DEF CRSort, BaseOK, LifeOf
    <2>3. /\ obj.uid <= births'[n]
          /\ api'[n] # None =>
                Older(obj, api'[n]) /\ (api'[n].fin => api'[n].uid = obj.uid)
          /\ obj.fin /\ ~obj.deleting => Kept(n, obj)'
      <3>1. CASE Creates(CRs, n)
        BY <1>1, <1>4, <2>1, <2>2, <3>1 DEF Creates, WorkOf, Kept, Older
      <3>2. CASE Edits(CRs, n) \/ Deletes(n)
        <4>1. /\ api[n] # None /\ api[n] \in CRs /\ births'[n] = births[n]
              /\ {"uid", "deleting", "fin", "spec", "ip", "info"} \subseteq DOMAIN api[n]
          BY <2>1, <3>2 DEF Edits, Deletes, LifeOf, CRSort
        <4>2. CASE Edits(CRs, n)
          <5>1. PICK s \in SpecChoices : api'[n] = [api[n] EXCEPT !.spec = s]
            BY <4>2 DEF Edits
          <5>2. /\ api'[n].uid = api[n].uid /\ api'[n].fin = api[n].fin
                /\ api'[n].deleting = api[n].deleting /\ api'[n] # None
            BY <4>1, <5>1 DEF CRSort
          <5> QED BY <1>1, <1>4, <2>1, <4>1, <5>2 DEF WorkOf, Kept, Older
        <4>3. CASE Deletes(n) /\ api[n].fin
          <5>1. api'[n] = [api[n] EXCEPT !.deleting = TRUE]
            BY <4>3 DEF Deletes
          <5>2. /\ api'[n].uid = api[n].uid /\ api'[n].fin = api[n].fin
                /\ api'[n].deleting /\ api'[n] # None
            BY <4>1, <5>1 DEF CRSort
          <5> QED BY <1>1, <1>4, <2>1, <4>1, <5>2 DEF WorkOf, Kept, Older
        <4>4. CASE Deletes(n) /\ ~api[n].fin
          <5>1. api'[n] = None
            BY <4>4 DEF Deletes
          <5> QED BY <1>1, <1>4, <2>1, <4>1, <4>4, <5>1 DEF WorkOf, Kept, Older
        <4> QED BY <3>2, <4>2, <4>3, <4>4
      <3> QED BY <3>1, <3>2
    <2> QED BY <1>1, <1>4, <2>1, <2>3 DEF WorkOf, Kept
  <1> QED BY <1>2, <1>3, <1>4

\* Every move keeps the worker in order.
LEMMA MoveWork ==
    ASSUME NEW CRs, CRSort(CRs), Life(CRs), Move(CRs)
    PROVE  WorkOf(CRs)'
  <1>1. CASE Rests \/ Restarts \/ Publishes(CRs) \/ LetsGo
    BY <1>1, IdleWork DEF Rests, Restarts, Publishes, LetsGo
  <1>2. CASE Onward
    <2>1. pc # "idle" /\ key \in Names
      BY <1>2 DEF Onward, Life, WorkOf, Publishing, Undoing
    <2>2. pc \in Publishing \cup {"ensure"} => pc \in Serving
      BY DEF Serving
    <2> QED BY <1>2, <2>1, <2>2, SameCopy DEF Onward, KeepsCRs
  <1>3. CASE Untouched \/ CatchesUp
    <2>1. /\ UNCHANGED <<pc, key, obj, births>> /\ (key \in fresh' => key \in fresh)
          /\ \A n \in Names : api'[n] = api[n] /\ view'[n] \in {api[n], view[n]}
      BY <1>3 DEF Untouched, CatchesUp, SameWork, KeepsCRs
    <2>2. CASE pc = "idle"
      BY <2>1, <2>2 DEF Life, WorkOf, Serving, Publishing, Finishing, Undoing
    <2>3. CASE pc # "idle"
      <3>1. key \in Names
        BY <2>3 DEF Life, WorkOf
      <3> QED BY <2>1, <2>3, <3>1, SameCopy
    <2> QED BY <2>2, <2>3
  <1>4. CASE Adopts(CRs) \/ Annotates(CRs)
    BY <1>4, WroteWork
  <1>5. CASE \E n \in Names : Begins(n)
    BY <1>5, BegunWork
  <1>6. CASE \E n \in Names : Creates(CRs, n) \/ Edits(CRs, n) \/ Deletes(n)
    BY <1>6, OvertakenWork
  <1>7. CASE Calls
    <2>1. api' = api /\ view' = view /\ births' = births
      BY <1>7 DEF Calls, EnsureIP, Reserve, ReleaseIP, LostReply, Fault, k8sVars, budgetVars
    <2>2. \/ Idle
          \/ /\ UNCHANGED <<key, obj, fresh>>
             /\ \/ pc \in {"ensure", "reserve"} /\ pc' \in Publishing
                \/ pc = "ensure" /\ pc' = "reserve" /\ obj.ip = None
                \/ pc = "release" /\ pc' = "unfinalize"
      BY <1>7 DEF Calls, EnsureIP, Reserve, ReleaseIP, LostReply, Fail, Goto
    <2>3. CASE ~Idle
      <3>1. pc # "idle" /\ key \in Names /\ ("ensure" \in Serving /\ "reserve" \in Serving)
        BY <2>2, <2>3 DEF Life, WorkOf, Serving
      <3> QED BY <2>1, <2>2, <2>3, <3>1, SameCopy
    <2> QED BY <2>3, IdleWork
  <1> QED BY <1>1, <1>2, <1>3, <1>4, <1>5, <1>6, <1>7 DEF Move

-----------------------------------------------------------------------------
(***************************************************************************)
(* Addresses: what a copy carries, and what a worker is about to publish,  *)
(* is assigned.                                                            *)
(***************************************************************************)


\* The copies at the API server and in the cache are backed after a step.
CopiesBacked ==
    \A n \in Names : /\ api'[n] # None => Backs(holder', n, api'[n])
                     /\ view'[n] # None => Backs(holder', n, view'[n])

\* So then is an idle worker, who has nothing in hand.
LEMMA IdleBacked ==
    ASSUME Idle, CopiesBacked
    PROVE  Backed'
  BY DEF Idle, NoLocals, Backed, CopiesBacked

\* Nothing but the worker's writes carries an address that was not there.
LEMMA MoveCopies ==
    ASSUME NEW CRs, CRSort(CRs), Life(CRs), Backed, Move(CRs), ~Calls
    PROVE  CopiesBacked
  <1>1. holder' = holder
    BY DEF Move, Rests, Onward, Untouched, CatchesUp, Restarts, Begins, Writes, Adopts,
       Annotates, Publishes, LetsGo, Creates, Edits, Deletes, SameWork
  <1>2. CASE Rests \/ Onward \/ Untouched \/ CatchesUp \/ Restarts \/ \E n \in Names : Begins(n)
    BY <1>1, <1>2 DEF Rests, Onward, Untouched, CatchesUp, Restarts, Begins, KeepsCRs,
       Backed, CopiesBacked
  <1>3. ASSUME NEW new, Writes(new), pc # "idle",
               new # None => Backs(holder, key, new)
        PROVE  CopiesBacked
    BY <1>1, <1>3 DEF Writes, OthersSame, SameView, Backed, CopiesBacked
  <1>4. CASE Adopts(CRs)
    <2>1. pc # "idle" /\ obj \in CRs /\ Backs(holder, key, obj)
      BY <1>4 DEF Adopts, Life, WorkOf, Backed
    <2>2. {"uid", "deleting", "fin", "spec", "ip", "info"} \subseteq DOMAIN obj
      BY <2>1 DEF CRSort
    <2> DEFINE new == [obj EXCEPT !.fin = TRUE]
    <2>3. new.ip = obj.ip /\ new.deleting = obj.deleting
      BY <2>2
    <2>4. Backs(holder, key, new)
      BY <2>1, <2>3 DEF Backs
    <2> QED BY <1>3, <1>4, <2>1, <2>4 DEF Adopts
  <1>5. CASE Annotates(CRs)
    <2>1. pc # "idle" /\ Backs(holder, key, obj)
      BY <1>5 DEF Annotates, Life, WorkOf, Backed, Publishing
    <2>2. Backs(holder, key, obj')
      BY <1>5, <2>1 DEF Annotates, Noted, Backs
    <2> QED BY <1>3, <1>5, <2>1, <2>2 DEF Annotates
  <1>6. CASE Publishes(CRs)
    <2>1. pc # "idle"
      BY <1>6 DEF Publishes, Publishing
    <2>2. PICK new \in CRs : new.ip = loc.ip /\ Writes(new)
      BY <1>6 DEF Publishes
    <2>3. Backs(holder, key, new)
      BY <2>2 DEF Backs, Backed
    <2> QED BY <1>3, <2>1, <2>2, <2>3
  <1>7. CASE LetsGo
    BY <1>3, <1>7 DEF LetsGo
  <1>8. ASSUME NEW n \in Names, Creates(CRs, n) \/ Edits(CRs, n) \/ Deletes(n)
        PROVE  CopiesBacked
    <2>1. api'[n] # None => Backs(holder, n, api'[n])
      <3>1. CASE Creates(CRs, n)
        BY <3>1 DEF Creates, Backs
      <3>2. CASE Edits(CRs, n) \/ Deletes(n)
        <4>1. /\ api[n] # None /\ Backs(holder, n, api[n])
              /\ {"uid", "deleting", "fin", "spec", "ip", "info"} \subseteq DOMAIN api[n]
          BY <3>2 DEF Edits, Deletes, Backed, Life, LifeOf, CRSort
        <4>2. CASE Edits(CRs, n)
          <5>1. PICK s \in SpecChoices : api'[n] = [api[n] EXCEPT !.spec = s]
            BY <4>2 DEF Edits
          <5>2. api'[n].deleting = api[n].deleting /\ api'[n].ip = api[n].ip
            BY <4>1, <5>1
          <5> QED BY <4>1, <5>2 DEF Backs
        <4>3. CASE Deletes(n) /\ api[n].fin
          <5>1. api'[n] = [api[n] EXCEPT !.deleting = TRUE]
            BY <4>3 DEF Deletes
          <5>2. api'[n].deleting /\ api'[n].ip = api[n].ip
            BY <4>1, <5>1
          <5> QED BY <4>1, <5>2 DEF Backs
        <4> QED BY <3>2, <4>2, <4>3 DEF Deletes
      <3> QED BY <1>8, <3>1, <3>2
    <2> QED BY <1>1, <1>8, <2>1 DEF Creates, Edits, Deletes, OthersSame, SameView, Backed,
           CopiesBacked
  <1> QED BY <1>2, <1>4, <1>5, <1>6, <1>7, <1>8 DEF Move

\* An address that is assigned was free, so nobody else's copy carries it.
LEMMA AssignCopies ==
    ASSUME NEW CRs, CRSort(CRs), Life(CRs), Backed, pc = "reserve",
           NEW i \in IPs, NEW on, Assign(key, i, on), api' = api, view' = view
    PROVE  /\ CopiesBacked /\ holder'[i] = key /\ obj.ip = None
           /\ key \in Names
  <1>1. /\ holder[i] = None /\ key \in Names /\ obj.ip = None
        /\ holder' = [holder EXCEPT ![i] = key]
        /\ \A j \in IPs : holder'[j] = IF j = i THEN key ELSE holder[j]
    BY DEF Assign, Free, Life, WorkOf, WorkForm
  <1>2. ASSUME NEW n \in Names, NEW x \in CRs, Backs(holder, n, x)
        PROVE  Backs(holder', n, x)
    <2>1. x.ip \in IPs \cup {None}
      BY DEF CRSort, BaseOK
    <2> QED BY <1>1, <1>2, <2>1, ControllerAssumption DEF Backs, OneName
  <1>3. ASSUME NEW n \in Names
        PROVE  /\ api'[n] # None => Backs(holder', n, api'[n])
               /\ view'[n] # None => Backs(holder', n, view'[n])
    BY <1>2 DEF Life, LifeOf, Backed
  <1> QED BY <1>1, <1>3 DEF CopiesBacked

\* An address that is released is carried by copies of a deleted CR alone.
LEMMA ReleaseCopies ==
    ASSUME NEW CRs, CRSort(CRs), Life(CRs), Backed, OneName \/ NoRelease,
           pc = "release", Unassign(obj.ip), api' = api, view' = view
    PROVE  /\ CopiesBacked /\ Backs(holder', key, obj)
           /\ key \in Names /\ (api[key] # None /\ ~api[key].deleting => api[key].ip = None)
  <1>1. /\ key \in Names /\ obj \in CRs /\ obj.deleting /\ obj.ip \in IPs
        /\ holder' = [holder EXCEPT ![obj.ip] = None]
        /\ \A j \in IPs : holder'[j] = IF j = obj.ip THEN None ELSE holder[j]
        /\ obj.spec.release /\ obj.spec \in SpecChoices
    BY DEF Life, WorkOf, WorkForm, CRSort, BaseOK, Unassign, Finishing
  <1>2. OneName
    BY <1>1 DEF NoRelease
  <1>3. ASSUME NEW x \in CRs, Backs(holder, key, x), x.ip # None => x.deleting
        PROVE  Backs(holder', key, x)
    BY <1>1, <1>2, <1>3 DEF Backs, CRSort, BaseOK
  <1>4. /\ api[key] # None => api[key] \in CRs /\ (api[key].ip # None => api[key].deleting)
        /\ view[key] # None => view[key] \in CRs /\ (view[key].ip # None => view[key].deleting)
    BY <1>1 DEF Life, WorkOf, LifeOf, Orderly, Older
  <1>5. ASSUME NEW n \in Names PROVE n = key
    BY <1>1, <1>2 DEF OneName
  <1> QED BY <1>1, <1>3, <1>4, <1>5 DEF CopiesBacked, Backed, Life, WorkOf

\* Every move leaves backed what was backed.
LEMMA MoveBacked ==
    ASSUME NEW CRs, CRSort(CRs), Life(CRs), Backed, OneName \/ NoRelease, Move(CRs)
    PROVE  Backed'
  <1>1. CASE ~Calls /\ Idle
    BY <1>1, MoveCopies, IdleBacked
  <1>2. CASE ~Calls /\ ~Idle
    <2>0. CopiesBacked
      BY <1>2, MoveCopies
    <2>1. holder' = holder
      BY <1>2 DEF Move, Rests, Onward, Untouched, CatchesUp, Restarts, Begins, Writes, Adopts,
         Annotates, Publishes, LetsGo, Creates, Edits, Deletes, SameWork
    <2>2. CASE Onward
      <3>1. /\ key' = key /\ obj' = obj /\ loc'.ip = loc.ip /\ pc # "idle"
            /\ pc' # "reserve" /\ (pc \in Publishing => pc' \in Publishing)
        BY <2>2 DEF Onward, AfterUndo, Publishing, Undoing
      <3> QED BY <2>0, <2>1, <3>1 DEF Backed, CopiesBacked, Backs
    <2>3. CASE Untouched \/ CatchesUp \/ \E n \in Names : Creates(CRs, n) \/ Edits(CRs, n) \/ Deletes(n)
      <3>1. UNCHANGED <<holder, pc, key, obj, loc>>
        BY <2>3 DEF Untouched, CatchesUp, Creates, Edits, Deletes, SameWork
      <3> QED BY <2>0, <3>1 DEF Backed, CopiesBacked, Backs, Held
    <2>4. CASE \E n \in Names : Begins(n)
      <3>1. PICK n \in Names : Begins(n)
        BY <2>4
      <3>2. /\ key' = n /\ obj' = view[n] /\ view[n] # None /\ loc' = loc /\ pc = "idle"
            /\ pc' # "reserve"
        BY <3>1 DEF Begins, FirstStep
      <3> QED BY <2>0, <2>1, <3>2 DEF Backed, CopiesBacked, Backs, Publishing
    <2>5. CASE Adopts(CRs)
      <3>1. obj \in CRs /\ {"uid", "deleting", "fin", "spec", "ip", "info"} \subseteq DOMAIN obj
        BY <2>5 DEF Adopts, Life, WorkOf, CRSort
      <3>2. /\ key' = key /\ obj'.ip = obj.ip /\ obj'.deleting = obj.deleting /\ loc' = loc
            /\ pc = "finalizer" /\ pc' = "ensure"
        BY <2>5, <3>1 DEF Adopts
      <3> QED BY <2>0, <2>1, <3>2 DEF Backed, CopiesBacked, Backs, Publishing
    <2>6. CASE Annotates(CRs)
      <3>1. /\ key' = key /\ obj'.ip = obj.ip /\ obj'.deleting = obj.deleting /\ loc'.ip = loc.ip
            /\ pc \in Publishing /\ pc' \in Publishing
        BY <2>6 DEF Annotates, Noted
      <3> QED BY <2>0, <2>1, <3>1 DEF Backed, CopiesBacked, Backs, Publishing
    <2> QED BY <1>2, <2>2, <2>3, <2>4, <2>5, <2>6 DEF Move, Rests, Restarts, Publishes, LetsGo
  <1>3. CASE \E after \in Publishing : EnsureIP(after)
    <2>1. PICK after \in Publishing : EnsureIP(after)
      BY <1>3
    <2>2. /\ key' = key /\ obj' = obj /\ api' = api /\ view' = view /\ holder' = holder
          /\ pc = "ensure" /\ key \in Names /\ obj \in CRs /\ ~obj.deleting
          /\ "ip" \in DOMAIN loc /\ obj.ip \in IPs \cup {None} /\ loc.ip = None
      BY <2>1 DEF EnsureIP, Goto, k8sVars, poolVars, Life, WorkOf, WorkForm, CRSort, BaseOK,
         Serving, Backed, Publishing
    <2>3. \/ /\ obj.ip # None /\ loc'.ip = obj.ip /\ pc' = after
          \/ obj.ip = None /\ loc'.ip \in Held(key) /\ pc' = after
          \/ obj.ip = None /\ Held(key) = {} /\ loc' = loc /\ pc' = "reserve"
      BY <2>1, <2>2 DEF EnsureIP, Goto, Listed
    <2>4. after # "reserve"
      BY DEF Publishing
    <2> QED BY <2>2, <2>3, <2>4 DEF Backed, Backs, Held, Publishing
  <1>4. CASE \E on \in BOOLEAN : \E after \in Publishing : Reserve(on, after)
    <2>1. PICK on \in BOOLEAN : \E after \in Publishing : Reserve(on, after)
      BY <1>4
    <2>2. PICK after \in Publishing : Reserve(on, after)
      BY <2>1
    <2>3. /\ pc = "reserve" /\ api' = api /\ view' = view /\ "ip" \in DOMAIN loc
          /\ after # "reserve"
      BY <2>2 DEF Reserve, k8sVars, Life, WorkForm, Publishing
    <2>4. CASE Fail /\ UNCHANGED poolVars
      BY <2>3, <2>4, IdleBacked DEF Fail, poolVars, CopiesBacked, Backed
    <2>5. ASSUME NEW i \in IPs, Assign(key, i, on), loc' = [loc EXCEPT !.ip = i],
                 Goto(after), obj' = obj
          PROVE  Backed'
      <3>1. CopiesBacked /\ holder'[i] = key /\ obj.ip = None
        BY <2>3, <2>5, AssignCopies
      <3>2. loc'.ip = i /\ key' = key /\ pc' = after /\ pc' # "reserve"
        BY <2>3, <2>5 DEF Goto
      <3> QED BY <2>5, <3>1, <3>2 DEF Backed, CopiesBacked, Backs
    <2> QED BY <2>2, <2>4, <2>5 DEF Reserve
  <1>5. CASE ReleaseIP
    <2>1. /\ CopiesBacked /\ Backs(holder', key, obj)
      BY <1>5, ReleaseCopies DEF ReleaseIP, k8sVars
    <2>2. pc' = "unfinalize" /\ pc = "release" /\ key' = key /\ obj' = obj /\ loc' = loc
      BY <1>5 DEF ReleaseIP, Goto
    <2> QED BY <2>1, <2>2 DEF Backed, CopiesBacked, Publishing
  <1>6. CASE \E on \in BOOLEAN : LostReply(on)
    <2>1. PICK on \in BOOLEAN : LostReply(on)
      BY <1>6
    <2>2. Idle /\ api' = api /\ view' = view
      BY <2>1 DEF LostReply, Fail, k8sVars
    <2>3. CopiesBacked
      BY <2>1, <2>2, AssignCopies, ReleaseCopies DEF LostReply
    <2> QED BY <2>2, <2>3, IdleBacked
  <1> QED BY <1>1, <1>2, <1>3, <1>4, <1>5, <1>6 DEF Calls

-----------------------------------------------------------------------------
(***************************************************************************)
(* Every move is a step of Reservation, or none.                           *)
(***************************************************************************)
\* What a CR shows of its address.
ShownOf(cr) == IF cr = None THEN None ELSE IF cr.deleting THEN None ELSE cr.ip

AbstractStep == [Reserved!Next]_<<holder, Shown>>

\* A CR comes to show nothing, what it has shown, or, when it showed nothing,
\* an address it holds.
LEMMA ShowStep ==
    ASSUME NEW n \in Names, OthersSame(n), holder' = holder,
           ShownOf(api'[n]) \in IPs \cup {None},
           ShownOf(api'[n]) # None => holder[ShownOf(api'[n])] = n,
           ShownOf(api[n]) # None => ShownOf(api'[n]) \in {None, ShownOf(api[n])}
    PROVE  AbstractStep
  <1>1. /\ Shown = [m \in Names |-> ShownOf(api[m])]
        /\ Shown' = [m \in Names |-> ShownOf(api'[m])]
    BY DEF Shown, ShownOf
  <1>2. Shown' = [Shown EXCEPT ![n] = ShownOf(api'[n])]
    BY <1>1 DEF OthersSame
  <1>3. CASE ShownOf(api'[n]) = None
    <2>1. Reserved!Hide(n)
      BY <1>2, <1>3 DEF Reserved!Hide
    <2> QED BY <2>1 DEF AbstractStep, Reserved!Next
  <1>4. CASE ShownOf(api'[n]) # None /\ ShownOf(api[n]) = None
    <2>1. Shown[n] = None
      BY <1>1, <1>4
    <2>2. Reserved!Show(n, ShownOf(api'[n]))
      BY <1>2, <1>4, <2>1 DEF Reserved!Show
    <2> QED BY <1>4, <2>2 DEF AbstractStep, Reserved!Next
  <1>5. CASE ShownOf(api'[n]) # None /\ ShownOf(api[n]) # None
    <2>1. Shown' = Shown
      BY <1>1, <1>2, <1>5
    <2> QED BY <2>1 DEF AbstractStep
  <1> QED BY <1>3, <1>4, <1>5

\* A step that leaves the CRs and the pool alone.
LEMMA NoShowStep ==
    ASSUME holder' = holder, \A n \in Names : api'[n] = api[n]
    PROVE  AbstractStep
  BY DEF AbstractStep, Shown

\* A name that holds nothing takes an address.
LEMMA TakeStep ==
    ASSUME NEW CRs, Life(CRs), Backed, pc = "reserve", NEW i \in IPs, NEW on,
           Assign(key, i, on), api' = api
    PROVE  AbstractStep
  <1>1. key \in Names /\ Held(key) = {}
    BY DEF Life, WorkOf, Backed
  <1>2. Shown' = Shown
    BY DEF Shown
  <1>3. /\ \A j \in IPs : holder[j] # key
        /\ \A j \in {i} : holder[j] = None
        /\ holder' = [j \in IPs |-> IF j \in {i} THEN key ELSE holder[j]]
    BY <1>1 DEF Assign, Free, Held, Life, WorkForm
  <1>4. Reserved!Take(key, {i})
    BY <1>2, <1>3 DEF Reserved!Take
  <1>5. {i} \in SUBSET IPs
    OBVIOUS
  <1> QED BY <1>1, <1>4, <1>5 DEF AbstractStep, Reserved!Next

\* A deleted CR gives its address back, if it still has it.
LEMMA GiveStep ==
    ASSUME NEW CRs, CRSort(CRs), Life(CRs), Backed, OneName \/ NoRelease,
           pc = "release", Unassign(obj.ip), api' = api, view' = view
    PROVE  AbstractStep
  <1>1. /\ key \in Names /\ obj.ip \in IPs /\ Backs(holder, key, obj)
        /\ holder' = [holder EXCEPT ![obj.ip] = None]
        /\ holder \in [IPs -> Names \cup {None, "others"}] /\ obj.ip # None
    BY DEF Life, WorkOf, WorkForm, CRSort, BaseOK, Unassign, Backed
  <1>2. Shown' = Shown
    BY DEF Shown
  <1>3. Shown[key] = None
    BY <1>1, ReleaseCopies DEF Shown
  <1>4. CASE holder[obj.ip] = key
    <2>1. Reserved!GiveBack(key, obj.ip)
      BY <1>1, <1>2, <1>3, <1>4 DEF Reserved!GiveBack
    <2> QED BY <1>1, <2>1 DEF AbstractStep, Reserved!Next
  <1>5. CASE holder[obj.ip] = None
    <2>1. holder' = holder
      BY <1>1, <1>5
    <2> QED BY <1>2, <2>1 DEF AbstractStep
  <1> QED BY <1>1, <1>4, <1>5 DEF Backs

\* A worker's write of its CR.
LEMMA WriteShows ==
    ASSUME NEW CRs, CRSort(CRs), Life(CRs), Backed, NEW new, Writes(new), pc # "idle",
           new # None => new \in CRs,
           new # None /\ new.ip # None /\ ~new.deleting =>
              holder[new.ip] = key /\ (obj.ip # None => new.ip = obj.ip),
           new # None => new.deleting = obj.deleting
    PROVE  AbstractStep
  <1>1. /\ key \in Names /\ obj \in CRs /\ api[key] = obj /\ api'[key] = new
        /\ OthersSame(key) /\ holder' = holder
    BY DEF Life, WorkOf, Writes
  <1>2. new # None => new.ip \in IPs \cup {None}
    BY DEF CRSort, BaseOK
  <1>3. obj # None
    BY <1>1 DEF CRSort
  <1>4. /\ ShownOf(new) \in IPs \cup {None}
        /\ ShownOf(new) # None => holder[ShownOf(new)] = key
        /\ ShownOf(obj) # None => ShownOf(new) \in {None, ShownOf(obj)}
    BY <1>2, <1>3 DEF ShownOf
  <1> QED BY <1>1, <1>4, ShowStep

\* What users do to a CR.
LEMMA UserShows ==
    ASSUME NEW CRs, CRSort(CRs), Life(CRs), Backed, NEW n \in Names,
           Creates(CRs, n) \/ Edits(CRs, n) \/ Deletes(n)
    PROVE  AbstractStep
  <1>1. OthersSame(n) /\ holder' = holder
    BY DEF Creates, Edits, Deletes, SameWork
  <1>2. CASE Creates(CRs, n)
    <2>1. ShownOf(api'[n]) = None
      BY <1>2 DEF Creates, ShownOf
    <2> QED BY <1>1, <2>1, ShowStep
  <1>3. CASE Edits(CRs, n) \/ Deletes(n)
    <2>1. /\ api[n] # None /\ api[n] \in CRs /\ Backs(holder, n, api[n])
          /\ {"uid", "deleting", "fin", "spec", "ip", "info"} \subseteq DOMAIN api[n]
          /\ api[n].ip \in IPs \cup {None}
      BY <1>3 DEF Edits, Deletes, Life, LifeOf, Backed, CRSort, BaseOK
    <2>2. CASE Edits(CRs, n)
      <3>1. PICK s \in SpecChoices : api'[n] = [api[n] EXCEPT !.spec = s]
        BY <2>2 DEF Edits
      <3>2. api'[n].deleting = api[n].deleting /\ api'[n].ip = api[n].ip /\ api'[n] # None
        BY <2>1, <3>1 DEF CRSort
      <3>3. ShownOf(api'[n]) = ShownOf(api[n])
        BY <2>1, <3>2 DEF ShownOf
      <3>4. /\ ShownOf(api[n]) \in IPs \cup {None}
            /\ ShownOf(api[n]) # None => holder[ShownOf(api[n])] = n
        BY <2>1 DEF ShownOf, Backs
      <3> QED BY <1>1, <3>3, <3>4, ShowStep
    <2>3. CASE Deletes(n)
      <3>1. api'[n] = None \/ api'[n].deleting
        BY <2>1, <2>3 DEF Deletes
      <3>2. ShownOf(api'[n]) = None
        BY <3>1 DEF ShownOf
      <3> QED BY <1>1, <3>2, ShowStep
    <2> QED BY <1>3, <2>2, <2>3
  <1> QED BY <1>2, <1>3

\* Hence every move refines a step of Reservation.
LEMMA MoveRefines ==
    ASSUME NEW CRs, CRSort(CRs), Life(CRs), Backed, OneName \/ NoRelease, Move(CRs)
    PROVE  AbstractStep
  <1>1. CASE \/ Rests \/ Onward \/ Untouched \/ CatchesUp \/ Restarts
             \/ \E n \in Names : Begins(n)
    BY <1>1, NoShowStep DEF Rests, Onward, Untouched, CatchesUp, Restarts, Begins, KeepsCRs,
       SameWork
  <1>2. CASE Adopts(CRs)
    <2>1. obj \in CRs /\ ~obj.fin /\ obj.ip = None /\ pc # "idle"
      BY <1>2 DEF Adopts, Life, WorkOf, Orderly
    <2>2. {"uid", "deleting", "fin", "spec", "ip", "info"} \subseteq DOMAIN obj
      BY <2>1 DEF CRSort
    <2> DEFINE new == [obj EXCEPT !.fin = TRUE]
    <2>3. new \in CRs /\ new.ip = None /\ new.deleting = obj.deleting /\ Writes(new)
      BY <1>2, <2>1, <2>2 DEF CRSort, Adopts
    <2> HIDE DEF new
    <2> QED BY <2>1, <2>3, WriteShows
  <1>3. CASE Annotates(CRs)
    <2>1. pc # "idle" /\ ~obj.deleting /\ Backs(holder, key, obj)
      BY <1>3 DEF Annotates, Life, WorkOf, Backed, Publishing, Serving
    <2>2. obj' \in CRs /\ obj'.ip = obj.ip /\ obj'.deleting = obj.deleting /\ Writes(obj')
      BY <1>3 DEF Annotates, Noted
    <2> QED BY <2>1, <2>2, WriteShows DEF Backs
  <1>4. CASE Publishes(CRs)
    <2>1. pc # "idle"
      BY <1>4 DEF Publishes, Publishing
    <2>2. PICK new \in CRs : Noted(CRs, new) /\ new.ip = loc.ip /\ Writes(new)
      BY <1>4 DEF Publishes
    <2> QED BY <2>1, <2>2, WriteShows DEF Noted, Backed
  <1>5. CASE LetsGo
    BY <1>5, WriteShows DEF LetsGo
  <1>6. ASSUME NEW n \in Names, Creates(CRs, n) \/ Edits(CRs, n) \/ Deletes(n)
        PROVE  AbstractStep
    BY <1>6, UserShows
  <1>7. CASE Calls
    <2>1. api' = api /\ view' = view
      BY <1>7 DEF Calls, EnsureIP, Reserve, ReleaseIP, LostReply, k8sVars
    <2>2. CASE holder' = holder
      BY <2>1, <2>2, NoShowStep
    <2>3. CASE \E after \in Publishing : EnsureIP(after) \/ \E on \in BOOLEAN : Reserve(on, after)
      BY <2>1, <2>2, <2>3, TakeStep DEF EnsureIP, Reserve, poolVars
    <2>4. CASE ReleaseIP \/ \E on \in BOOLEAN : LostReply(on)
      BY <2>1, <2>4, TakeStep, GiveStep DEF ReleaseIP, LostReply
    <2> QED BY <1>7, <2>3, <2>4 DEF Calls
  <1> QED BY <1>1, <1>2, <1>3, <1>4, <1>5, <1>6, <1>7 DEF Move

-----------------------------------------------------------------------------
(***************************************************************************)
(* What the reconcilers do alike are moves that keep the tables in form.   *)
(***************************************************************************)
StepOK(CRs) == Move(CRs) /\ StoreForm' /\ WorkForm'

Objects == Names \cup Cached \cup Live

\* A write of an object.
LEMMA PutForm ==
    ASSUME StoreForm, NEW o \in Objects, NEW new, Put(o, new), view' = view
    PROVE  /\ StoreForm' /\ api'[o] = new
           /\ \A p \in Objects \ {o} : api'[p] = api[p]
           /\ o \notin Names => KeepsCRs
  <1>1. CASE new = api[o]
    BY <1>1 DEF Put, StoreForm, KeepsCRs
  <1>2. CASE new # api[o]
    <2>1. /\ api' = [api EXCEPT ![o] = new]
          /\ synced' = [c \in DOMAIN synced |-> synced[c] /\ c # o]
          /\ DOMAIN synced = Names \cup Cached
      BY <1>2 DEF Put, StoreForm
    <2>2. /\ DOMAIN api' = Objects /\ api'[o] = new
          /\ \A p \in Objects \ {o} : api'[p] = api[p]
      BY <2>1 DEF StoreForm, Objects
    <2>3. synced' \in [Names \cup Cached -> BOOLEAN]
      BY <2>1 DEF StoreForm
    <2>4. ASSUME NEW p \in Names \cup Cached, synced'[p] PROVE view'[p] = api'[p]
      BY <2>1, <2>2, <2>4 DEF StoreForm, Objects
    <2> QED BY <2>2, <2>3, <2>4 DEF StoreForm, Objects, KeepsCRs
  <1> QED BY <1>1, <1>2

\* No write.
LEMMA NoPutForm ==
    ASSUME StoreForm, NoPut, view' = view
    PROVE  StoreForm' /\ KeepsCRs
  BY DEF NoPut, StoreForm, KeepsCRs

\* A call that fails, or the end of Reconcile.
LEMMA FailStep ==
    ASSUME NEW CRs, Life(CRs), pc # "idle", Fail \/ Done, NoPut, view' = view,
           UNCHANGED <<births, poolVars>>
    PROVE  StepOK(CRs)
  <1>1. key \in Names /\ StoreForm /\ WorkForm
    BY DEF Life, WorkOf
  <1>2. Rests
    BY <1>1, NoPutForm DEF Rests, Fail, Done, poolVars
  <1>3. WorkForm'
    BY <1>1 DEF Fail, Done, Idle, poolVars, WorkForm, NoLocals, Infos
  <1> QED BY <1>1, <1>2, <1>3, NoPutForm DEF StepOK, Move

\* A call that has written another object, or nothing, and goes on.
LEMMA GoStep ==
    ASSUME NEW CRs, Life(CRs), NEW o \in Cached \cup Live, NEW new, NEW step,
           Put(o, new) \/ NoPut, view' = view, UNCHANGED <<obj, births, holder>>, Goto(step),
           dns' \in [IPs -> BOOLEAN],
           loc' = loc \/ (\E i \in Infos : loc' = [loc EXCEPT !.info = i]),
           \/ pc \in Publishing \cup {"ensure"} /\ step \in Publishing
           \/ pc \in Undoing /\ step \in Undoing \cup {"unfinalize", AfterUndo(obj)}
    PROVE  StepOK(CRs)
  <1>1. StoreForm /\ WorkForm
    BY DEF Life
  <1>2. KeepsCRs /\ StoreForm'
    BY <1>1, PutForm, NoPutForm, ControllerAssumption DEF Objects
  <1>3. loc'.ip = loc.ip /\ WorkForm'
    <2>1. {"ip", "info", "seen"} \subseteq DOMAIN loc' /\ loc'.ip = loc.ip /\ loc'.info \in Infos
      BY <1>1 DEF WorkForm
    <2> QED BY <1>1, <2>1 DEF WorkForm, Goto
  <1>4. Onward
    BY <1>2, <1>3 DEF Onward, Goto
  <1> QED BY <1>2, <1>3, <1>4 DEF StepOK, Move

\* Others write an object that is no CR of the controller.
LEMMA OtherStep ==
    ASSUME NEW CRs, Life(CRs), NEW o \in Cached \cup Live, NEW new, EnvPut(o, new),
           births' = births
    PROVE  StepOK(CRs)
  <1>1. StoreForm /\ WorkForm /\ view' = view
    BY DEF Life, EnvPut
  <1>2. KeepsCRs /\ StoreForm'
    BY <1>1, PutForm, ControllerAssumption DEF Objects, EnvPut
  <1>3. WorkForm' /\ Untouched
    BY <1>1, <1>2 DEF EnvPut, WorkForm, Untouched, SameWork, poolVars
  <1> QED BY <1>2, <1>3 DEF StepOK, Move

\* A step that changes nothing here.
LEMMA StillStep ==
    ASSUME NEW CRs, Life(CRs), UNCHANGED <<k8sVars, workVars, poolVars, births>>
    PROVE  StepOK(CRs)
  BY DEF Life, StepOK, Move, Untouched, SameWork, KeepsCRs, StoreForm, WorkForm, k8sVars,
     workVars, poolVars

\* The informer of the objects in K catches up.
LEMMA DeliverStep ==
    ASSUME NEW CRs, Life(CRs), NEW K,
           view' = [o \in DOMAIN view |-> IF o \in K THEN api[o] ELSE view[o]],
           synced' = [o \in DOMAIN synced |-> synced[o] \/ o \in K],
           UNCHANGED <<api, pc, key, obj, fresh, loc, poolVars, births>>,
           queue' \subseteq Names
    PROVE  StepOK(CRs)
  <1>1. StoreForm'
    BY DEF Life, StoreForm
  <1>2. CatchesUp
    BY DEF Life, StoreForm, CatchesUp, SameWork, poolVars
  <1>3. WorkForm'
    BY DEF Life, WorkForm, poolVars
  <1> QED BY <1>1, <1>2, <1>3 DEF StepOK, Move

\* The manager starts again.
LEMMA CrashStep ==
    ASSUME NEW CRs, Life(CRs), Crash
    PROVE  StepOK(CRs)
  <1>1. StoreForm'
    BY DEF Life, StoreForm, Crash, Restart
  <1>2. Restarts
    BY DEF Life, StoreForm, Restarts, Crash, Restart, Fault, poolVars
  <1>3. WorkForm'
    BY DEF Life, WorkForm, Crash, Restart, Fault, Idle, NoLocals, Infos, poolVars
  <1> QED BY <1>1, <1>2, <1>3 DEF StepOK, Move

\* The worker takes up a CR, or finds nothing to do.
LEMMA StartStep ==
    ASSUME NEW CRs, Life(CRs), NEW n \in Names, Start(n)
    PROVE  StepOK(CRs)
  <1>1. StoreForm' /\ KeepsCRs /\ UNCHANGED <<births, holder, loc>>
    BY DEF Life, StoreForm, KeepsCRs, Start, k8sVars, poolVars, budgetVars
  <1>2. WorkForm'
    BY DEF Life, WorkForm, Start, poolVars, budgetVars
  <1>3. CASE FirstStep(view[n]) = "idle"
    <2>1. Untouched
      BY <1>1, <1>3 DEF Start, Untouched, SameWork
    <2> QED BY <1>1, <1>2, <2>1 DEF StepOK, Move
  <1>4. CASE FirstStep(view[n]) # "idle"
    <2>1. Begins(n)
      BY <1>1, <1>4 DEF Start, Begins, FirstStep
    <2> QED BY <1>1, <1>2, <2>1 DEF StepOK, Move
  <1> QED BY <1>3, <1>4

\* The worker writes its CR.
LEMMA WriteStep ==
    ASSUME NEW CRs, Life(CRs), pc # "idle", key \in fresh, NEW new, Put(key, new),
           view' = view, UNCHANGED <<births, holder>>
    PROVE  Writes(new) /\ StoreForm'
  <1>1. key \in Names /\ StoreForm
    BY DEF Life, WorkOf
  <1> QED BY <1>1, PutForm DEF Objects, Writes, OthersSame, SameView

\* The worker adds the finalizer.
LEMMA AddFinalizerStep ==
    ASSUME NEW CRs, Life(CRs), AddFinalizer
    PROVE  StepOK(CRs)
  <1> DEFINE new == [obj EXCEPT !.fin = TRUE]
  <1>1. /\ pc = "finalizer" /\ view' = view /\ UNCHANGED <<births, poolVars>>
    BY DEF AddFinalizer, budgetVars
  <1>2. CASE key \notin fresh
    BY <1>1, <1>2, FailStep DEF AddFinalizer, UpdateCR
  <1>3. CASE key \in fresh
    <2>1. Put(key, new) /\ obj' = new /\ Goto("ensure") /\ loc' = loc
      BY <1>3 DEF AddFinalizer, UpdateCR
    <2>2. Writes(new) /\ StoreForm'
      BY <1>1, <1>3, <2>1, WriteStep DEF poolVars
    <2>3. Adopts(CRs)
      BY <1>1, <2>1, <2>2 DEF Adopts, Goto
    <2>4. WorkForm'
      BY <1>1, <2>1 DEF Life, WorkForm, Goto, poolVars
    <2> QED BY <2>2, <2>3, <2>4 DEF StepOK, Move
  <1> QED BY <1>2, <1>3

\* The status is written, or the write conflicts, and Reconcile returns.
LEMMA RecordStep ==
    ASSUME NEW CRs, Life(CRs), pc \in Publishing, NEW new \in CRs, Noted(CRs, new),
           new.ip = loc.ip, IF key \in fresh THEN Put(key, new) ELSE NoPut,
           Done \/ Fail, view' = view, UNCHANGED <<births, poolVars>>
    PROVE  StepOK(CRs)
  <1>1. pc # "idle"
    BY DEF Publishing
  <1>2. CASE key \notin fresh
    BY <1>1, <1>2, FailStep
  <1>3. CASE key \in fresh
    <2>1. Writes(new) /\ StoreForm'
      BY <1>1, <1>3, WriteStep DEF poolVars
    <2>2. Publishes(CRs)
      BY <2>1 DEF Publishes, Done, Fail
    <2>3. key \in Names
      BY <1>1 DEF Life, WorkOf
    <2>4. WorkForm'
      BY <2>3 DEF Life, WorkForm, Done, Fail, Idle, NoLocals, Infos, poolVars
    <2> QED BY <2>1, <2>2, <2>4 DEF StepOK, Move
  <1> QED BY <1>2, <1>3

\* It takes the finalizer off, and the CR is gone.
LEMMA RemoveFinalizerStep ==
    ASSUME NEW CRs, Life(CRs), RemoveFinalizer
    PROVE  StepOK(CRs)
  <1>1. /\ pc = "unfinalize" /\ view' = view /\ UNCHANGED <<births, poolVars>>
    BY DEF RemoveFinalizer, budgetVars
  <1>2. CASE key \notin fresh
    BY <1>1, <1>2, FailStep DEF RemoveFinalizer
  <1>3. CASE key \in fresh
    <2>1. Put(key, None) /\ Done
      BY <1>3 DEF RemoveFinalizer
    <2>2. Writes(None) /\ StoreForm'
      BY <1>1, <1>3, <2>1, WriteStep DEF poolVars
    <2>3. LetsGo
      BY <1>1, <2>1, <2>2 DEF LetsGo, Done
    <2>4. WorkForm'
      BY <1>1, <2>1 DEF Life, WorkForm, Done, Idle, NoLocals, Infos, poolVars
    <2> QED BY <2>2, <2>3, <2>4 DEF StepOK, Move
  <1> QED BY <1>2, <1>3

\* The calls to clusterbook.
LEMMA CallStep ==
    ASSUME NEW CRs, CRSort(CRs), Life(CRs), NEW after \in Publishing, NEW on \in BOOLEAN,
           EnsureIP(after) \/ Reserve(on, after) \/ ReleaseIP \/ LostReply(on)
    PROVE  StepOK(CRs)
  <1>1. /\ Calls /\ UNCHANGED <<k8sVars, births>>
    BY DEF Calls, EnsureIP, Reserve, ReleaseIP, LostReply, Fault, budgetVars
  <1>2. StoreForm'
    BY <1>1 DEF k8sVars, Life, StoreForm
  <1>3. /\ WorkForm /\ pc # "idle" /\ key \in Names /\ obj.ip \in IPs \cup {None}
        /\ pc = "release" => obj.ip \in IPs
    <2>1. pc \in {"ensure", "reserve", "release"}
      BY DEF EnsureIP, Reserve, ReleaseIP, LostReply
    <2> QED BY <2>1 DEF Life, WorkOf, CRSort, BaseOK
  <1>4. WorkForm'
    <2>1. /\ holder' \in [IPs -> Names \cup {None, "others"}]
          /\ dns' \in [IPs -> BOOLEAN]
      BY <1>3 DEF WorkForm, EnsureIP, Reserve, ReleaseIP, LostReply, Assign, Unassign, poolVars
    <2>2. CASE Fail
      BY <1>1, <1>3, <2>1, <2>2 DEF WorkForm, Fail, Idle, NoLocals, Infos
    <2>3. CASE ~Fail
      <3>1. fresh' = fresh /\ queue' = queue
        BY <2>3 DEF EnsureIP, Reserve, ReleaseIP, LostReply, Goto
      <3>2. loc' = loc \/ (\E i \in IPs \cup {None} : loc' = [loc EXCEPT !.ip = i])
        BY <1>3, <2>3 DEF EnsureIP, Reserve, ReleaseIP, LostReply, Listed, Held
      <3> QED BY <1>1, <1>3, <2>1, <3>1, <3>2 DEF WorkForm
    <2> QED BY <2>2, <2>3
  <1> QED BY <1>1, <1>2, <1>4 DEF StepOK, Move

\* GetClusterInfo fills in a local variable.
LEMMA GetInfoStep ==
    ASSUME NEW CRs, Life(CRs), NEW o \in Cached \cup Live, NEW after \in Publishing,
           GetInfo(after)
    PROVE  StepOK(CRs)
  <1>1. ClusterInfo(key) \in Infos
    BY DEF ClusterInfo, Infos
  <1>2. /\ pc \in Publishing /\ UNCHANGED <<api, view, synced, births, holder, dns, obj>>
        /\ Goto(after) /\ loc' = [loc EXCEPT !.info = ClusterInfo(key)]
    BY DEF GetInfo, k8sVars, poolVars, budgetVars, Publishing
  <1>3. dns' \in [IPs -> BOOLEAN]
    BY <1>2 DEF Life, WorkForm
  <1> QED BY <1>1, <1>2, <1>3, GoStep DEF NoPut

\* Faults.
LEMMA FailedCallStep ==
    ASSUME NEW CRs, Life(CRs), NEW steps, "idle" \notin steps, FailedCall(steps)
    PROVE  StepOK(CRs)
  BY FailStep DEF FailedCall, Fault, NoPut, k8sVars

\* A dropped error leaves everything as it is.
LEMMA IgnoredErrorStep ==
    ASSUME NEW CRs, Life(CRs), NEW o \in Cached \cup Live, NEW after \in Publishing,
           IgnoredError(after)
    PROVE  StepOK(CRs)
  <1>1. NoPut /\ view' = view /\ UNCHANGED <<births, holder, dns, poolVars>>
    BY DEF IgnoredError, NoPut, k8sVars, poolVars, Fault
  <1>2. CASE pc = "info"
    <2>1. Goto(after) /\ UNCHANGED <<obj, loc>> /\ pc \in Publishing
      BY <1>2 DEF IgnoredError, Publishing
    <2>2. dns' \in [IPs -> BOOLEAN]
      BY <1>1 DEF Life, WorkForm
    <2> QED BY <1>1, <2>1, <2>2, GoStep
  <1>3. CASE pc # "info"
    BY <1>1, <1>3, FailStep DEF IgnoredError
  <1> QED BY <1>2, <1>3

\* Users.
LEMMA UserStep ==
    ASSUME NEW CRs, Life(CRs), NEW n \in Names, NEW new, EnvPut(n, new),
           \/ /\ api[n] = None /\ births' = [births EXCEPT ![n] = @ + 1]
              /\ new \in CRs /\ new.uid = births[n] + 1 /\ new.ip = None
              /\ ~new.deleting /\ ~new.fin
           \/ /\ api[n] # None /\ births' = births
              /\ \/ \E s \in SpecChoices : new = [api[n] EXCEPT !.spec = s]
                 \/ new = IF api[n].fin THEN [api[n] EXCEPT !.deleting = TRUE] ELSE None
    PROVE  StepOK(CRs)
  <1>1. StoreForm /\ WorkForm /\ view' = view
    BY DEF Life, EnvPut
  <1>2. /\ StoreForm' /\ api'[n] = new
        /\ OthersSame(n) /\ SameView
        /\ api[n] = None => births'[n] = births[n] + 1
    BY <1>1, PutForm DEF Objects, EnvPut, OthersSame, SameView, WorkForm
  <1>3. WorkForm' /\ SameWork /\ n \notin fresh'
    BY <1>1 DEF EnvPut, WorkForm, SameWork, poolVars
  <1>4. Creates(CRs, n) \/ Edits(CRs, n) \/ Deletes(n)
    BY <1>2, <1>3 DEF Creates, Edits, Deletes
  <1> QED BY <1>2, <1>3, <1>4 DEF StepOK, Move

\* Users edit and delete CRs.
LEMMA EditStep ==
    ASSUME NEW CRs, Life(CRs), NEW n \in Names, NEW choices \in SUBSET SpecChoices,
           EditCR(n, choices) \/ DeleteCR(n)
    PROVE  StepOK(CRs)
  <1>1. births' = births /\ api[n] # None
    BY DEF EditCR, DeleteCR, Edit, budgetVars
  <1>2. CASE EditCR(n, choices)
    <2>1. PICK s \in SpecChoices : EnvPut(n, [api[n] EXCEPT !.spec = s])
      BY <1>2 DEF EditCR
    <2> QED BY <1>1, <2>1, UserStep
  <1>3. CASE DeleteCR(n)
    BY <1>1, <1>3, UserStep DEF DeleteCR
  <1> QED BY <1>2, <1>3

-----------------------------------------------------------------------------
(***************************************************************************)
(* The two invariants, step by step.                                       *)
(***************************************************************************)
LEMMA StepLife ==
    ASSUME NEW CRs, CRSort(CRs), Life(CRs), StepOK(CRs)
    PROVE  Life(CRs)'
  BY MoveLife, MoveWork DEF StepOK, Life

\* Copies keep to addresses that are held, and the step is one of Reservation.
LEMMA StepBacked ==
    ASSUME NEW CRs, CRSort(CRs), Life(CRs), Backed, OneName \/ NoRelease, StepOK(CRs)
    PROVE  Backed' /\ AbstractStep
  BY MoveBacked, MoveRefines DEF StepOK

\* Both hold before the first CR.
LEMMA FirstState ==
    ASSUME NEW CRs, NEW others, DOMAIN others \subseteq Cached, InitWith(others)
    PROVE  Life(CRs) /\ Backed /\ Reserved!Init
  <1>1. /\ \A n \in Names : api[n] = None /\ view[n] = None
    BY ControllerAssumption DEF InitWith
  <1>2. StoreForm
    BY DEF InitWith, StoreForm
  <1>3. WorkForm
    BY DEF InitWith, WorkForm, NoLocals, Infos
  <1>4. Life(CRs)
    BY <1>1, <1>2, <1>3 DEF InitWith, Life, LifeOf, WorkOf, Serving, Publishing, Finishing, Undoing
  <1>5. Backed
    BY <1>1 DEF InitWith, Backed, NoLocals
  <1>6. Reserved!Init
    BY <1>1, ControllerAssumption DEF InitWith, Reserved!Init, Shown
  <1> QED BY <1>4, <1>5, <1>6
====
