----------------------------- MODULE Controller -----------------------------
(***************************************************************************)
(* What the reconcilers of load balancers, allocations and vclusters have  *)
(* in common: one worker of one manager, the informer caches it reads      *)
(* through, the API server it writes to with optimistic concurrency, and   *)
(* the way from the finalizer through a reservation in clusterbook to the  *)
(* status and back.  Each of those reconcilers has its own copy of this    *)
(* code; its module names the steps of its copy and adds what it publishes *)
(* in between.                                                             *)
(*                                                                         *)
(* Every call to the API server or to clusterbook is a step.  Objects are  *)
(* identified by name: the CRs, others that are read through the cache,    *)
(* and those that an unstructured client reads from the API server itself. *)
(* A CR is named by its reservation key.                                   *)
(***************************************************************************)
EXTENDS Naturals, FiniteSets

CONSTANTS
    Names,         \* the CRs of the controller
    Cached,        \* other objects, read through the cache
    Live,          \* objects that are never cached
    IPs,           \* addresses of the clusterbook pool
    None,          \* the empty string, a missing object, no key in work
    SpecChoices,   \* the specs users write
    MaxCreates,    \* bound: lives of each name
    MaxEdits,      \* bound: changes made by users
    MaxFaults      \* bound: failed calls, lost replies and crashes

ASSUME ControllerAssumption ==
    /\ {None, "others"} \cap Names = {} /\ "others" # None
    /\ None \notin Cached \cup Live \cup IPs
    /\ Names \cap (Cached \cup Live) = {} /\ Cached \cap Live = {}
    /\ {MaxCreates, MaxEdits, MaxFaults} \subseteq Nat

VARIABLES
    api,       \* the API server
    view,      \* the informer caches
    synced,    \* the cached copy is the current version
    queue,     \* the work queue
    pc,        \* what the worker does next
    key,       \* the CR it reconciles
    obj,       \* its copy of that CR
    fresh,     \* the objects of which its copy is the current version
    loc,       \* the local variables of Reconcile
    holder,    \* clusterbook: the name an IP is assigned to
    dns,       \* clusterbook: the assignment has a DNS record
    births,    \* creations of each name so far; the last one is its uid
    edits,     \* changes made by users so far
    faults     \* faults so far

k8sVars    == <<api, view, synced>>
workVars   == <<pc, key, obj, fresh, loc, queue>>
poolVars   == <<holder, dns>>
budgetVars == <<births, edits, faults>>
vars       == <<k8sVars, workVars, poolVars, budgetVars>>

Infos == {"nil", "plain", "fqdn"}     \* no answer, no FQDN, with FQDN

\* The IP, what GetClusterInfo said of it, and the object that was read last.
NoLocals == [ip |-> None, info |-> "nil", seen |-> None]

-----------------------------------------------------------------------------
\* A worker moves on to the next step, or it returns: with an error, which
\* queues the CR again, or without.
Goto(step) == pc' = step /\ UNCHANGED <<key, fresh, queue>>

Idle ==
    pc' = "idle" /\ key' = None /\ obj' = None /\ fresh' = {} /\ loc' = NoLocals

Done == Idle /\ UNCHANGED queue

\* Mistake: log the error and return nil.
Forget == Done

Fail == Idle /\ queue' = queue \cup {key}

\* A write to the API server; one that changes nothing makes no new version.
Put(o, new) ==
    IF new = api[o] THEN UNCHANGED <<api, synced>>
    ELSE /\ api' = [api EXCEPT ![o] = new]
         /\ synced' = [c \in DOMAIN synced |-> synced[c] /\ c # o]

NoPut == UNCHANGED <<api, synced>>

\* The worker updates the CR from its copy, which must be the current one.
UpdateCR(new, step) ==
    \/ key \in fresh /\ Put(key, new) /\ obj' = new /\ Goto(step) /\ UNCHANGED loc
    \/ key \notin fresh /\ NoPut /\ Fail

-----------------------------------------------------------------------------
(***************************************************************************)
(* Reconcile and finalize.                                                 *)
(***************************************************************************)
FirstStep(cr) ==
    IF cr = None THEN "idle"
    ELSE IF cr.deleting THEN IF cr.fin THEN "undo" ELSE "idle"
    ELSE IF cr.fin THEN "ensure" ELSE "finalizer"

\* The CR is read from the cache.  A provider config that cannot be loaded
\* puts the CR straight back into the queue: no step.
Start(n) ==
    /\ pc = "idle" /\ n \in queue
    /\ queue' = queue \ {n}
    /\ IF FirstStep(view[n]) = "idle" THEN UNCHANGED <<pc, key, obj, fresh>>
       ELSE /\ pc' = FirstStep(view[n]) /\ key' = n /\ obj' = view[n]
            /\ fresh' = IF synced[n] THEN {n} ELSE {}
    /\ UNCHANGED <<loc, k8sVars, poolVars, budgetVars>>

AddFinalizer ==
    /\ pc = "finalizer"
    /\ UpdateCR([obj EXCEPT !.fin = TRUE], "ensure")
    /\ UNCHANGED <<view, poolVars, budgetVars>>

Held(n) == {i \in IPs : holder[i] = n}
Free    == {i \in IPs : holder[i] = None}

\* Mistake: take the first entry of the listing.
AnyListed(n) == {i \in IPs : holder[i] # None}

\* GetIPs as ensureReservation reads it: the entries whose Cluster is n.
Listed(n) == Held(n)

\* Mistake: go on without an IP when the listing has none.
EnsureListed(after) ==
    /\ pc = "ensure"
    /\ IF obj.ip # None THEN loc' = [loc EXCEPT !.ip = obj.ip]
       ELSE \E i \in Listed(key) \cup {None} : loc' = [loc EXCEPT !.ip = i]
    /\ Goto(after)
    /\ UNCHANGED <<obj, k8sVars, poolVars, budgetVars>>

\* ensureReservation up to its Reserve call: trust status.ip, else look the
\* name up in the listing, else reserve.
EnsureIP(after) ==
    /\ pc = "ensure"
    /\ \/ obj.ip # None /\ loc' = [loc EXCEPT !.ip = obj.ip] /\ Goto(after)
       \/ /\ obj.ip = None
          /\ \E i \in Listed(key) : loc' = [loc EXCEPT !.ip = i]
          /\ Goto(after)
       \/ obj.ip = None /\ Listed(key) = {} /\ Goto("reserve") /\ UNCHANGED loc
    /\ UNCHANGED <<obj, k8sVars, poolVars, budgetVars>>

\* What the clusterbook server does with a reserve and a release request.
Assign(n, i, on) ==
    /\ i \in Free
    /\ holder' = [holder EXCEPT ![i] = n]
    /\ dns' = [dns EXCEPT ![i] = on]

Unassign(i) ==
    /\ holder' = [holder EXCEPT ![i] = None]
    /\ dns' = [dns EXCEPT ![i] = FALSE]

\* The request is refused when the pool is exhausted.
Reserve(on, after) ==
    /\ pc = "reserve"
    /\ \/ /\ \E i \in IPs : Assign(key, i, on) /\ loc' = [loc EXCEPT !.ip = i]
          /\ Goto(after) /\ UNCHANGED obj
       \/ Free = {} /\ Fail /\ UNCHANGED poolVars
    /\ UNCHANGED <<k8sVars, budgetVars>>

\* GetClusterInfo, whose error is dropped.
ClusterInfo(n) == IF \E i \in Held(n) : dns[i] THEN "fqdn" ELSE "plain"

GetInfo(after) ==
    /\ pc = "info"
    /\ loc' = [loc EXCEPT !.info = ClusterInfo(key)]
    /\ Goto(after)
    /\ UNCHANGED <<obj, k8sVars, poolVars, budgetVars>>

\* Mistake: record the object that was read last.
WithSeen(cr) == [cr EXCEPT !.ip = loc.seen]

\* What every status records of the reservation.
WithAddress(cr) ==
    [cr EXCEPT !.ip = loc.ip, !.info = IF loc.info = "nil" THEN @ ELSE loc.info]

\* The status update is last, and its conflict is only logged.
PublishStatus(new) ==
    /\ pc = "status"
    /\ IF key \in fresh THEN Put(key, new) ELSE NoPut
    /\ Done
    /\ UNCHANGED <<view, poolVars, budgetVars>>

\* Once what was published is undone the IP is released, if that is wanted
\* and one is recorded ...
AfterUndo(cr) ==
    IF cr.spec.release /\ cr.ip # None THEN "release" ELSE "unfinalize"

ReleaseIP ==
    /\ pc = "release"
    /\ Unassign(obj.ip)
    /\ Goto("unfinalize")
    /\ UNCHANGED <<obj, loc, k8sVars, budgetVars>>

\* ... and without its last finalizer the deleted CR is gone.
RemoveFinalizer ==
    /\ pc = "unfinalize"
    /\ \/ key \in fresh /\ Put(key, None) /\ Done
       \/ key \notin fresh /\ NoPut /\ Fail
    /\ UNCHANGED <<view, poolVars, budgetVars>>

-----------------------------------------------------------------------------
(***************************************************************************)
(* Faults, at most MaxFaults of them.                                      *)
(***************************************************************************)
Fault == faults < MaxFaults /\ faults' = faults + 1 /\ UNCHANGED <<births, edits>>

\* A call whose error Reconcile returns; the listing is only read when
\* status.ip is empty.
FailedCall(steps) ==
    /\ Fault
    /\ \/ pc \in steps \cup {"finalizer", "reserve", "release", "unfinalize"}
       \/ pc = "ensure" /\ obj.ip = None
    /\ Fail
    /\ UNCHANGED <<k8sVars, poolVars>>

\* A reserve or release request is served, but its answer is lost.
LostReply(on) ==
    /\ Fault
    /\ \/ pc = "reserve" /\ \E i \in IPs : Assign(key, i, on)
       \/ pc = "release" /\ Unassign(obj.ip)
    /\ Fail
    /\ UNCHANGED k8sVars

\* GetClusterInfo and the status update fail; Reconcile carries on.
IgnoredError(after) ==
    /\ Fault
    /\ \/ pc = "info" /\ Goto(after) /\ UNCHANGED <<obj, loc>>
       \/ pc = "status" /\ Done
    /\ UNCHANGED <<k8sVars, poolVars>>

Restart ==
    /\ Idle
    /\ view' = [o \in DOMAIN view |-> api[o]]
    /\ synced' = [o \in DOMAIN synced |-> TRUE]
    /\ queue' = {n \in Names : api[n] # None}

\* The manager dies and comes back with new caches and every CR queued.
Crash == Fault /\ Restart /\ UNCHANGED <<api, poolVars>>

-----------------------------------------------------------------------------
\* The informer of the objects in K catches up; wakes[o] are the CRs that
\* an event of o queues.
Deliver(K, wakes(_)) ==
    LET events == {o \in K : ~synced[o]} IN
    /\ events # {}
    /\ view' = [o \in DOMAIN view |-> IF o \in K THEN api[o] ELSE view[o]]
    /\ synced' = [o \in DOMAIN synced |-> synced[o] \/ o \in K]
    /\ queue' = queue \cup UNION {wakes(o) : o \in events}
    /\ UNCHANGED <<api, pc, key, obj, fresh, loc, poolVars, budgetVars>>

Itself(n) == {n}

-----------------------------------------------------------------------------
\* Writes of users and of other controllers.
EnvPut(o, new) ==
    /\ Put(o, new) /\ fresh' = fresh \ {o}
    /\ UNCHANGED <<view, pc, key, obj, loc, queue, poolVars>>

Edit == edits < MaxEdits /\ edits' = edits + 1 /\ UNCHANGED <<births, faults>>

CreateCR(n, New(_, _)) ==
    /\ api[n] = None /\ births[n] < MaxCreates
    /\ births' = [births EXCEPT ![n] = @ + 1]
    /\ \E s \in SpecChoices : EnvPut(n, New(births[n] + 1, s))
    /\ UNCHANGED <<edits, faults>>

EditCR(n, choices) ==
    /\ api[n] # None /\ Edit
    /\ \E s \in choices \ {api[n].spec} : EnvPut(n, [api[n] EXCEPT !.spec = s])

DeleteCR(n) ==
    /\ api[n] # None
    /\ ~api[n].deleting
    /\ EnvPut(n, IF api[n].fin THEN [api[n] EXCEPT !.deleting = TRUE] ELSE None)
    /\ UNCHANGED budgetVars

-----------------------------------------------------------------------------
\* Before the first CR; others is what users have set up.  Some addresses of
\* the pool may be assigned to names that are nobody's here.
InitWith(others) ==
    /\ api = [o \in Names \cup Cached \cup Live |->
                IF o \in DOMAIN others THEN others[o] ELSE None]
    /\ view = [o \in Names \cup Cached |-> api[o]]
    /\ synced = [o \in Names \cup Cached |-> TRUE]
    /\ queue = {} /\ pc = "idle" /\ key = None /\ obj = None /\ fresh = {}
    /\ loc = NoLocals
    /\ holder \in [IPs -> {None, "others"}]
    /\ dns = [i \in IPs |-> FALSE]
    /\ births = [n \in Names |-> 0]
    /\ edits = 0 /\ faults = 0

\* The fields that all CRs have.
BaseOK(cr) ==
    /\ cr.uid \in Nat /\ {cr.deleting, cr.fin} \subseteq BOOLEAN
    /\ cr.spec \in SpecChoices /\ cr.ip \in IPs \cup {None} /\ cr.info \in Infos

WorkOK ==
    /\ queue \subseteq Names /\ fresh \subseteq Names \cup Cached
    /\ key \in Names \cup {None}
    /\ pc # "idle" => key \in Names /\ BaseOK(obj)
    /\ pc \in {"info", "status"} => loc.ip \in IPs \cup {None}
    /\ holder \in [IPs -> Names \cup {None, "others"}] /\ dns \in [IPs -> BOOLEAN]

-----------------------------------------------------------------------------
(***************************************************************************)
(* A deleted CR goes away, whatever fails at first, is stale or is missing *)
(* by then.                                                                *)
(***************************************************************************)
DeletionCompletes ==
    \A n \in Names :
       (api[n] # None /\ api[n].deleting)
          ~> (api[n] = None \/ ~api[n].deleting)

\* Nobody is going to reconcile n any more.
Quiet(n) == key # n /\ n \notin queue /\ \A o \in DOMAIN synced : synced[o]

(***************************************************************************)
(* The controller implements Reservation.                                  *)
(***************************************************************************)
Shown ==
    [n \in Names |-> IF api[n] = None THEN None
                     ELSE IF api[n].deleting THEN None ELSE api[n].ip]

Reserved == INSTANCE Reservation WITH shown <- Shown

ImplementsReservation == Reserved!Spec
====
