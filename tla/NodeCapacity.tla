---------------------------- MODULE NodeCapacity ----------------------------
(***************************************************************************)
(* Capacity eviction on one node.  A shim that wants to restore its        *)
(* container asks the manager's node service (shim/restore_capacity.go,    *)
(* manager/node/service.go), which compares the container's requests with  *)
(* what the capacity tracker (manager/capacity) knows, and taints the node *)
(* and deletes the pod when they do not fit.  The tracker is written, and  *)
(* the taint removed, by the pod controller's reconciles                   *)
(* (manager/pod_controller.go), which run concurrently for different pods. *)
(* All of them read the node from the manager's informer cache, which lags *)
(* behind the API server, and update it optimistically.                    *)
(*                                                                         *)
(* Every container requests one unit; a scaled-down one requests nothing.  *)
(* The status pipeline is the action Reports, which may come late or not   *)
(* at all.                                                                 *)
(***************************************************************************)
EXTENDS Integers, FiniteSets

CONSTANTS
    Pods,
    Migratable,     \* pods with migration enabled
    Awake,          \* pods whose container runs initially
    Capacity,       \* of the node, times the threshold
    MaxWakes,       \* bound: connections that wake a container
    Mishaps         \* bound: crashes and failed requests

ASSUME CapacityAssumption ==
    /\ IsFiniteSet(Pods)
    /\ Migratable \subseteq Pods
    /\ Capacity \in Nat \ {0}
    /\ Awake \subseteq Pods /\ Cardinality(Awake) <= Capacity
    /\ MaxWakes \in Nat
    /\ Mishaps \in Nat

VARIABLES
    live,       \* the pod object: live, deleting, gone
    shim,       \* the container: running, down, asking
    ask,        \* the position of RestoreCapacity for the pod
    reported,   \* pods whose status shows the requests of a running container
    tracker,    \* NodeTracker: capacity and requested
    taint,      \* of the node: none, new, old (MinTaintDuration)
    cached,     \* the taint in the manager's cache of the node
    current,    \* reconciles whose copy of the node is current
    mgr,        \* the manager's process runs
    queue,      \* the controller's work queue
    timers,     \* requests that wait for MinTaintDuration (RequeueAfter)
    due,        \* requests for which it is over
    rec,        \* the reconcile of each pod
    migrations, \* pods with a Migration object
    refused,    \* history: pods whose restore was refused, until they are gone
    noted,      \* history: the controller has seen the taint, and comes back
    wakes, mishaps

podVars  == <<live, shim, reported, wakes>>
ctrlVars == <<queue, timers, due, rec, migrations>>
nodeVars == <<taint, cached, current>>
vars == <<podVars, ask, tracker, nodeVars, mgr, ctrlVars, refused, noted, mishaps>>

Exist == {p \in Pods : live[p] # "gone"}

\* The sum of updateNodeResources.
Requested == Cardinality(reported)

Idle == [at |-> "idle", sum |-> 0, taint |-> "none"]

\* The taint that is new gets old in every copy of the node.
Aged(t) == IF t = "new" THEN "old" ELSE t

\* A write of the node, which makes every copy stale.  Whoever writes has read
\* the cache, so that the cache is at most one write behind.
WritesTaint(t) == taint' = t /\ current' = {} /\ UNCHANGED cached

Mishap == mishaps < Mishaps /\ mishaps' = mishaps + 1

-----------------------------------------------------------------------------
(* The shim. *)

\* checkpoint.
ScalesDown(p) ==
    /\ live[p] # "gone"
    /\ shim[p] = "running"
    /\ shim' = [shim EXCEPT ![p] = "down"]
    /\ UNCHANGED <<live, ask, reported, wakes, tracker, nodeVars, mgr, ctrlVars,
                   refused, noted, mishaps>>

\* Restore with restoreCapacityRequest: a manager that cannot be reached does
\* not keep a container from being restored.
Wakes(p) ==
    /\ live[p] # "gone"
    /\ shim[p] = "down"
    /\ wakes < MaxWakes
    /\ wakes' = wakes + 1
    /\ IF mgr
         THEN /\ shim' = [shim EXCEPT ![p] = "asking"]
              /\ ask' = [ask EXCEPT ![p] = "check"]
         ELSE /\ shim' = [shim EXCEPT ![p] = "running"]
              /\ UNCHANGED ask
    /\ UNCHANGED <<live, reported, tracker, nodeVars, mgr, ctrlVars,
                   refused, noted, mishaps>>

\* The kubelet's report of the requests that the status pipeline has set.
Reports(p) ==
    /\ live[p] # "gone"
    /\ reported' = IF shim[p] = "running" THEN reported \cup {p}
                                          ELSE reported \ {p}
    /\ reported' # reported
    /\ queue' = IF mgr THEN queue \cup {p} ELSE queue
    /\ UNCHANGED <<live, shim, wakes, ask, tracker, nodeVars, mgr, timers,
                   due, rec, migrations, refused, noted, mishaps>>

-----------------------------------------------------------------------------
(* RestoreCapacity. *)

\* The answer: the shim restores, or it fails with ErrNoCapacity.
Answers(p, state) ==
    /\ ask' = [ask EXCEPT ![p] = "none"]
    /\ shim' = [shim EXCEPT ![p] = state]

\* hasCapacity: a fresh tracker knows no capacity.
HasCapacity ==
    \/ tracker.capacity = 0
    \/ tracker.requested + 1 <= tracker.capacity

Checks(p) ==
    /\ ask[p] = "check"
    /\ IF HasCapacity
         THEN Answers(p, "running")
         ELSE ask' = [ask EXCEPT ![p] = "taint"] /\ UNCHANGED shim
    /\ UNCHANGED <<live, reported, wakes, tracker, nodeVars, mgr, ctrlVars,
                   refused, noted, mishaps>>

\* RetryOnConflict with AddTaint: a taint that the cache shows is taken to be
\* there, and keeps its age; where the cache shows none although there is one,
\* the update conflicts and is tried again.
AddsTaint(p) ==
    /\ ask[p] = "taint"
    /\ ask' = [ask EXCEPT ![p] = "delete"]
    /\ \/ cached # "none" /\ UNCHANGED nodeVars
       \/ cached = "none" /\ taint = "none" /\ WritesTaint("new")
    /\ UNCHANGED <<podVars, tracker, mgr, ctrlVars, refused, noted, mishaps>>

\* What follows the deletion: without a migration, the answer.
Refuses(p) ==
    IF p \in Migratable
    THEN ask' = [ask EXCEPT ![p] = "await"] /\ UNCHANGED <<shim, refused>>
    ELSE Answers(p, "down") /\ refused' = refused \cup {p}

Evicts_NoDelete(p) ==
    /\ ask[p] = "delete"
    /\ Refuses(p)
    /\ UNCHANGED <<live, reported, wakes, tracker, nodeVars, mgr, ctrlVars,
                   noted, mishaps>>

\* Delete: the controller sees the first deletion of a pod.
Evicts(p) ==
    /\ ask[p] = "delete"
    /\ Refuses(p)
    /\ IF live[p] = "live"
         THEN /\ live' = [live EXCEPT ![p] = "deleting"]
              /\ queue' = queue \cup {p}
         ELSE UNCHANGED <<live, queue>>
    /\ UNCHANGED <<reported, wakes, tracker, nodeVars, mgr, timers, due, rec,
                   migrations, noted, mishaps>>

\* evictPod waits for the migration's target, and refuses in any case.
Awaited(p) ==
    /\ ask[p] = "await"
    /\ Answers(p, "down")
    /\ refused' = refused \cup {p}
    /\ UNCHANGED <<live, reported, wakes, tracker, nodeVars, mgr, ctrlVars,
                   noted, mishaps>>

\* A failed request to the API server, or one conflict too many, is an error,
\* and the shim restores.
AskFails(p) ==
    /\ ask[p] \in {"check", "taint", "delete"}
    /\ Mishap
    /\ Answers(p, "running")
    /\ UNCHANGED <<live, reported, wakes, tracker, nodeVars, mgr, ctrlVars,
                   refused, noted>>

-----------------------------------------------------------------------------
(* The pod controller. *)

\* updateNodeResources reads the node, from the cache.
ReconcileReads(p) ==
    /\ p \in queue
    /\ rec[p].at = "idle"
    /\ queue' = queue \ {p}
    /\ rec' = [rec EXCEPT ![p] = [at |-> "list", sum |-> 0, taint |-> cached]]
    /\ current' = IF cached = taint THEN current \cup {p} ELSE current
    /\ tracker' = [tracker EXCEPT !.capacity = Capacity]
    /\ UNCHANGED <<podVars, ask, taint, cached, mgr, timers, due, migrations,
                   refused, noted, mishaps>>

\* It lists the pods.
ReconcileLists(p) ==
    /\ rec[p].at = "list"
    /\ rec' = [rec EXCEPT ![p].at = "set", ![p].sum = Requested]
    /\ UNCHANGED <<podVars, ask, tracker, nodeVars, mgr, queue, timers, due,
                   migrations, refused, noted, mishaps>>

\* Reconcile drops the result of updateNodeResources when the pod is gone or
\* its migration exists.
Dropped(p) == live[p] = "gone" \/ p \in migrations

\* RequeueAfter adds a timer, unless one that ends earlier is set.
Repeated(p) == ~Dropped(p) /\ p \notin due

\* It creates the migration of a deleted pod.
Migrates(p) ==
    migrations' = IF ~Dropped(p) /\ live[p] = "deleting"
                  THEN migrations \cup ({p} \cap Migratable)
                  ELSE migrations

Requeues_Never(p, after) == Migrates(p) /\ UNCHANGED timers

\* Reconcile after updateNodeResources.
Requeues(p, after) ==
    /\ Migrates(p)
    /\ timers' = IF after /\ Repeated(p) THEN timers \cup {p} ELSE timers

\* The taint is old and the requests are below the threshold.
Fits(p) == rec[p].taint = "old" /\ rec[p].sum < tracker.capacity

\* The reconcile removes the taint it has read, or is repeated for it.
ComesBack(p) == Fits(p) \/ (rec[p].taint = "new" /\ Repeated(p))

\* SetRequested, and what to do about the taint.
ReconcileSets(p) ==
    /\ rec[p].at = "set"
    /\ tracker' = [tracker EXCEPT !.requested = rec[p].sum]
    /\ noted' = (noted \/ (p \in current /\ ComesBack(p)))
    /\ IF Fits(p)
         THEN /\ rec' = [rec EXCEPT ![p].at = "untaint", ![p].sum = 0]
              /\ UNCHANGED <<current, timers, migrations>>
         ELSE /\ rec' = [rec EXCEPT ![p] = Idle]
              /\ current' = current \ {p}
              /\ Requeues(p, rec[p].taint = "new")
    /\ UNCHANGED <<podVars, ask, taint, cached, mgr, queue, due, refused, mishaps>>

RemovesTaint_Patch(p) ==
    /\ rec[p].at = "untaint"
    /\ WritesTaint("none")
    /\ rec' = [rec EXCEPT ![p] = Idle]
    /\ Requeues(p, FALSE)
    /\ noted' = FALSE
    /\ UNCHANGED <<podVars, ask, tracker, mgr, queue, due, refused, mishaps>>

\* RemoveTaint and the update of the node.
RemovesTaint(p) ==
    /\ rec[p].at = "untaint"
    /\ p \in current
    /\ WritesTaint("none")
    /\ rec' = [rec EXCEPT ![p] = Idle]
    /\ Requeues(p, FALSE)
    /\ noted' = FALSE
    /\ UNCHANGED <<podVars, ask, tracker, mgr, queue, due, refused, mishaps>>

\* An error, such as a conflict, puts the request back.
ReconcileFails(p) ==
    /\ \/ rec[p].at = "untaint" /\ p \notin current /\ UNCHANGED mishaps
       \/ rec[p].at # "idle" /\ Mishap
    /\ rec' = [rec EXCEPT ![p] = Idle]
    /\ current' = current \ {p}
    /\ queue' = queue \cup {p}
    /\ UNCHANGED <<podVars, ask, tracker, taint, cached, mgr, timers, due,
                   migrations, refused, noted>>

\* MinTaintDuration after a reconcile that saw a new taint, whatever taint there
\* is by now.
RequeueFires(p) ==
    /\ p \in due
    /\ due' = due \ {p}
    /\ queue' = queue \cup {p}
    /\ UNCHANGED <<podVars, ask, tracker, nodeVars, mgr, timers, rec, migrations,
                   refused, noted, mishaps>>

-----------------------------------------------------------------------------
(* The cluster. *)

\* The informer receives the node.
CacheUpdates ==
    /\ cached # taint
    /\ cached' = taint
    /\ UNCHANGED <<podVars, ask, tracker, taint, current, mgr, ctrlVars, refused,
                   noted, mishaps>>

\* MinTaintDuration passes.
TaintAges ==
    /\ taint = "new"
    /\ taint' = "old"
    /\ cached' = Aged(cached)
    /\ rec' = [p \in Pods |-> [rec[p] EXCEPT !.taint = Aged(rec[p].taint)]]
    /\ due' = due \cup timers
    /\ timers' = {}
    /\ UNCHANGED <<podVars, ask, tracker, current, mgr, queue, migrations,
                   refused, noted, mishaps>>

\* Somebody else deletes the pod.
PodDeleted(p) ==
    /\ live[p] = "live"
    /\ Mishap
    /\ live' = [live EXCEPT ![p] = "deleting"]
    /\ queue' = IF mgr THEN queue \cup {p} ELSE queue
    /\ UNCHANGED <<shim, reported, wakes, ask, tracker, nodeVars, mgr,
                   timers, due, rec, migrations, refused, noted>>

\* The shim is killed, which cancels its request, and the pod object removed.
PodGone(p) ==
    /\ live[p] = "deleting"
    /\ live' = [live EXCEPT ![p] = "gone"]
    /\ Answers(p, "down")
    /\ refused' = refused \ {p}
    /\ reported' = reported \ {p}
    /\ queue' = IF mgr THEN queue \cup {p} ELSE queue
    /\ UNCHANGED <<wakes, tracker, nodeVars, mgr, timers, due, rec, migrations,
                   noted, mishaps>>

\* What the manager has in memory is lost; it fills its caches when it starts.
ManagerCrashes ==
    /\ mgr
    /\ Mishap
    /\ mgr' = FALSE
    /\ tracker' = [capacity |-> 0, requested |-> 0]
    /\ queue' = {}
    /\ timers' = {}
    /\ due' = {}
    /\ rec' = [p \in Pods |-> Idle]
    /\ cached' = taint
    /\ current' = {}
    /\ noted' = (noted /\ taint = "old")
    /\ ask' = [p \in Pods |-> "none"]
    /\ shim' = [p \in Pods |-> IF shim[p] = "asking" THEN "running" ELSE shim[p]]
    /\ UNCHANGED <<live, reported, wakes, taint, migrations, refused>>

\* The controller lists the zeropods of the node.
ManagerStarts ==
    /\ ~mgr
    /\ mgr' = TRUE
    /\ queue' = Exist
    /\ UNCHANGED <<podVars, ask, tracker, nodeVars, timers, due, rec, migrations,
                   refused, noted, mishaps>>

-----------------------------------------------------------------------------
(* The specification. *)

\* A node at rest.
Init ==
    /\ live = [p \in Pods |-> "live"]
    /\ shim = [p \in Pods |-> IF p \in Awake THEN "running" ELSE "down"]
    /\ reported = Awake
    /\ ask = [p \in Pods |-> "none"]
    /\ tracker = [capacity |-> Capacity, requested |-> Cardinality(Awake)]
    /\ taint = "none"
    /\ cached = "none"
    /\ current = {}
    /\ mgr = TRUE
    /\ queue = {}
    /\ timers = {}
    /\ due = {}
    /\ rec = [p \in Pods |-> Idle]
    /\ migrations = {}
    /\ refused = {}
    /\ noted = FALSE
    /\ wakes = 0
    /\ mishaps = 0

Serves(p) ==
    Checks(p) \/ AddsTaint(p) \/ Evicts(p) \/ Awaited(p) \/ AskFails(p)

Reconciles(p) ==
    \/ ReconcileReads(p) \/ ReconcileLists(p) \/ ReconcileSets(p)
    \/ RemovesTaint(p) \/ ReconcileFails(p) \/ RequeueFires(p)

Next ==
    \/ \E p \in Pods :
          \/ ScalesDown(p) \/ Wakes(p) \/ Reports(p)
          \/ Serves(p) \/ Reconciles(p)
          \/ PodDeleted(p) \/ PodGone(p)
    \/ CacheUpdates \/ TaintAges \/ ManagerCrashes \/ ManagerStarts

Spec == Init /\ [][Next]_vars

\* The goroutines of the manager, its cache, time, and the kubelet that starts
\* a crashed manager again.
System ==
    \/ \E p \in Pods : Serves(p) \/ Reconciles(p)
    \/ CacheUpdates \/ TaintAges \/ ManagerStarts

\* They do not all stop.  This is less than the scheduler gives to each of them,
\* and enough because none of them runs for ever.  Nothing is assumed of shims
\* and the status pipeline.
FairSpec == Spec /\ WF_vars(System)

-----------------------------------------------------------------------------
(* Properties. *)

\* Every variable has its type, and a stopped manager does nothing.
TypeOK ==
    /\ live \in [Pods -> {"live", "deleting", "gone"}]
    /\ shim \in [Pods -> {"running", "down", "asking"}]
    /\ reported \in SUBSET Pods
    /\ ask \in [Pods -> {"none", "check", "taint", "delete", "await"}]
    /\ tracker \in [capacity : {0, Capacity}, requested : 0..Cardinality(Pods)]
    /\ taint \in {"none", "new", "old"}
    /\ cached \in {"none", "new", "old"}
    /\ current \in SUBSET Pods
    /\ mgr \in BOOLEAN
    /\ queue \in SUBSET Pods
    /\ timers \in SUBSET Pods
    /\ due \in SUBSET Pods
    /\ rec \in [Pods -> [at : {"idle", "list", "set", "untaint"},
                         sum : 0..Cardinality(Pods),
                         taint : {"none", "new", "old"}]]
    /\ migrations \in SUBSET Migratable
    /\ refused \in SUBSET Pods
    /\ noted \in BOOLEAN
    /\ \A p \in Pods : ask[p] # "none" => mgr

\* A pod that is refused a restore is being replaced: whatever fails or is
\* deleted meanwhile, its clients are not left with a container that is never
\* restored.
RefusedLeaves == TypeOK /\ \A p \in refused : live[p] # "live"

\* A taint is kept for MinTaintDuration, also when reconciles act on a copy of
\* the node with an older one.
YoungTaintStays == [][taint = "new" => taint' # "none"]_vars

Room == Requested < Capacity

\* A taint that the controller has noted does not stay when in the end there is
\* always room, and a zeropod on the node.  Noted is a taint that a reconcile
\* found in a current copy of the node and comes back for.  The exceptions are a
\* reconcile that reads the cache before the informer has received the taint,
\* one that reads a new taint and whose result Reconcile drops or that a timer
\* for an earlier taint repeats too soon, and one that lists the pods too early:
\* only a later event makes up for them.
TaintGoes ==
    <>[](Room /\ Exist # {} /\ noted) => []<>(taint = "none")
=============================================================================
