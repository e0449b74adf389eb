----------------------------- MODULE NodeProofs -----------------------------
(***************************************************************************)
(* Proofs about capacity eviction, for every number of pods, every         *)
(* capacity and every number of wake-ups and mishaps: a pod that is        *)
(* refused leaves the node, and a taint is never removed while it is new.  *)
(***************************************************************************)
EXTENDS NodeCapacity, TLAPS

USE DEF podVars, ctrlVars, nodeVars, Mishap, Answers, WritesTaint

-----------------------------------------------------------------------------
(* The invariants. *)

\* The conjuncts of TypeOK: of the Boolean-valued variables, of the pods and
\* their requests, of the node and its tracker, and of the controller.
Flags == mgr \in BOOLEAN /\ noted \in BOOLEAN
PodsOK ==
    /\ live \in [Pods -> {"live", "deleting", "gone"}]
    /\ shim \in [Pods -> {"running", "down", "asking"}]
    /\ reported \in SUBSET Pods
    /\ ask \in [Pods -> {"none", "check", "taint", "delete", "await"}]
    /\ refused \in SUBSET Pods
Sums == 0..Cardinality(Pods)
Taints == {"none", "new", "old"}
NodeOK ==
    /\ tracker \in [capacity : {0, Capacity}, requested : Sums]
    /\ taint \in Taints
    /\ cached \in Taints
    /\ current \in SUBSET Pods
Jobs == [at : {"idle", "list", "set", "untaint"}, sum : Sums, taint : Taints]
ControllerOK ==
    /\ queue \in SUBSET Pods
    /\ timers \in SUBSET Pods
    /\ due \in SUBSET Pods
    /\ rec \in [Pods -> Jobs]
    /\ migrations \in SUBSET Migratable

\* The node service of a manager that does not run serves nobody.
Served == \A p \in Pods : ask[p] # "none" => mgr

Typed == Flags /\ PodsOK /\ NodeOK /\ ControllerOK /\ Served

\* evictPod awaits the target of a migration only after it has deleted the
\* pod, and a refused pod was deleted.
Leaving ==
    /\ \A p \in Pods : ask[p] = "await" => live[p] # "live"
    /\ \A p \in refused : live[p] # "live"

\* A reconcile removes the taint that it has read to be old; as long as its
\* copy of the node is current, that is the taint of the node.  A copy that was
\* read from a cache that lags behind is not current, and a taint that is put
\* in the place of another one makes every copy stale.
SeenOld ==
    \A p \in Pods :
        /\ rec[p].at = "untaint" => rec[p].taint = "old"
        /\ p \in current => rec[p].at # "idle" /\ rec[p].taint = taint

-----------------------------------------------------------------------------
(* Types. *)

\* The flags of the manager and of the history.
LEMMA FlagsStep == Flags /\ [Next]_vars => Flags'
<1> SUFFICES ASSUME Flags, [Next]_vars PROVE Flags'
  OBVIOUS
<1> USE DEF Flags
<1>1. ASSUME NEW p \in Pods, ScalesDown(p) \/ Wakes(p) \/ Reports(p)
      PROVE  Flags'
  BY Zenon, <1>1 DEF ScalesDown, Wakes, Reports
<1>2. ASSUME NEW p \in Pods,
             Checks(p) \/ AddsTaint(p) \/ Evicts(p) \/ Awaited(p) \/ AskFails(p)
      PROVE  Flags'
  BY Zenon, <1>2 DEF Checks, AddsTaint, Evicts, Awaited, AskFails
<1>3. ASSUME NEW p \in Pods, Reconciles(p) PROVE Flags'
  BY Zenon, <1>3 DEF Reconciles, ReconcileReads, ReconcileLists,
       ReconcileSets, RemovesTaint, ReconcileFails, RequeueFires
<1>4. ASSUME NEW p \in Pods, PodDeleted(p) \/ PodGone(p) PROVE Flags'
  BY Zenon, <1>4 DEF PodDeleted, PodGone
<1>5. CASE CacheUpdates \/ TaintAges \/ ManagerCrashes \/ ManagerStarts
  BY Zenon, <1>5 DEF CacheUpdates, TaintAges, ManagerCrashes, ManagerStarts
<1>6. CASE UNCHANGED vars
  BY Zenon, <1>6 DEF vars
<1> QED
  BY Zenon, <1>1, <1>2, <1>3, <1>4, <1>5, <1>6 DEF Next, Serves

\* The objects of the pods, the shims and their requests (RestoreCapacity).
LEMMA PodsStep == PodsOK /\ [Next]_vars => PodsOK'
<1> SUFFICES ASSUME PodsOK, [Next]_vars PROVE PodsOK'
  OBVIOUS
<1> USE DEF PodsOK
<1>1. ASSUME NEW p \in Pods, ScalesDown(p) \/ Wakes(p) \/ Reports(p)
      PROVE  PodsOK'
  BY <1>1 DEF ScalesDown, Wakes, Reports
<1>2. ASSUME NEW p \in Pods,
             Checks(p) \/ AddsTaint(p) \/ Evicts(p) \/ Awaited(p) \/ AskFails(p)
      PROVE  PodsOK'
  BY <1>2 DEF Checks, AddsTaint, Evicts, Refuses, Awaited, AskFails
<1>3. ASSUME NEW p \in Pods, Reconciles(p) PROVE PodsOK'
  <2>1. UNCHANGED <<podVars, ask, refused>>
    BY Zenon, <1>3 DEF Reconciles, ReconcileReads, ReconcileLists,
         ReconcileSets, RemovesTaint, ReconcileFails, RequeueFires
  <2> QED
    BY Zenon, <2>1
<1>4. ASSUME NEW p \in Pods, PodDeleted(p) \/ PodGone(p) PROVE PodsOK'
  BY <1>4 DEF PodDeleted, PodGone
<1>5. CASE ManagerCrashes
  BY <1>5 DEF ManagerCrashes
<1>6. CASE CacheUpdates \/ TaintAges \/ ManagerStarts \/ UNCHANGED vars
  <2>1. UNCHANGED <<podVars, ask, refused>>
    BY Zenon, <1>6 DEF CacheUpdates, TaintAges, ManagerStarts, vars
  <2> QED
    BY Zenon, <2>1
<1> QED
  BY Zenon, <1>1, <1>2, <1>3, <1>4, <1>5, <1>6 DEF Next, Serves

INSTANCE FiniteSetTheorems

\* A reconcile reads the sum of the pods' requests, which counts no pod twice.
LEMMA RequestedType == ASSUME PodsOK PROVE Requested \in Sums
<1>1. /\ IsFiniteSet(Pods) => IsFiniteSet(reported)
      /\ IsFiniteSet(Pods) => Cardinality(reported) <= Cardinality(Pods)
  BY Zenon, FS_Subset DEF PodsOK
<1>2. Cardinality(Pods) \in Nat /\ Cardinality(reported) \in Nat
  BY Zenon, <1>1, CapacityAssumption, FS_CardinalityType
<1> QED
  BY <1>1, <1>2, CapacityAssumption DEF Requested, Sums

\* Nobody asks more than there are pods.
LEMMA SumsType ==
    0 \in Sums /\ Cardinality(Awake) \in Sums
<1>1. IsFiniteSet(Awake) /\ Cardinality(Awake) <= Cardinality(Pods)
  BY Zenon, CapacityAssumption, FS_Subset
<1>2. Cardinality(Pods) \in Nat /\ Cardinality(Awake) \in Nat
  BY Zenon, <1>1, CapacityAssumption, FS_CardinalityType
<1> QED
  BY <1>1, <1>2 DEF Sums

\* The node object, the tracker (NodeTracker) and the controller's reconciles.
LEMMA NodeStep ==
    PodsOK /\ NodeOK /\ ControllerOK /\ [Next]_vars => NodeOK' /\ ControllerOK'
<1> SUFFICES ASSUME PodsOK, NodeOK, ControllerOK, [Next]_vars
             PROVE  NodeOK' /\ ControllerOK'
  OBVIOUS
<1> USE SumsType DEF NodeOK, ControllerOK, Jobs, Taints, Idle
<1>1. ASSUME NEW p \in Pods, ScalesDown(p) \/ Wakes(p) \/ Reports(p)
      PROVE  NodeOK' /\ ControllerOK'
  BY <1>1 DEF ScalesDown, Wakes, Reports
<1>2. ASSUME NEW p \in Pods,
             Checks(p) \/ AddsTaint(p) \/ Evicts(p) \/ Awaited(p) \/ AskFails(p)
      PROVE  NodeOK' /\ ControllerOK'
  BY <1>2 DEF Checks, AddsTaint, Evicts, Awaited, AskFails
<1>3. ASSUME NEW p \in Pods, ReconcileReads(p) PROVE NodeOK' /\ ControllerOK'
  BY <1>3 DEF ReconcileReads
<1>9. ASSUME NEW p \in Pods, ReconcileLists(p) PROVE NodeOK' /\ ControllerOK'
  BY <1>9, RequestedType DEF ReconcileLists
<1>4. ASSUME NEW p \in Pods, ReconcileSets(p) PROVE NodeOK' /\ ControllerOK'
  BY <1>4 DEF ReconcileSets, Requeues, Migrates
<1>5. ASSUME NEW p \in Pods,
             RemovesTaint(p) \/ ReconcileFails(p) \/ RequeueFires(p)
      PROVE  NodeOK' /\ ControllerOK'
  BY <1>5 DEF RemovesTaint, ReconcileFails, RequeueFires, Requeues, Migrates
<1>6. ASSUME NEW p \in Pods, PodDeleted(p) \/ PodGone(p)
      PROVE  NodeOK' /\ ControllerOK'
  BY <1>6 DEF PodDeleted, PodGone
<1>7. CASE CacheUpdates \/ TaintAges \/ ManagerCrashes \/ ManagerStarts
  BY <1>7 DEF CacheUpdates, TaintAges, ManagerCrashes, ManagerStarts, Exist, Aged
<1>8. CASE UNCHANGED vars
  BY Zenon, <1>8 DEF vars
<1> QED
  BY Zenon, <1>1, <1>2, <1>3, <1>4, <1>5, <1>6, <1>7, <1>8, <1>9
       DEF Next, Serves, Reconciles

\* A request is answered when the manager stops (restoreCapacityRequest fails).
LEMMA ServedStep == PodsOK /\ Served /\ [Next]_vars => Served'
<1> SUFFICES ASSUME PodsOK, Served, [Next]_vars PROVE Served'
  OBVIOUS
<1> USE DEF PodsOK, Served
<1>1. ASSUME NEW p \in Pods, Wakes(p) PROVE Served'
  BY <1>1 DEF Wakes
<1>2. ASSUME NEW p \in Pods,
             Checks(p) \/ AddsTaint(p) \/ Evicts(p) \/ Awaited(p) \/ AskFails(p)
      PROVE  Served'
  BY <1>2 DEF Checks, AddsTaint, Evicts, Refuses, Awaited, AskFails
<1>3. ASSUME NEW p \in Pods, PodGone(p) PROVE Served'
  BY <1>3 DEF PodGone
<1>4. CASE ManagerCrashes
  BY <1>4 DEF ManagerCrashes
<1>5. CASE ManagerStarts
  BY Zenon, <1>5 DEF ManagerStarts
<1>6. CASE UNCHANGED <<ask, mgr>>
  BY Zenon, <1>6
<1>7. ASSUME NEW p \in Pods,
             ScalesDown(p) \/ Reports(p) \/ Reconciles(p) \/ PodDeleted(p)
      PROVE  UNCHANGED <<ask, mgr>>
  BY Zenon, <1>7 DEF ScalesDown, Reports, PodDeleted, Reconciles,
       ReconcileReads, ReconcileLists, ReconcileSets, RemovesTaint,
       ReconcileFails, RequeueFires
<1>8. CacheUpdates \/ TaintAges \/ UNCHANGED vars => UNCHANGED <<ask, mgr>>
  BY Zenon DEF CacheUpdates, TaintAges, vars
<1> QED
  BY Zenon, <1>1, <1>2, <1>3, <1>4, <1>5, <1>6, <1>7, <1>8 DEF Next, Serves

-----------------------------------------------------------------------------
(* A pod that is refused leaves. *)

\* Only Delete of evictPod leads to a refusal, and a deletion is never undone.
LEMMA LeavingStep == PodsOK /\ Leaving /\ [Next]_vars => Leaving'
<1> SUFFICES ASSUME PodsOK, Leaving, [Next]_vars PROVE Leaving'
  OBVIOUS
<1> USE DEF PodsOK, Leaving
<1>1. ASSUME NEW p \in Pods, Wakes(p) PROVE Leaving'
  BY <1>1 DEF Wakes
<1>2. ASSUME NEW p \in Pods, Checks(p) \/ AddsTaint(p) \/ AskFails(p)
      PROVE  Leaving'
  BY <1>2 DEF Checks, AddsTaint, AskFails
<1>3. ASSUME NEW p \in Pods, Evicts(p) PROVE Leaving'
  BY <1>3 DEF Evicts, Refuses
<1>4. ASSUME NEW p \in Pods, Awaited(p) PROVE Leaving'
  BY <1>4 DEF Awaited
<1>5. ASSUME NEW p \in Pods, PodDeleted(p) \/ PodGone(p) PROVE Leaving'
  BY <1>5 DEF PodDeleted, PodGone
<1>6. CASE ManagerCrashes
  BY <1>6 DEF ManagerCrashes
<1>7. CASE UNCHANGED <<live, ask, refused>>
  BY Zenon, <1>7
<1>8. ASSUME NEW p \in Pods, ScalesDown(p) \/ Reports(p) \/ Reconciles(p)
      PROVE  UNCHANGED <<live, ask, refused>>
  BY Zenon, <1>8 DEF ScalesDown, Reports, Reconciles, ReconcileReads,
       ReconcileLists, ReconcileSets, RemovesTaint, ReconcileFails, RequeueFires
<1>9. CacheUpdates \/ TaintAges \/ ManagerStarts \/ UNCHANGED vars
        => UNCHANGED <<live, ask, refused>>
  BY Zenon DEF CacheUpdates, TaintAges, ManagerStarts, vars
<1> QED
  BY Zenon, <1>1, <1>2, <1>3, <1>4, <1>5, <1>6, <1>7, <1>8, <1>9
       DEF Next, Serves

-----------------------------------------------------------------------------
(* A new taint stays. *)

\* Whoever writes the node makes the copies of all reconciles stale (AddTaint,
\* RemoveTaint); ageing alone does not.
LEMMA SeenStep ==
    NodeOK /\ ControllerOK /\ SeenOld /\ [Next]_vars => SeenOld'
<1> SUFFICES ASSUME NodeOK, ControllerOK, SeenOld, [Next]_vars PROVE SeenOld'
  OBVIOUS
<1> USE DEF NodeOK, ControllerOK, Jobs, Taints, Idle, SeenOld
<1>1. ASSUME NEW p \in Pods, AddsTaint(p) PROVE SeenOld'
  BY <1>1 DEF AddsTaint
<1>2. ASSUME NEW p \in Pods, ReconcileReads(p) PROVE SeenOld'
  BY <1>2 DEF ReconcileReads
<1>3. ASSUME NEW p \in Pods, ReconcileLists(p) \/ ReconcileSets(p)
      PROVE  SeenOld'
  BY <1>3 DEF ReconcileLists, ReconcileSets, Fits
<1>4. ASSUME NEW p \in Pods, RemovesTaint(p) \/ ReconcileFails(p)
      PROVE  SeenOld'
  <2>1. /\ rec' = [rec EXCEPT ![p] = Idle]
        /\ \/ current' = {}
           \/ current' = current \ {p} /\ taint' = taint
    BY Zenon, <1>4 DEF RemovesTaint, ReconcileFails
  <2> QED
    BY <2>1
<1>5. CASE TaintAges
  BY <1>5 DEF TaintAges, Aged
<1>6. CASE ManagerCrashes
  BY <1>6 DEF ManagerCrashes
<1>7. CASE UNCHANGED <<rec, taint, current>>
  BY Zenon, <1>7
<1>8. ASSUME NEW p \in Pods,
             \/ ScalesDown(p) \/ Wakes(p) \/ Reports(p) \/ Checks(p)
             \/ Evicts(p) \/ Awaited(p) \/ AskFails(p) \/ RequeueFires(p)
             \/ PodDeleted(p) \/ PodGone(p)
      PROVE  UNCHANGED <<rec, taint, current>>
  BY Zenon, <1>8 DEF ScalesDown, Wakes, Reports, Checks, Evicts, Awaited,
       AskFails, RequeueFires, PodDeleted, PodGone
<1>9. CacheUpdates \/ ManagerStarts \/ UNCHANGED vars
        => UNCHANGED <<rec, taint, current>>
  BY Zenon DEF CacheUpdates, ManagerStarts, vars
<1> QED
  BY Zenon, <1>1, <1>2, <1>3, <1>4, <1>5, <1>6, <1>7, <1>8, <1>9
       DEF Next, Serves, Reconciles

-----------------------------------------------------------------------------
(* The theorems. *)

IInv == Typed /\ Leaving /\ SeenOld

\* A node at rest.
LEMMA InitIInv == Init => IInv
<1> SUFFICES ASSUME Init PROVE IInv
  OBVIOUS
<1> USE CapacityAssumption DEF Init
<1>1. Flags /\ Served
  BY Zenon DEF Flags, Served
<1>2. PodsOK
  BY DEF PodsOK
<1>3. NodeOK /\ ControllerOK
  BY SumsType DEF NodeOK, ControllerOK, Jobs, Taints, Idle
<1>4. Leaving /\ SeenOld
  BY DEF Leaving, SeenOld, Idle
<1> QED
  BY Zenon, <1>1, <1>2, <1>3, <1>4 DEF IInv, Typed

\* No step of a shim, of the node service, of the controller or of the cluster
\* leaves the inductive invariant.
LEMMA IInvStep == IInv /\ [Next]_vars => IInv'
BY Zenon, FlagsStep, PodsStep, NodeStep, ServedStep, LeavingStep, SeenStep
   DEF IInv, Typed

\* A pod whose restore was refused (ErrNoCapacity) is being deleted, whatever
\* requests fail, whoever else deletes it, and when the manager crashes.
THEOREM RefusedLeavesCorrect == Spec => []RefusedLeaves
<1>1. IInv => RefusedLeaves
  BY Zenon DEF IInv, Typed, Flags, PodsOK, NodeOK, ControllerOK, Served, Leaving,
       Sums, Taints, Jobs, RefusedLeaves, TypeOK
<1> QED
  BY <1>1, InitIInv, IInvStep, PTL DEF Spec

\* updateNodeResources removes a taint only when MinTaintDuration is over,
\* although it decides on a copy of the node from a cache that lags behind,
\* which AddTaint may have changed since, and several reconciles run at the
\* same time.
THEOREM YoungTaintStaysCorrect == Spec => YoungTaintStays
<1>1. IInv /\ [Next]_vars => [taint = "new" => taint' # "none"]_vars
  <2> SUFFICES ASSUME IInv, Next, taint = "new" PROVE taint' # "none"
    BY Zenon DEF vars
  <2>1. ASSUME NEW p \in Pods PROVE ~RemovesTaint(p)
    BY Zenon DEF RemovesTaint, IInv, SeenOld
  <2>2. ASSUME NEW p \in Pods, AddsTaint(p) PROVE taint' # "none"
    BY Zenon, <2>2 DEF AddsTaint
  <2>3. CASE TaintAges
    BY Zenon, <2>3 DEF TaintAges
  <2>4. ASSUME NEW p \in Pods,
               \/ ScalesDown(p) \/ Wakes(p) \/ Reports(p) \/ Checks(p)
               \/ Evicts(p) \/ Awaited(p) \/ AskFails(p)
               \/ ReconcileReads(p) \/ ReconcileLists(p) \/ ReconcileSets(p)
               \/ ReconcileFails(p) \/ RequeueFires(p)
               \/ PodDeleted(p) \/ PodGone(p)
        PROVE  taint' = taint
    BY Zenon, <2>4 DEF ScalesDown, Wakes, Reports, Checks, Evicts, Awaited,
         AskFails, ReconcileReads, ReconcileLists, ReconcileSets,
         ReconcileFails, RequeueFires, PodDeleted, PodGone
  <2>5. CacheUpdates \/ ManagerCrashes \/ ManagerStarts => taint' = taint
    BY Zenon DEF CacheUpdates, ManagerCrashes, ManagerStarts
  <2> QED
    BY Zenon, <2>1, <2>2, <2>3, <2>4, <2>5 DEF Next, Serves, Reconciles
<1> QED
  BY <1>1, InitIInv, IInvStep, PTL DEF Spec, YoungTaintStays
=============================================================================
