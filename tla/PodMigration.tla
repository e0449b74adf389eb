---------------------------- MODULE PodMigration ----------------------------
(***************************************************************************)
(* The migration of checkpointed containers between pods: the Migration    *)
(* object in the API server, the pod and migration controllers of every    *)
(* node (manager/pod_controller.go, manager/migration_controller.go), the  *)
(* node service (manager/node/service.go), and the two shims, the one that *)
(* evacuates a container of a deleted pod (shim/evac.go) and the one that  *)
(* creates it again in a new pod (MigrationRestore in shim/restore.go).    *)
(*                                                                         *)
(* Every client reads from the informer cache of its node and writes with  *)
(* the resource version it has read.  A read followed by a write is one    *)
(* step here: whatever happens between the two is a cache that lags, and   *)
(* the write is refused when the version in the cache is not the current   *)
(* one.                                                                    *)
(***************************************************************************)
EXTENDS Naturals, FiniteSets

CONSTANTS
    Sources,     \* pods that are deleted; a Migration is named after its source
    Targets,     \* pods that replace them
    Containers,  \* names of the containers of every pod
    Nodes,
    NodeOf,      \* the node of every pod
    Hash,        \* the pod template hash of every pod
    LiveMigrate, \* TRUE when the pods have the live-migrate annotation
    AutoGC,      \* the flag auto-gc-migrations
    Faults,      \* what may go wrong or come in between
    NoPod

Pods == Sources \cup Targets
SourceThreads == Sources \X Containers
TargetThreads == Targets \X Containers

FaultNames == {"conflict", "pull", "dump", "start", "stats", "wake", "evict"}

ASSUME PodsAssumption ==
    /\ Sources \cap Targets = {}
    /\ NoPod \notin Pods
    /\ NodeOf \in [Pods -> Nodes]
    /\ DOMAIN Hash = Pods

ASSUME FlagsAssumption ==
    /\ LiveMigrate \in BOOLEAN
    /\ AutoGC \in BOOLEAN
    /\ Faults \subseteq FaultNames

\* "Only one container per pod is supported at this point."
ASSUME LiveAssumption == LiveMigrate => \E c \in Containers : Containers = {c}

VARIABLES
    pod,      \* phase of every pod
    mig,      \* the Migration objects in the API server
    cache,    \* what the informer cache of every node holds of them
    kpc,      \* the pod controller of the source node
    spc,      \* Kill of every container of a source
    evac,     \* how it is evacuated
    sproc,    \* the process of a source container
    image,    \* the image of a source container is on its node
    evict,    \* the capacity request of a source container
    tpc,      \* Create and Start of every container of a target
    held,     \* the Migration the node service holds for it
    ckpt,     \* the source whose checkpoint the container got
    gaveUp    \* history: source containers whose evacuation timed out or failed

apiVars  == <<mig, cache>>
srcVars  == <<spc, evac, sproc, image, evict>>
dstVars  == <<tpc, held, ckpt>>
vars == <<pod, apiVars, kpc, srcVars, dstVars, gaveUp>>

Phases == {"None", "Pending", "Running", "Completed", "Failed", "Unclaimed"}

Migrations ==
    [exists : BOOLEAN, deleted : BOOLEAN, rv : Nat,
     target : Targets \cup {NoPod}, ready : BOOLEAN, live : BOOLEAN,
     owners : SUBSET Pods,
     server : [Containers -> BOOLEAN], phase : [Containers -> Phases]]

NoMigration ==
    [exists |-> FALSE, deleted |-> FALSE, rv |-> 0, target |-> NoPod,
     ready |-> FALSE, live |-> FALSE, owners |-> {},
     server |-> [c \in Containers |-> FALSE],
     phase |-> [c \in Containers |-> "None"]]

NotHeld == [mig |-> NoPod, rv |-> 0, live |-> FALSE]

May(f) == f \in Faults

Init ==
    /\ pod = [p \in Pods |-> IF p \in Sources THEN "running" ELSE "absent"]
    /\ mig = [s \in Sources |-> NoMigration]
    /\ cache = [n \in Nodes |-> mig]
    /\ kpc = [s \in Sources |-> "idle"]
    /\ spc = [x \in SourceThreads |-> "run"]
    /\ evac = [x \in SourceThreads |-> "none"]
    /\ sproc \in [SourceThreads -> {"running", "scaledDown"}]
    /\ image = {x \in SourceThreads : sproc[x] = "scaledDown"}
    /\ evict = [x \in SourceThreads |-> "no"]
    /\ tpc = [x \in TargetThreads |-> "idle"]
    /\ held = [x \in TargetThreads |-> NotHeld]
    /\ ckpt = [x \in TargetThreads |-> NoPod]
    /\ gaveUp = {}

-----------------------------------------------------------------------------
(* The API server and the informer caches. *)

\* What the node of pod p has in its cache of the Migration of source s.
Cached(p, s) == cache[NodeOf[p]][s]

\* The API server takes an update only for the current resource version, and
\* gives the object a new one when the update changes it.
Fresh(p, s) ==
    /\ Cached(p, s).exists
    /\ Cached(p, s).rv = mig[s].rv

Write(s, m) ==
    mig' = [mig EXCEPT ![s] = IF m = mig[s] THEN m ELSE [m EXCEPT !.rv = @ + 1]]

\* An update after a Get gives up when the object is not there, or when every
\* one of its few attempts meets a conflict.
UpdateFails(p, s) ==
    \/ ~Cached(p, s).exists
    \/ May("conflict") /\ ~Fresh(p, s)

Sync(n, s) ==
    /\ cache[n][s] # mig[s]
    /\ cache' = [cache EXCEPT ![n][s] = mig[s]]
    /\ UNCHANGED <<pod, mig, kpc, srcVars, dstVars, gaveUp>>

\* The garbage collector deletes a Migration when all its owners are gone; the
\* finalizer keeps the object until its images are cleaned up.
CollectGarbage(s) ==
    /\ AutoGC
    /\ mig[s].exists /\ ~mig[s].deleted
    /\ \A p \in mig[s].owners : pod[p] = "gone"
    /\ Write(s, [mig[s] EXCEPT !.deleted = TRUE])
    /\ UNCHANGED <<pod, cache, kpc, srcVars, dstVars, gaveUp>>

-----------------------------------------------------------------------------
(* Pods come and go. *)

DeletePod(s) ==
    /\ pod[s] = "running"
    /\ pod' = [pod EXCEPT ![s] = "deleting"]
    /\ UNCHANGED <<apiVars, kpc, srcVars, dstVars, gaveUp>>

PodGone(s) ==
    /\ pod[s] = "deleting"
    /\ \A c \in Containers : spc[<<s, c>>] = "exited"
    /\ pod' = [pod EXCEPT ![s] = "gone"]
    /\ UNCHANGED <<apiVars, kpc, srcVars, dstVars, gaveUp>>

SchedulePod(t) ==
    /\ t \in Targets
    /\ pod[t] = "absent"
    /\ pod' = [pod EXCEPT ![t] = "pending"]
    /\ UNCHANGED <<apiVars, kpc, srcVars, dstVars, gaveUp>>

-----------------------------------------------------------------------------
(* Migration.Claimed and its relatives. *)

MatchesPod(s, t) == Hash[s] = Hash[t]

\* A container in phase Unclaimed counts as claimed: nobody may claim it later.
Claimed(m) ==
    m.target # NoPod \/ \E c \in Containers : m.phase[c] = "Unclaimed"

\* Mutant: any claimed Migration is taken for one of the pod.
ClaimedAndMatchesPod_AnyTarget(m, t) == m.exists /\ m.target # NoPod

ClaimedAndMatchesPod(m, t) == m.exists /\ m.target = t

\* Mutant: a container in phase Unclaimed may still be claimed, and a claim
\* replaces an older one.
Claimable_Anyway(s, t) ==
    /\ Cached(t, s).exists
    /\ MatchesPod(s, t)
    /\ Cached(t, s).target # t

Claimable(s, t) ==
    /\ Cached(t, s).exists
    /\ MatchesPod(s, t)
    /\ ~Claimed(Cached(t, s))

\* Mutant: a container that is being migrated counts as final.
Final_Running(phase) ==
    phase \in {"Running", "Completed", "Failed", "Unclaimed"}

Final(phase) == phase \in {"Completed", "Failed", "Unclaimed"}

-----------------------------------------------------------------------------
(* The pod controllers. *)

\* prepareMigrationSource on the node of a deleted pod: creates the Migration.
CreateMigration(s) ==
    /\ pod[s] = "deleting"
    /\ kpc[s] = "idle"
    /\ kpc' = [kpc EXCEPT ![s] = "created"]
    /\ Write(s, [NoMigration EXCEPT !.exists = TRUE, !.live = LiveMigrate,
                                    !.owners = IF AutoGC THEN {s} ELSE {}])
    /\ UNCHANGED <<pod, cache, srcVars, dstVars, gaveUp>>

\* Then the status is set, with the version that Create returned; a conflict
\* is ignored.  A container that cannot be migrated because its label says it
\* is running is set failed; the labels may lag or be switched off.
InitStatus(s) ==
    /\ kpc[s] = "created"
    /\ kpc' = [kpc EXCEPT ![s] = "done"]
    /\ \E failed \in SUBSET Containers :
          /\ mig[s].live => failed = {}
          /\ IF mig[s].rv = 1
             THEN /\ Write(s, [mig[s] EXCEPT !.phase =
                                 [c \in Containers |-> IF c \in failed
                                                       THEN "Failed"
                                                       ELSE "Pending"]])
                  /\ gaveUp' = gaveUp \cup ({s} \X failed)
             ELSE UNCHANGED <<mig, gaveUp>>
    /\ UNCHANGED <<pod, cache, srcVars, dstVars>>

\* prepareMigrationTarget on the node of a pending pod: claims a Migration that
\* matches, in whatever order the cache lists them, and becomes an owner.  A
\* conflict is tried again.
ControllerClaim(t, s) ==
    /\ pod[t] = "pending"
    /\ Claimable(s, t)
    /\ Fresh(t, s)
    /\ Write(s, [mig[s] EXCEPT !.target = t,
                               !.owners = IF AutoGC THEN @ \cup {t} ELSE @])
    /\ UNCHANGED <<pod, cache, kpc, srcVars, dstVars, gaveUp>>

-----------------------------------------------------------------------------
(* Create and Start of a container in a target pod. *)

Step(x, from, to) ==
    /\ tpc[x] = from
    /\ tpc' = [tpc EXCEPT ![x] = to]

\* The kubelet creates the containers of a pod one after the other; the shim
\* asks its node service for a restore.
CreateContainer(t, c) ==
    /\ pod[t] = "pending"
    /\ \A d \in Containers : tpc[<<t, d>>] \in {"idle", "started"}
    /\ Step(<<t, c>>, "idle", "find")
    /\ UNCHANGED <<pod, apiVars, kpc, srcVars, held, ckpt, gaveUp>>

\* findMatchingMigration has one, in the version m: the restore is aborted when
\* the container is set failed in it.
Hold(t, c, s, m) ==
    /\ held' = [held EXCEPT ![<<t, c>>] = [mig |-> s, rv |-> m.rv,
                                           live |-> FALSE]]
    /\ Step(<<t, c>>, "find",
            IF m.phase[c] = "Failed" THEN "start" ELSE "ready")

FindClaimed(t, c, s) ==
    /\ ClaimedAndMatchesPod(Cached(t, s), t)
    /\ Hold(t, c, s, Cached(t, s))
    /\ UNCHANGED <<pod, apiVars, kpc, srcVars, ckpt, gaveUp>>

\* The node service claims a Migration itself, as the controller does, but
\* does not become an owner.
FindAndClaim(t, c, s) ==
    /\ Claimable(s, t)
    /\ Fresh(t, s)
    /\ Write(s, [mig[s] EXCEPT !.target = t])
    /\ Hold(t, c, s, mig'[s])
    /\ UNCHANGED <<pod, cache, kpc, srcVars, ckpt, gaveUp>>

\* No Migration can be found or claimed: the container starts from scratch.
FindFails(t, c) ==
    /\ \A s \in Sources :
          /\ ~ClaimedAndMatchesPod(Cached(t, s), t)
          /\ ~(Claimable(s, t) /\ Fresh(t, s))
    /\ Step(<<t, c>>, "find", "start")
    /\ UNCHANGED <<pod, apiVars, kpc, srcVars, held, ckpt, gaveUp>>

\* RestoreReady and the address of the pod are set with the version held since
\* findMatchingMigration; the retries on a conflict do not read it again.
SetRestoreReady(t, c) ==
    LET s == held[<<t, c>>].mig
        current == mig[s].exists /\ mig[s].rv = held[<<t, c>>].rv IN
    /\ \/ /\ Step(<<t, c>>, "ready", "servers")
          /\ current
          /\ Write(s, [mig[s] EXCEPT !.ready = TRUE])
       \/ /\ Step(<<t, c>>, "ready", "start")
          /\ ~current
          /\ UNCHANGED mig
    /\ UNCHANGED <<pod, cache, kpc, srcVars, held, ckpt, gaveUp>>

\* Wait for the evacuation to set the image server.
ServersSet(t, c) ==
    LET m == Cached(t, held[<<t, c>>].mig) IN
    /\ Step(<<t, c>>, "servers", "pull")
    /\ m.exists /\ m.server[c]
    /\ held' = [held EXCEPT ![<<t, c>>].live = m.live]
    /\ UNCHANGED <<pod, apiVars, kpc, srcVars, ckpt, gaveUp>>

\* Mutant: Restore polls without a timeout.
ServersTimeout_NoDeadline(t, c) ==
    /\ Step(<<t, c>>, "servers", "fail")
    /\ ~Cached(t, held[<<t, c>>].mig).exists
    /\ gaveUp' = gaveUp \cup {<<held[<<t, c>>].mig, c>>}
    /\ UNCHANGED <<pod, apiVars, kpc, srcVars, held, ckpt>>

\* The servers are not set in time, or the object is gone.
ServersTimeout(t, c) ==
    /\ Step(<<t, c>>, "servers", "fail")
    /\ ~(/\ Cached(t, held[<<t, c>>].mig).exists
         /\ Cached(t, held[<<t, c>>].mig).server[c])
    /\ gaveUp' = gaveUp \cup {<<held[<<t, c>>].mig, c>>}
    /\ UNCHANGED <<pod, apiVars, kpc, srcVars, held, ckpt>>

\* setMigrationFailed, whose own errors are only logged.
SetMigrationFailed(t, c) ==
    LET s == held[<<t, c>>].mig IN
    /\ Step(<<t, c>>, "fail", "start")
    /\ \/ /\ Fresh(t, s)
          /\ Write(s, [mig[s] EXCEPT !.phase[c] = "Failed"])
       \/ UpdateFails(t, s) /\ UNCHANGED mig
    /\ UNCHANGED <<pod, cache, kpc, srcVars, held, ckpt, gaveUp>>

\* The image is pulled from the other node, or is local, where the rename to
\* the id of the new container takes it away from the old one.
PullImage(t, c) ==
    LET s == held[<<t, c>>].mig IN
    /\ Step(<<t, c>>, "pull", "start")
    /\ <<s, c>> \in image
    /\ ckpt' = [ckpt EXCEPT ![<<t, c>>] = s]
    /\ image' = IF NodeOf[s] = NodeOf[t] THEN image \ {<<s, c>>} ELSE image
    /\ UNCHANGED <<pod, apiVars, kpc, spc, evac, sproc, evict, held, gaveUp>>

\* The image is gone, cannot be transferred, or is no valid checkpoint; the
\* lazy-pages daemon cannot be started.  A local image may be renamed by then,
\* as it is when the node finds out that it does not support live migration.
PullFails(t, c) ==
    LET s == held[<<t, c>>].mig
        local == NodeOf[s] = NodeOf[t] IN
    /\ May("pull") \/ <<s, c>> \notin image
    /\ gaveUp' = gaveUp \cup ({<<s, c>>} \cap image)
    /\ \/ Step(<<t, c>>, "pull", "start") /\ UNCHANGED image
       \/ /\ Step(<<t, c>>, "pull", "start")
          /\ May("pull") /\ local
          /\ image' = image \ {<<s, c>>}
       \/ /\ Step(<<t, c>>, "pull", "fail")
          /\ May("pull") /\ held[<<t, c>>].live /\ <<s, c>> \in image
          /\ image' = IF local THEN image \ {<<s, c>>} ELSE image
    /\ UNCHANGED <<pod, apiVars, kpc, spc, evac, sproc, evict, held, ckpt>>

\* A scaled down container is not started, a live one continues where its
\* frozen process stopped, and without a checkpoint the container starts from
\* scratch.
StartContainer(t, c) ==
    /\ Step(<<t, c>>, "start", "finish")
    /\ ckpt[<<t, c>>] # NoPod /\ held[<<t, c>>].live
          => sproc[<<ckpt[<<t, c>>], c>>] = "frozen"
    /\ UNCHANGED <<pod, apiVars, kpc, srcVars, held, ckpt, gaveUp>>

\* The start fails, as it does when the frozen process is gone; the kubelet
\* creates the container again.
StartFails(t, c) ==
    /\ Step(<<t, c>>, "start", "idle")
    /\ ckpt[<<t, c>>] # NoPod /\ held[<<t, c>>].live
    /\ May("start") \/ sproc[<<ckpt[<<t, c>>], c>>] # "frozen"
    /\ gaveUp' = gaveUp \cup {<<ckpt[<<t, c>>], c>>}
    /\ ckpt' = [ckpt EXCEPT ![<<t, c>>] = NoPod]
    /\ held' = [held EXCEPT ![<<t, c>>] = NotHeld]
    /\ UNCHANGED <<pod, apiVars, kpc, srcVars>>

\* FinishRestore is asked of every container, restored or not: it takes a
\* Migration of the pod and completes it, unless it is set failed or it is a
\* live one and the statistics of the restore are missing.
FinishRestore(t, c, s) ==
    /\ Step(<<t, c>>, "finish", "started")
    /\ ClaimedAndMatchesPod(Cached(t, s), t)
    /\ \/ /\ Fresh(t, s)
          /\ \E phase \in {"Completed", "Failed"} :
                /\ phase = "Completed" =>
                      (mig[s].live => ckpt[<<t, c>>] # NoPod)
                /\ phase = "Failed" =>
                      mig[s].live /\ (ckpt[<<t, c>>] = NoPod \/ May("stats"))
                /\ Write(s, [mig[s] EXCEPT !.phase[c] = IF @ = "Failed" THEN @
                                                        ELSE phase])
       \/ UpdateFails(t, s) /\ UNCHANGED mig
    /\ UNCHANGED <<pod, cache, kpc, srcVars, held, ckpt, gaveUp>>

FinishFindsNone(t, c) ==
    /\ Step(<<t, c>>, "finish", "started")
    /\ \A s \in Sources : ~ClaimedAndMatchesPod(Cached(t, s), t)
    /\ UNCHANGED <<pod, apiVars, kpc, srcVars, held, ckpt, gaveUp>>

PodRunning(t) ==
    /\ t \in Targets
    /\ pod[t] = "pending"
    /\ \A c \in Containers : tpc[<<t, c>>] = "started"
    /\ pod' = [pod EXCEPT ![t] = "running"]
    /\ UNCHANGED <<apiVars, kpc, srcVars, dstVars, gaveUp>>

-----------------------------------------------------------------------------
(* Kill of a container in a source pod. *)

Move(x, from, to) ==
    /\ spc[x] = from
    /\ spc' = [spc EXCEPT ![x] = to]

\* A connection wakes a scaled down container, also while it is evacuated: the
\* evacuation does not hold the CheckpointRestore mutex.  The image is deleted.
WakeSource(s, c) ==
    /\ May("wake")
    /\ sproc[<<s, c>>] = "scaledDown"
    /\ spc[<<s, c>>] # "exited"
    /\ evac[<<s, c>>] # "live"
    /\ evict[<<s, c>>] \in {"no", "denied"}
    /\ sproc' = [sproc EXCEPT ![<<s, c>>] = "running"]
    /\ image' = image \ {<<s, c>>}
    /\ gaveUp' = gaveUp \cup {<<s, c>>}
    /\ UNCHANGED <<pod, apiVars, kpc, spc, evac, evict, dstVars>>

\* RestoreCapacity denies a restore: evictPod deletes the pod and waits for the
\* address of the new one, while the shim holds the CheckpointRestore mutex.
EvictPod(s, c) ==
    /\ May("evict")
    /\ pod[s] = "running"
    /\ sproc[<<s, c>>] = "scaledDown"
    /\ pod' = [pod EXCEPT ![s] = "deleting"]
    /\ evict' = [evict EXCEPT ![<<s, c>>] = "waiting"]
    /\ UNCHANGED <<apiVars, kpc, spc, evac, sproc, image, dstVars, gaveUp>>

\* The address is there, or the eviction times out: denied in any case.
EvictDone(s, c) ==
    /\ evict[<<s, c>>] = "waiting"
    /\ evict' = [evict EXCEPT ![<<s, c>>] =
                    IF Cached(s, s).ready THEN "forwarded" ELSE "denied"]
    /\ UNCHANGED <<pod, apiVars, kpc, spc, evac, sproc, image, dstVars, gaveUp>>

\* Kill waits for the mutex, then evacuates instead of killing, depending on
\* the phase; a running container only with live migration.
KillContainer(s, c) ==
    /\ pod[s] = "deleting"
    /\ evict[<<s, c>>] # "waiting"
    /\ LET how == IF sproc[<<s, c>>] = "scaledDown" THEN "offline"
                  ELSE IF LiveMigrate THEN "live" ELSE "none"
       IN  /\ Move(<<s, c>>, "run", IF how = "none" THEN "kill" ELSE "claim")
           /\ evac' = [evac EXCEPT ![<<s, c>>] = how]
    /\ UNCHANGED <<pod, apiVars, kpc, sproc, image, evict, dstVars, gaveUp>>

\* PrepareEvac waits for the claim and then for RestoreReady.
SeesClaim(s, c) ==
    /\ Move(<<s, c>>, "claim", "ready")
    /\ Cached(s, s).exists /\ Claimed(Cached(s, s))
    /\ UNCHANGED <<pod, apiVars, kpc, evac, sproc, image, evict, dstVars,
                   gaveUp>>

ClaimTimeout(s, c) ==
    /\ Move(<<s, c>>, "claim", "unclaim")
    /\ ~(Cached(s, s).exists /\ Claimed(Cached(s, s)))
    /\ gaveUp' = gaveUp \cup {<<s, c>>}
    /\ UNCHANGED <<pod, apiVars, kpc, evac, sproc, image, evict, dstVars>>

SetUnclaimed(s, c) ==
    /\ Move(<<s, c>>, "unclaim", "kill")
    /\ \/ /\ Fresh(s, s)
          /\ Write(s, [mig[s] EXCEPT !.phase[c] = "Unclaimed"])
       \/ UpdateFails(s, s) /\ UNCHANGED mig
    /\ UNCHANGED <<pod, cache, kpc, evac, sproc, image, evict, dstVars, gaveUp>>

SeesReady(s, c) ==
    /\ Move(<<s, c>>, "ready",
            IF evac[<<s, c>>] = "live" THEN "dump" ELSE "evac")
    /\ Cached(s, s).exists /\ Cached(s, s).ready
    /\ UNCHANGED <<pod, apiVars, kpc, evac, sproc, image, evict, dstVars,
                   gaveUp>>

\* Mutant: PrepareEvac waits for RestoreReady without a timeout.
ReadyTimeout_NoDeadline(s, c) ==
    /\ Move(<<s, c>>, "ready", "kill")
    /\ ~Cached(s, s).exists
    /\ gaveUp' = gaveUp \cup {<<s, c>>}
    /\ UNCHANGED <<pod, apiVars, kpc, evac, sproc, image, evict, dstVars>>

\* RestoreReady is not set in time, or the object is gone.
ReadyTimeout(s, c) ==
    /\ Move(<<s, c>>, "ready", "kill")
    /\ ~(Cached(s, s).exists /\ Cached(s, s).ready)
    /\ gaveUp' = gaveUp \cup {<<s, c>>}
    /\ UNCHANGED <<pod, apiVars, kpc, evac, sproc, image, evict, dstVars>>

\* Mutant: the checkpoint leaves the process running.
LazyDump_LeavesRunning(s, c) ==
    /\ Move(<<s, c>>, "dump", "evac")
    /\ image' = image \cup {<<s, c>>}
    /\ UNCHANGED <<pod, apiVars, kpc, evac, sproc, evict, dstVars, gaveUp>>

\* The lazy checkpoint has started: the process is frozen.
LazyDump(s, c) ==
    /\ Move(<<s, c>>, "dump", "evac")
    /\ sproc' = [sproc EXCEPT ![<<s, c>>] = "frozen"]
    /\ image' = image \cup {<<s, c>>}
    /\ UNCHANGED <<pod, apiVars, kpc, evac, evict, dstVars, gaveUp>>

\* Evac: the container data is moved into the image and the node service sets
\* the servers ...
EvacServers(s, c) ==
    /\ Move(<<s, c>>, "evac", "status")
    /\ Fresh(s, s)
    /\ Write(s, [mig[s] EXCEPT !.server[c] = TRUE,
                               !.live = (evac[<<s, c>>] = "live")])
    /\ UNCHANGED <<pod, cache, kpc, evac, sproc, image, evict, dstVars, gaveUp>>

\* ... and then the phase, unless the target has completed already.
EvacStatus(s, c) ==
    /\ Move(<<s, c>>, "status",
            IF evac[<<s, c>>] = "live" THEN "transfer" ELSE "drain")
    /\ \/ /\ Fresh(s, s)
          /\ Cached(s, s).phase[c] # "Completed"
          /\ Write(s, [mig[s] EXCEPT !.phase[c] = "Running"])
       \/ /\ Cached(s, s).exists
          /\ Cached(s, s).phase[c] = "Completed"
          /\ UNCHANGED mig
    /\ UNCHANGED <<pod, cache, kpc, evac, sproc, image, evict, dstVars, gaveUp>>

\* The lazy checkpoint or one of the updates fails, or the pages are not
\* transferred in time.  A live evacuation removes its image in any case, a
\* scaled down container exits through the drain or right here.
EvacFails(s, c) ==
    /\ \/ May("dump") /\ Move(<<s, c>>, "dump", "kill")
       \/ UpdateFails(s, s) /\ Move(<<s, c>>, "evac", "kill")
       \/ UpdateFails(s, s) /\ Move(<<s, c>>, "status", "kill")
       \/ Move(<<s, c>>, "transfer", "kill")
    /\ image' = IF evac[<<s, c>>] = "live" THEN image \ {<<s, c>>} ELSE image
    /\ gaveUp' = gaveUp \cup {<<s, c>>}
    /\ UNCHANGED <<pod, apiVars, kpc, evac, sproc, evict, dstVars>>

\* All pages are transferred: the checkpoint is done and the container counts
\* as scaled down.
TransferDone(s, c) ==
    /\ Move(<<s, c>>, "transfer", "kill")
    /\ \E t \in Targets :
          ckpt[<<t, c>>] = s /\ tpc[<<t, c>>] \in {"finish", "started"}
    /\ sproc' = [sproc EXCEPT ![<<s, c>>] = "scaledDown"]
    /\ image' = image \ {<<s, c>>}
    /\ UNCHANGED <<pod, apiVars, kpc, evac, evict, dstVars, gaveUp>>

\* The drain completes or times out, or Kill ends the process.
Exit(s, c) ==
    /\ Move(<<s, c>>, "drain", "exited") \/ Move(<<s, c>>, "kill", "exited")
    /\ sproc' = [sproc EXCEPT ![<<s, c>>] = "exited"]
    /\ UNCHANGED <<pod, apiVars, kpc, evac, image, evict, dstVars, gaveUp>>

-----------------------------------------------------------------------------
(* The migration controller of the source node. *)

\* The images of containers in a final phase are removed.
CleanupFinal(s) ==
    LET m == Cached(s, s)
        final == {c \in Containers : Final(m.phase[c])} IN
    /\ m.exists /\ ~m.deleted
    /\ image \cap ({s} \X final) # {}
    /\ image' = image \ ({s} \X final)
    /\ UNCHANGED <<pod, apiVars, kpc, spc, evac, sproc, evict, dstVars, gaveUp>>

\* A deleted Migration goes away once all its images are removed; a conflict
\* is tried again.
CleanupDeleted(s) ==
    LET m == Cached(s, s)
        known == {c \in Containers : m.phase[c] # "None"} IN
    /\ m.exists /\ m.deleted
    /\ image' = image \ ({s} \X known)
    /\ IF Fresh(s, s) THEN Write(s, [mig[s] EXCEPT !.exists = FALSE])
                      ELSE UNCHANGED mig
    /\ UNCHANGED <<pod, cache, kpc, spc, evac, sproc, evict, dstVars, gaveUp>>

-----------------------------------------------------------------------------
ApiStep ==
    \E s \in Sources :
        \/ \E n \in Nodes : Sync(n, s)
        \/ CollectGarbage(s) \/ CleanupFinal(s) \/ CleanupDeleted(s)

ControllerStep ==
    \E s \in Sources :
        \/ CreateMigration(s) \/ InitStatus(s) \/ PodGone(s)
        \/ \E t \in Targets : ControllerClaim(t, s)

TargetStep(t, c) ==
    \/ CreateContainer(t, c) \/ FindFails(t, c) \/ SetRestoreReady(t, c)
    \/ ServersSet(t, c) \/ ServersTimeout(t, c) \/ SetMigrationFailed(t, c)
    \/ PullImage(t, c) \/ PullFails(t, c)
    \/ StartContainer(t, c) \/ StartFails(t, c) \/ FinishFindsNone(t, c)
    \/ \E s \in Sources :
          \/ FindClaimed(t, c, s) \/ FindAndClaim(t, c, s)
          \/ FinishRestore(t, c, s)

SourceStep(s, c) ==
    \/ EvictDone(s, c) \/ KillContainer(s, c)
    \/ SeesClaim(s, c) \/ ClaimTimeout(s, c) \/ SetUnclaimed(s, c)
    \/ SeesReady(s, c) \/ ReadyTimeout(s, c)
    \/ LazyDump(s, c) \/ EvacServers(s, c) \/ EvacStatus(s, c)
    \/ EvacFails(s, c) \/ TransferDone(s, c) \/ Exit(s, c)

\* What the cluster and the clients may do.
Environment ==
    \/ \E s \in Sources : DeletePod(s)
    \/ \E t \in Targets : SchedulePod(t) \/ PodRunning(t)
    \/ \E s \in Sources, c \in Containers : WakeSource(s, c) \/ EvictPod(s, c)

Next ==
    \/ ApiStep \/ ControllerStep \/ Environment
    \/ \E t \in Targets, c \in Containers : TargetStep(t, c)
    \/ \E s \in Sources, c \in Containers : SourceStep(s, c)

Spec == Init /\ [][Next]_vars

\* Caches catch up, controllers and shims go on, and every wait has a timeout.
Fairness ==
    /\ WF_vars(ApiStep)
    /\ WF_vars(ControllerStep)
    /\ \A t \in Targets, c \in Containers : WF_vars(TargetStep(t, c))
    /\ \A s \in Sources, c \in Containers : WF_vars(SourceStep(s, c))

FairSpec == Spec /\ Fairness

-----------------------------------------------------------------------------
(* Properties. *)

\* The type invariant.
TypeOK ==
    /\ pod \in [Pods -> {"absent", "pending", "running", "deleting", "gone"}]
    /\ mig \in [Sources -> Migrations]
    /\ cache \in [Nodes -> [Sources -> Migrations]]
    /\ kpc \in [Sources -> {"idle", "created", "done"}]
    /\ spc \in [SourceThreads ->
                   {"run", "claim", "unclaim", "ready", "dump", "evac",
                    "status", "transfer", "drain", "kill", "exited"}]
    /\ evac \in [SourceThreads -> {"none", "offline", "live"}]
    /\ sproc \in [SourceThreads ->
                     {"running", "scaledDown", "frozen", "exited"}]
    /\ image \subseteq SourceThreads
    /\ evict \in [SourceThreads -> {"no", "waiting", "forwarded", "denied"}]
    /\ tpc \in [TargetThreads -> {"idle", "find", "ready", "servers", "fail",
                                  "pull", "start", "finish", "started"}]
    /\ held \in [TargetThreads -> [mig : Sources \cup {NoPod}, rv : Nat,
                                   live : BOOLEAN]]
    /\ ckpt \in [TargetThreads -> Sources \cup {NoPod}]
    /\ gaveUp \subseteq SourceThreads

\* A Migration that was claimed for a pod stays with it, whoever else has an
\* older version of it in its cache (Claim, findMatchingMigration,
\* prepareMigrationTarget).
ClaimStable ==
    [][\A s \in Sources :
          mig[s].target # NoPod => mig'[s].target = mig[s].target]_vars

\* The state of a container is handed to at most one new container: two pods
\* never continue from the same checkpoint.
OneCopy ==
    \A c \in Containers, t, u \in Targets :
        ckpt[<<t, c>>] = ckpt[<<u, c>>] /\ ckpt[<<t, c>>] # NoPod => t = u

\* The container that goes on in the new pod no longer runs in the old one (a
\* live evacuation shows its servers only once the process is frozen), unless
\* the evacuation has failed or a connection has woken it up.
NoSplitBrain ==
    /\ TypeOK
    /\ \A t \in Targets, c \in Containers :
          ckpt[<<t, c>>] # NoPod /\ <<ckpt[<<t, c>>], c>> \notin gaveUp
              => sproc[<<ckpt[<<t, c>>], c>>] # "running"

\* A container that was evacuated continues from its checkpoint in the new pod
\* whose Restore found its Migration, unless a wait has timed out, a step has
\* failed or a connection has woken it up: neither the controllers nor the exit
\* of the old shim remove the image too early, and no evacuation succeeds after
\* the new container gave up.  With auto-gc-migrations the new pod must be an
\* owner of the Migration.
NothingLost ==
    \A s \in Sources, t \in Targets, c \in Containers :
        (/\ spc[<<s, c>>] = "exited" /\ evac[<<s, c>>] # "none"
         /\ held[<<t, c>>].mig = s /\ tpc[<<t, c>>] = "started"
         /\ AutoGC => t \in mig[s].owners
         /\ <<s, c>> \notin gaveUp)
            => ckpt[<<t, c>>] = s

\* Every container of a deleted pod exits, with or without a target.
Exits ==
    \A s \in Sources, c \in Containers :
        pod[s] = "deleting" ~> spc[<<s, c>>] = "exited"

\* Every container of a new pod is started.
Starts ==
    \A t \in Targets, c \in Containers :
        tpc[<<t, c>>] = "find" ~> tpc[<<t, c>>] = "started"

=============================================================================
