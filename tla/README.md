# zeropod: a TLA+ verification project

zeropod is a containerd shim that checkpoints an idle container with CRIU, keeps
its port reachable through an *activator*, and restores the container on the
first connection or exec. A manager on every node collects the status of the
shims, checks capacity, and moves checkpoints from node to node. This directory
holds TLA+ models of that code, the TLC configurations that check them on small
instances, and proofs checked by TLAPS. Paths below are relative to `src/`.

## 1. Inventory

| Part | State | Operations | Correct when |
|---|---|---|---|
| Container lifecycle (`shim/container.go`, `checkpoint.go`, `restore.go`, `restore_capacity.go`) | `CheckpointRestore` mutex, phase, scale-down timer, config, `checkpointedPIDs`, snapshot directory, current process and `runc.Container` | `ScheduleScaleDown`, `CancelScaleDown`, `scaleDownCheck`, `checkpoint`, `kill`, `Restore`, `restoreHandler`, `Stop` | a scaled-down container can always be woken, comes back with its state, is scaled down again when idle, and looks alive to the runtime |
| Task service (`shim/task/service_zeropod.go`, `service.go`) | `running`, `runningExecs`, exit subscribers, containers | `Create`, `Start`, `Exec`, `Delete`, `Kill`, `processExits`, `preventExit` | exits of a scale down are hidden, all others are reported once, the exit of the init process last |
| Legacy activator (`activator/activator.go`, `redirector.c`) | eBPF redirect maps, proxies, connection tracker, restore hook | `Start`, `Reset`, `DisableRedirects`, `handleConnection`, `ForwardToTarget`, `Stop` | connections of a scaled-down container reach the activator, those of a running one go directly to the application |
| Reuseport activator (`activator/reuse/*`) | socket map, wake, probe and application listeners, register mutex | `Start`, `Reset`, `wake`, `Reload`, `forward`, `Stop` | some listener always accepts; the first connection wakes exactly once |
| Migration (`manager/pod_controller.go`, `migration_controller.go`, `manager/node/service.go`, `shim/evac.go`, `api/runtime/v1/types.go`) | `Migration` objects with resource versions, informer caches, images on disk, the two shims | create, claim, `Restore`, `PrepareEvac`, `Evac`, `FinishRestore`, clean-up, drain | a checkpoint goes to one new pod, is not lost, the container does not run twice, nobody waits for ever |
| Capacity and eviction (`manager/node/service.go`, `manager/capacity/*`, `pod_controller.go`) | tracked capacity and requests, node taint, reconciles | `RestoreCapacity`, `evictPod`, `updateNodeResources`, `AddTaint`, `RemoveTaint` | a refused pod is replaced; the taint stays long enough and goes away again |
| Dry run (`shim/dryrun.go`) | simulated phase, poll | simulated scale down, restore | simulated phases follow what the container would have done |
| Status pipeline (`manager/status.go`, `pod_scaler.go`, `pod_labeller.go`, `event_creator.go`) | the shim's channel, subscriptions, pod labels, requests | `SubscribeStatus`, `receive`, `handlePod` | the last status wins, and the initial requests are never forgotten |
| Redirector attacher (`manager/redirector_attacher.go`, `activator/bpf.go`, `cmd/shim/main.go`) | links and pinned maps of a sandbox, the kubelet's address | `reconcile`, watch, `AttachRedirector`, `Cleanup`, `SetKubeletAddr` | the programs are attached before a container is scaled down; probes are recognised |
| Installer (`cmd/installer/main.go`) | files on the node, what containerd has loaded, certificate authority | install, roll back, uninstall | the original configuration survives, an interrupted installation heals |
| Page server proxy (`manager/node/page_server_proxy.go`) | one connection, done channel | `Start`, `accept`, `Wait` | `Wait` returns |
| Metrics, configuration, port detection, container I/O, generated code | none worth a property | | |

How the parts interact: containerd calls the task service; the reaper calls it
back with exits; the scale-down timer, the activator's connections and the task
service calls are goroutines of one shim that share the container and its mutex.
The shim calls the node service of its node over ttrpc (capacity, restore,
evacuation, page server). The node services, the pod controllers and the
migration controllers of all nodes share the API server, each through an informer
cache of its own.

What is hard: state read before the mutex and used under it, redirects that are
switched outside of the mutex, exits that arrive at any time, a timer whose
`Stop` does not wait for its callback, optimistic updates from lagging caches,
two shims that wait for each other with timeouts, and everything that can fail
half-way. `PROJECT.json` lists each hazard at its line.

## 2. Modules

| Module | What it is |
|---|---|
| `ZeropodContainer` | one container in its shim: timer callback, checkpoint and kill, restore by a connection or an exec, Kill, the exit reaper |
| `MCZeropodContainer` | its instances for TLC |
| `ContainerProofs` | proofs about it |
| `PodMigration` | the `Migration` objects, controllers, node services, and the shims of the old and the new pod |
| `MCPodMigration` | its instances for TLC |
| `MigrationProofs` | proofs about it |
| `Activator` | what any activator promises to clients: the abstract specification |
| `ReuseActivator` | the SO_REUSEPORT activator: the socket map of every port, wake-ups, `Reset`, registration and forwarding; implements `Activator` |
| `RedirectActivator` | the legacy activator: attachment of the eBPF programs by shim and manager, the redirect maps, the handler of a connection, dump and kill; implements `Activator` |
| `TaskService` | the exits of several processes on their way from the reaper to containerd |
| `StatusPipeline` | the phase of a container on its way to the pod object |
| `NodeCapacity` | admission of restores, eviction and the taint of a node |
| `Installer` | the installer and uninstaller of a node |
| `ReuseProofs`, `RedirectProofs` | proofs about the two activators, with the refinements of `Activator` |
| `TaskProofs` | proofs about the exits of the task service |
| `StatusProofs`, `NodeProofs`, `InstallerProofs` | proofs about the status pipeline, the capacity of a node and the installer |

### ZeropodContainer

A goroutine is a thread with a program counter `pc`. It is cut into steps where
another goroutine can interfere: around the mutex (`lock`), around calls of runc,
and between a read of shared state and its use. External operations (runc, CRIU,
eBPF maps, the node service, the clock) do what they are asked, or, when their
name is in the constant `Faults`, may fail. The main correspondences:

* `scaledDown`, `noCheckpoint`, `timer`, `checkpointedPIDs`, `cur`, `cont` are
  fields of `shim.Container`: the phase, `cfg.DisableCheckpointing`, a pending
  `scaleDownTimer`, the map of that name, `c.process` and the embedded
  `*runc.Container`. `got` is the container a `Restore` has returned and
  `restoreHandler` has not stored yet.
* `image` is the snapshot directory; `redirect` says that the activator receives
  the connections; `forwarded` that `ForwardToTarget` replaced the hook.
* `running`, `runningExecs` and `owned` are the task service's tables for this
  container; `exits` is the wrapper's exit channel.
* `exited` is `InitialProcess().SetExited`, what the runtime sees.
* `excused`, `restoreOff`, `looped` are history variables of the properties.
  `excused` is set by an exit of the application itself, by a Kill when it acts
  (`Stop`; before that the container is as good as any other), by a restore that
  failed twice, and by a `ForwardToTarget` that failed after a refused capacity,
  which `Restore` returns as an unrecoverable error.

Left out of this module: dry run, the inside of the activators (`ReuseActivator`,
`RedirectActivator`), several execs at once (`TaskService`), and Kill with
migration (`PodMigration`). Errors of the activator's start other than
the ones it retries are left out, so an activator that is not started can still
start. Traffic through a probe changes nothing. The reaper's hand-over through
two channels is one set. The increment of `runningExecs` that a failing exec
start takes back is one step.

### PodMigration

A Migration object is a record with its resource version `rv`. `cache[n]` is what
the informer of node `n` has of it; `Sync` brings it up to date, at any time. All
clients of the code read from the cache and write with the version they have
read. A read followed by a write is therefore one step: whatever happened between
the two makes the cached version old, and an old version is refused. The one
object that is held across steps, the one `Restore` updates without reading it
again (`manager/node/service.go:411`), is the variable `held`.

* `kpc` is the pod controller on the source node, `spc` the Kill of a container
  of a deleted pod (claim, ready, dump, evac, status, transfer, drain), `tpc` the
  Create and Start of a container in a new pod (find, ready, servers, pull,
  start, finish).
* `sproc` is the process of a source container, `image` the set of source
  containers whose image is on the source node, `ckpt` the source whose
  checkpoint a new container has got.
* `evict` is the capacity request of a source container, which holds the
  container's mutex while it waits for a target.
* `gaveUp` is a history variable: containers whose migration met a timeout, a
  failed step, or a connection that woke them. The properties promise nothing
  for those, and everything for the others.

Timeouts are steps that are possible whenever what is waited for is not (yet) in
the cache. Labels of a pod lag behind, so the controller may set any subset of
the containers failed; a container that is failed by such a label (`InitStatus`) is
given up by the code itself, and counts as given up. The target pod's address is set together with
`RestoreReady` and is part of `ready`. Live migration is limited to one container
per pod (`LiveAssumption`), as `docs/configuration/migration.md` says. New pods
are not deleted again. A pull that fails (`PullFails`) includes a node that finds,
after it has renamed the image, that it does not support live migration: only that
path sets the migration failed. `CleanupDeleted` removes the images of a deleted
pod before the Update that may conflict, so a conflict repeats the removal. The
update of the pod's resources after a claim and the archive format are not
modelled. A process that CRIU
resumes after a failed lazy dump is not told from a frozen one, because Kill ends
either.

### ReuseActivator

`activator/reuse` as seen by connections to several ports of one container.

* `group[k]` is the `listenerGroup` of port `k` with the sockets of its eBPF map:
  slot 0 (`app`, the application or a forwarder), slot 1 (`wake`, named by the
  goroutine that polls it), slot 2 (`probe`), and whether `select_or_migrate` is
  attached. `SelectOrMigrate` is the eBPF program, `Regroup` the kernel, which
  moves the pending connections of a listener that closes.
* `pc[w]` is a `watchWake` goroutine: in the poll, in the restore hook, waiting for
  `register`, in `registerListeners`, closing the listeners. `down` is the
  scale-down callback: `Reset`, then the checkpoint. `lock` is
  `CheckpointRestore`; `mu` is held between steps only by `Reset` (`MuFree`).
* `upset` records what may cost a connection: a `register` mutex that was kept, a
  registration that failed or found nothing, a listen that failed, a refused
  restore without a target.

`registerListeners` works port by port: an error may come when some ports have
their socket in the map and others have not (`RegisterPartly`). A forwarder that
cannot listen fails the restore and ends the container (`restore.go:57`), which is
the fault `forward` of `ZeropodContainer`; here forwarding succeeds.

Left out: `Reload`, `Stop`, the activity tracker (the timer may fire whenever it
is pending), the packets of a forwarded connection, and a restore that fails
twice (that is `ZeropodContainer`). Each port is one listener key, and all ports
of the application open together.

### RedirectActivator

One container in a pod whose network namespace the shim and the manager share.

* `boot` is where `startActivator` is: the helper process creates and pins the
  maps and attaches the programs, `Start` opens the maps, disables the redirects,
  listens for every port, and resets when the container starts scaled down.
  `links`, `pinned`, `events` are the attached interfaces, the pin directory and
  the file events the manager has not handled. `address` and `cached` are the
  kubelet's address in its map and in the server.
* `redirects`, `disabled` and `active` are the three eBPF maps;
  `IngressRedirect` is the program that reads them. `active` is keyed by the
  source port, which two clients may share, and is an LRU map of `MaxActive`.
* `AttachRedirector` attaches to each interface with TCX or a qdisc. When both
  fail it returns no error and the interface stays without program (`Misses`). An
  interface that is not found makes the manager clean up (`ManagerAttachFails`).
* `pc[c]` is `handleConnection`: probe detection, registration, restore hook,
  dial, proxy, removal. `detectProbe` peeks at the first byte of a connection from
  the kubelet's address without a deadline: such a handler waits at `peek` until
  its client sends or closes (`Peeked`), and no client has to.
* `left` is a history: a scale-down that failed has left redirects on since they
  were disabled last. `Reset` that stops half-way, the returns of `checkpoint`
  before `resetOnErr` (`checkpoint.go:89-98`), an ignored error of
  `DisableRedirects` and a failed kill do that (`LeavesRedirects`). `down` is the scale-down callback, `lock` the container's
  mutex.
* `upset` collects what went wrong, in four causes that the properties tell
  apart: `lost`, `entry`, `programs` and `loop`.

The helpers of the containers of a pod do not overlap, as containers of a pod are
started one after the other. A connection is given one direction: the first packet
decides, and `Stray` is a later packet that the maps send elsewhere. A server that
dials itself does so once per connection before `proxyTimeout` ends it. Left out:
`Stop`, which closes the maps before the handlers remove their entries; the
activity tracker; IPv6, where the address of the kubelet is read anew every time.

### Activator and the refinement

`Activator` knows connections (new, waiting, served, lost), whether the
application listens, whether connections are forwarded, and whether something went
wrong. A connection is served only by a listening application or the target, or
if it is a probe; it is lost only after a mishap; the application is woken only
for clients. `Promise` in `ReuseActivator` and in `RedirectActivator` is the
refinement mapping, and `Implements` says that the detailed specification
implements the abstract one.

### TaskService

`call[p]` is how far the call that makes process `p` is, `life[p]` the process.
A restore makes a new `runc.Container` with a new init process; both are numbered
by `Inits`, as the maps of `service` have one entry for each. `exitChan` and `ec`
are the channels between reaper, `wrapper.processExits` and
`service.processExits`; `wrapperExit` and `serviceExit` what the two loops have in
hand, so that another call can come in between. `waiters` are the goroutines of
`handleInitExit`. The lists of `running` for a pid are sets of processes, as a pid
is not reused while its exit is handled. `down` is the scale down under the
container's mutex, which a restore waits for: it registers the pid, dumps or kills,
and changes the phase. Two pairs of steps are one step each. `PreventExit` decides
(`service_zeropod.go:443`) and cleans up under `lifecycleMu`: the clean-up touches
only the exits and maps of the container whose process was dumped, which nobody
else changes in between, so the two commute with every other step. `Waiter`
publishes the exit and deletes the subscriber: no session of that container starts
after the exit of its init process, so nobody looks for the subscriber between the
two. The counts buffered for a waiter go with its subscriber; in the instance of the
run no exit of an init process is kept back while a waiter for its container waits,
so no count is dropped that somebody would read. With `"kill"` in `Faults` a scale down by killing may find an
init process that has exited already, and succeeds.

### StatusPipeline

The object `pod` is under optimistic locking: `current` is the set of callers of
`handlePod` whose copy is the last one written. `work` is where the subscriber and
the pod controller are in it. `FAILED` stands for the reports of failed checkpoints
and restores: they set no label and change no request, but take room in the channel,
and `handlePod` writes the object for them as well. STOPPING, on which the subscriber
only deletes metrics, and the repeated phases of a dry run are left out. `streams` are calls of `SubscribeStatus` that a dead
manager has left in the shim, each of which takes one more status and loses it.
`lost` and `overtaken` are histories: the last phase was dropped, or the
controller wrote RUNNING over a later one.

### NodeCapacity

Every container requests one unit. `ask[p]` is where `RestoreCapacity` is for a pod
(check, taint, delete, await), `rec[p]` the reconcile of a pod: it reads the node,
then lists the pods, then sets the tracker and decides. The node is read from the
informer's cache (`cached`), by reconciles and by `evictPod`, and written with
optimistic locking: `current` is the set of reconciles whose copy is the last one
written. An `evictPod` whose cache shows a taint that was just removed adds none. The
cache is at most one write behind, because whoever writes has read it. `taint` is
new until `MinTaintDuration` is over, in all copies at once. `timers` and `due` are
the requests of `RequeueAfter` before and after that time, which fire whatever taint
is there by then; a result that `Reconcile` drops sets none. `noted` is a history: a
reconcile has found the taint in a current copy, and removes it or comes back.

### Installer

A configuration file is the set of the parts that matter (runtime, opt plugin,
import). `pc` goes through the writes in the order of the code; between any two the
process may die (`Crash`) or the step may fail, and the kubelet starts it again.
`loaded` is what containerd has read at its last start, `Broken` when the
configuration did not load. The modified configuration is loaded as a test before
the restart (`LoadModified`), and rolled back when it does not load. The certificate
authority is the secret and two files, each written in a step of its own (`WriteCA`).
`AnotherNode` is the installer of another node, which
may create the secret first.

## 3. Runs

| Run | Instance | What it shows |
|---|---|---|
| `container_conns` | 1 timer goroutine, 2 connections, 2 pids; crash, config reload, reset, pre-dump, dump, restore, capacity and forwarding may fail | `TypeOK`, `ExitHasCause`, `Restorable`, `Reachable` |
| `container_exec` | a migrated container, 1 timer goroutine, 1 exec, 1 Kill; crash, clock, snapshot, force-delete, restore, redirects, capacity, forwarding and exec may fail | `ExitHasCause`, `StateSurvives` |
| `container_live` | 1 timer goroutine, 1 connection; crash, config reload, snapshot, pre-dump, dump and restore may fail, with fairness | `ScalesDown`, `LostExitHeals`, `Wakes` |
| `migration_claims` | 1 source, 2 targets on 2 nodes, 1 container, offline, pulls may fail | `OneCopy`, `ClaimStable` |
| `migration_live` | 1 source, 1 target, 1 container, live or scaled down, all faults, with fairness | `NothingLost`, `NoSplitBrain`, `Exits`, `Starts` |
| `reuse` | 2 ports, 2 connections of which one may be a probe, 3 goroutines, all faults, with fairness | `Wakeable`, `Direct`, `Woken`, `Implements` |
| `reuse_transparent` | 2 ports, 2 clients, no faults: violation of `AlwaysTransparent` | see section 5 |
| `redirect` | 1 port, 2 connections with 2 source ports, of which one may be a probe, a map of 1 active connection, all faults, with fairness | `StaysRedirected`, `Wakeable`, `Direct`, `Ending`, `Implements` |
| `task_service` | an init process, 2 exec sessions, 1 restore; starts and dumps may fail, with fairness | `ExitOrder`, `Room`, `CountExact`, `SessionsKeepAwake`, `ExitPublished` |
| `status_pipeline` | a channel of 2, 2 attempts, 2 scale-downs or reports of a failure, 2 mishaps, with fairness | `InitialKept`, `InSync`, `Settles` |
| `node_capacity` | 2 pods of which one can migrate, room for 1, 2 wake-ups, 1 mishap, with fairness | `RefusedLeaves`, `YoungTaintStays`, `TaintGoes` |
| `installer` | plain containerd and k3s (rke2 is treated the same way), an upgrade of plain containerd, 3 mishaps, with fairness | `UninstallRestores`, `InstallLoads`, `SameCA`, `RestartsLoadable`, `Heals` |

What some of the liveness properties leave out is part of their formulas.
`ScalesDown` and `LostExitHeals` are about containers without exec sessions, and
`ScalesDown` about a clock that does not pass the duration between its two reads.
`Ending` says that a handler which its client does not keep at `peek` ends.
`TaintGoes` is about a taint that the controller has noted, and `Heals` names the two
states that a failed installation cannot leave. Section 5 says what happens in the
cases left out.

In every module but `ZeropodContainer` the type invariant `TypeOK` is the first
conjunct of one of the invariants above, so that every run with fairness checks it.

**Bounds.** Two pids are enough for a pid that is reused after its exit was
handled, and for a new process next to the unhandled exit of the old one. Two
connections cover a connection that loses the race for the mutex, one that holds
a stale `runc.Container`, and loop detection by one during the restore by
another; a third would repeat one of the two. Execs and connections are in
different passing runs because `Exec` sets a healthy container exited when a
connection restores it first (section 5). One timer goroutine means that
no callback is still running when the timer fires again; overlapping callbacks
break `Restorable` (section 5). For migrations, two targets on two nodes give
every race for a claim, between the controller and the node service of one node
and between nodes; one of the targets shares the node of the source, so the image
is both pulled and renamed in place. The number of resource versions is bounded
by the protocol itself, as every thread writes finitely often. For the reuseport
activator two ports are what it takes for two wake-ups at the same time; three
goroutines are the two that poll and one that is left inside an earlier wake-up
(`Reset` waits in the model when fewer than two are free). `Prompt = TRUE` assumes
that a wake-up that can run ends before the scale-down duration it has started is
over. The properties need this assumption: see the overtaken wake-up in section 5.
For the legacy activator two connections are one that is handled while the other
restores, shares its source port, or evicts its entry from the map; faults are not
counted, so any number of them may follow each other, except that programs go missing
only while none is missing already, and the manager fails to attach only when no
other event waits for it. Ports are independent of
each other except in `Start`, which treats them in a row, so that one port is
enough. Two exec sessions are one that ends while another starts, or holds the
container awake; one restore gives an old and a new `runc.Container`. A channel of
two is full after two scale-downs that nobody receives. Two pods on a node with
room for one are what it takes to be refused, and to have two reconciles at the
same time. Three mishaps let an installation fail, its roll-back fail, and the next
one fail again.

`CHECK_DEADLOCK FALSE` is used where the system may stop: a migration ends, and a
scaled-down container without connections waits, a node with nothing to install or
to restore rests (all modules but `ZeropodContainer`). `ZeropodContainer`
has a `Rest` step for a container that has ended or rests scaled down; all other
standstills would be reported.

**Fairness.** `ZeropodContainer`: weak fairness for every goroutine, every
pending timer, the activator's retry and the reaper, which is what the Go
scheduler and `time.AfterFunc` give; strong fairness for those who wait for the
mutex, since `sync.Mutex` hands over to a starving waiter. That the activator
starts assumes the application opens its ports some day. Connections, execs,
traffic, exits and kills are never forced. `PodMigration`: weak fairness for the
caches, the controllers and every step of the two shims, because every wait there
has a timeout; none for the environment. `ReuseActivator`: strong fairness for
the goroutines of wake and for the scale-down callback, which all take mutexes;
none for clients, application and timer. `RedirectActivator`: strong fairness for
the handler of each connection, which takes the mutex; weak fairness for the
callback and for an application that is started and opens its ports; none for
attachments, manager, clients (the byte that a handler peeks for included) and
timer. `TaskService`: weak fairness for the
goroutines of the calls, the two exit loops and `handleInitExit`; none for
processes, clients and timer. `StatusPipeline` and `NodeCapacity`: weak fairness
for the goroutines, caches and timers of the manager, which the kubelet starts
again; none for shims. `Installer`: a running installer goes on and a failed one is started
again by the kubelet.

## 4. Proofs

All theorems hold for every value of the constants that satisfies the named
assumptions: any number of connections, execs, kills, pids, pods, nodes and
containers, and every set of faults.

* `TypeCorrect` (`ContainerProofs`): `Spec => []TypeOK`. Inductive with
  `PostHasPid` (after the start of a process its pid is known), without which the
  pid put into `service.running` could be the one of a container that never ran.
* `MutexCorrect` (`ContainerProofs`): whoever is at a label inside the mutex holds
  it, so at most one goroutine dumps, kills or restores.
* `RestorableCorrect` (`ContainerProofs`): `OneCheck` implies
  `Spec => []Restorable`. `OneCheck` says there is one timer goroutine. The
  inductive invariant adds that a scale down that has begun finds the container
  running until it ends (`RunningMeanwhile`: the phase is read before the mutex,
  and it is only still true under the mutex because nobody else scales down),
  that the image is complete between the dump and the phase change (`DumpedFull`),
  and that while scaled down only the retry of a failed restore lacks it
  (`RestsFull`).
* `ReachableCorrect` (`ContainerProofs`): with `OneCheck` and without execs,
  `Spec => []Reachable`. The argument: the redirects are enabled before the mutex
  is asked for, and are disabled only by a restore, by `resetOnErr` of the same
  goroutine, or by loop detection; a restore is not under way when a scale down
  begins, because a connection restores only what is scaled down.
* `ExitHasCauseCorrect` (`ContainerProofs`): with `OneCheck` and `ExecAlone`,
  `Spec => []ExitHasCause`. `ExecAlone` asks for no execs, or for one exec and no
  connections; otherwise the property is false (section 5). The inductive invariant
  `Accounted` speaks of a container that nothing has happened to that may end it (a
Kill that has not reached `Stop` yet may be under way): its
  process runs or a scale down has just ended it (`ProcessRuns`), its pid is in
  `checkpointedPIDs` from before the dump until its exit is handled
  (`ExitsExpected`), and nobody is on a path that sets it exited (`NotEnding`). That
  the `runc.Container` a connection stores after its restore is still the current
  one follows from `OneTurn`, the invariant behind `Reachable`.
* `StateSurvivesCorrect` (`ContainerProofs`): with `OneCheck`,
  `Spec => StateSurvives`. Checkpointing is disabled by a failed scale down, which
  leaves the container running and the next scale down a kill, or by a failed restore
  (`Survives`).
* `ClaimStableCorrect` and `OneCopyCorrect` (`MigrationProofs`): a claimed
  Migration is never claimed by another pod, and a checkpoint is handed to one
  new container only. The inductive invariant `IInv` says that a cached object
  whose version is the current one *is* the current object, that a cached claim
  is the one of the object, that `held` refers to a Migration claimed for the
  pod, and that a checkpoint was taken from a Migration whose target is that pod.
  Each step makes objects only *advance*: the version grows when something
  changes, and a target once set stays.
* `NoSplitBrainCorrect` (`MigrationProofs`): `Spec => []NoSplitBrain`. A checkpoint
  is taken from an image, and there is no image of a process that runs
  (`ImagesRest`): a live evacuation writes it once the process is frozen, and a restore
  in the old pod deletes it and gives the migration up.
* `NothingLostCorrect` (`MigrationProofs`): `Spec => []NothingLost` when pods have
  one container; with two it is false, by the conflict of section 5. The invariant
  `LostInv` follows a migration that nothing has gone wrong with. The claim comes
  before the restore is ready and that before the servers (`Ordered`); an evacuation
  that got through has set its server (`Evacuated`); no cached version is ahead of the
  object, and a final phase means that the restore is over (`Seen`); the collector
  waits for the owners (`Owned`); so the image is there until the restore with the
  claim has it (`Images`), and that one gets through (`Restored`).
* `PublishedOnceCorrect`, `CountExactCorrect`, `SessionsKeepAwakeCorrect`,
  `ExitOrderCorrect`, `RoomCorrect` (`TaskProofs`): for any number of sessions and
  restores. The first three hold whatever fails, the other two assume
  `"kill" \notin Faults`, without which they are false (section 5). The invariant
  `IInv` says where an exit can be: in one place only on its way (`OnePlace`,
  `OnItsWay`), and then with one of those who deal with it, a `Start`, `processExits`,
  a goroutine of `handleInitExit` or the wrapper (`Dealt`, `PublishedCalls`).
  `Exact` says which sessions `runningExecs` counts, as a cardinality, and `Sends`
  that the channel of `handleInitExit` holds the counts down to the current one, so
  that a received zero means that no session is left. `Order`, `Lives` and `Scaled`
  relate calls, processes and containers that were scaled down. `DumpInv` adds that
  the wrapper keeps the exit of a scaled-down init process back (`Dumped`), and that
  the exit of an init process is the last of its container (`InitLast`). The sets of
  processes are finite; what the argument needs of finite sets and of orders on them
  is stated once (`Cardinals`) and proved from the library at the end of the module.
* `RefusedLeavesCorrect`, `YoungTaintStaysCorrect` (`NodeProofs`): for any number of
  pods, any capacity and any number of wake-ups and mishaps. Whoever waits for the
  target of an evicted pod has deleted the pod before (`Leaving`); a reconcile removes
  only a taint that it has read as old, and as long as its copy of the node is
  current, the taint is that one (`SeenOld`), although it was read from a cache that
  lags.

* `TypeCorrect`, `WakeableCorrect`, `DirectCorrect`, `ImplementsCorrect`
  (`ReuseProofs`). The first needs no assumption, the others assume `Prompt`,
  without which TLC violates `Wakeable` (the overtaken wake-up in section 5). The
  inductive invariant follows the sockets of a port through a wake-up: every port
  has a listener (`Covered`), a goroutine takes care of every wake listener
  (`Polled`), a wake-up puts the sockets of the running process into the app slots
  before it closes the wake listeners (`Registered`, `Closing`), and between
  `Reset` and the dump nobody is woken (`Alone`). For the refinement it adds that
  probes and clients wait at different listeners (`Sorted`) and that every wake-up
  is there for a client (`Clients`).
* `StaysRedirectedCorrect`, `DirectCorrect`, `WakeableCorrect`,
  `ImplementsCorrect` (`RedirectProofs`). The first two hold for all constants, the
  others assume `TCX`: without it the programs are attached to `lo` only
  (section 5), and connections never reach the activator. The inductive invariant
  says which programs are attached (`Attached`), that the entries of
  `active_connections` are those of the handlers between registration and removal
  (`Entries`), that timer, callback and restore exclude each other (`Scaling`), and
  that the redirects are enabled from the callback to the next restore (`Enabled`)
  and disabled from there on, unless `left` (`Disabled`). `RedirectAssumption` asks for enough
  source ports to give every connection its own; they may still be shared.
* `InitialKeptCorrect`, `InSyncCorrect` (`StatusProofs`): for every size of the
  channel and number of retries, scale-downs and mishaps. The first follows from
  what a caller of `handlePod` has made of its copy (`Prepared`) and from the
  annotation being written before the containers (`Annotated`). For the second the
  last phase is followed through the channel, the subscriber and the object
  (`InChannel`, `WithSubscriber`, `InObject`), past the failure reports that come
  after it (`EndsWith`, `NoPhase`); `Labelled` says that the two updates
  of a caller whose copy stays current are not separated by another write.
* `UninstallRestoresCorrect`, `InstallLoadsCorrect`, `RestartsLoadableCorrect`,
  `SameCACorrect` (`InstallerProofs`): for any number of mishaps. The first three
  assume `PlainUpgrade`, that only plain containerd is upgraded, as in the run;
  with an upgrade of k3s `UninstallRestores` is false (section 5). The inductive
  invariant says that the backup is the original and there whenever the
  configuration is another (`BackupOriginal`), that the running version recognises
  what is configured (`Recognised`), and what each step has written so far
  (`Changing`, `Unstuck`, `BinariesSoFar`).

In `Implements` a mishap is an element of the history variable `upset`. Most are
recorded before a connection is lost; the cause `lost` of the legacy activator is
recorded by the step that loses it. For that cause the refinement says that no
other step loses a connection, not that the loss was announced.

Only model-checked: the liveness properties (`ScalesDown`, `LostExitHeals`, `Wakes`,
`Exits`, `Starts`, `Woken`, `Ending`, `ExitPublished`, `Settles`, `TaintGoes`,
`Heals`), because fairness is out of the prover's reach. Every invariant and every
action property that a run checks is a theorem, under the assumptions named above.

## 5. Where the code and its documents disagree

Shown by the violation run:

* **A mutex that is kept** (`reuse_transparent`). Connections to two ports wake the
  container at the same time; the second wake-up finds the listeners registered
  and never unlocks `register`. After the next scale-down every wake-up waits for
  it, and the connections that woke the container are refused.

Further deviations that the modules reach and that no run is spent on:

* **An exec ends a healthy container.** `Exec` reads `ScaledDown` without the
  mutex. If a connection restores the container first, `Restore` returns
  `ErrAlreadyRestored`, which `Exec` treats as an unrecoverable failure and sets
  the running process exited (`ExitHasCause` with an exec and a connection).
* **Scaled down and deaf.** A connection accepted between `Reset` and the
  checkpoint's lock finds the container running, dials itself, and loop detection
  disables the redirects that the checkpoint relies on (`looped` in
  `ZeropodContainer`, the cause `loop` in `RedirectActivator`).
* **A checkpoint lost to a conflict.** The retries of `Restore` on a conflict never
  read the object again (`manager/node/service.go:411`), so one conflict fails them
  all, while `RestoreReady` set by another container lets the evacuation go on
  (`NothingLost` with two containers and no faults).
* **Data moved under a running container.** `moveUpperDirToImage` says "Only call
  this once the container is either stopped or frozen." (`shim/evac.go:248`), but a
  connection may restore a scaled-down container while its evacuation waits
  (`WakeSource`).
* **Only the loopback device without TCX.** When `attachTCX` fails,
  `AttachRedirector` returns after the qdisc of the first interface, `lo`, so that
  `eth0` never redirects (`activator/bpf.go:275`; `AttachRedirector` with
  `TCX = FALSE`). When the qdisc fails as well, nothing is attached and no error is
  returned (`Misses`).
* **A silent client.** `detectProbe` peeks at a connection from the kubelet's address
  without a read deadline (`shim/probe.go:73`); a client there that sends nothing
  keeps its handler for as long as it likes (`Peeked`; `Ending` excepts it).
* **A reconcile that never attaches.** `reconcile` asks `TCXPinned(pid)` without
  interfaces, which is always true (`manager/redirector_attacher.go:119`).
* **A sibling's failure.** All containers of a pod share the pin directory; an
  attach that fails for one removes the programs of the others (`SiblingFails`).
* **A zero address for ever.** The first connection caches the address of the
  kubelet, also when the manager has not inserted it yet; from then on probes wake
  the container (`GetKubeletAddr`).
* **Connections refused during a restore.** The redirects are disabled before the
  application that is started anew listens, although `restore` waits "to avoid
  routing traffic into a void" (`RestoreDisables`, `Restored`).
* **Dialled into a new start.** A connection accepted between `Reset` and the dump
  dials until `connectTimeout`. When another handler in the meantime starts the
  application anew, because it has no checkpoint, and it is slow to listen, the
  connection is refused although nothing failed before (`DialTimesOut` in the state
  `starting`). The step records the cause `lost`. TLC reaches it with
  `MaxActive = 2`; with the map of one entry of the run the entry of the connection
  has always been pushed out before, which is a recorded cause already.
* **An upgrade of k3s.** Version 1 writes the runtime into the template, and k3s
  generates `config.toml` from it. After an upgrade to version 2 the template is
  restored, but `config.toml` holds the old runtime until the next restart; the new
  backup is taken of that, and an uninstallation restores it
  (`UninstallRestores` with `Upgradable = {"k3s"}`).
* **Counted twice, or not at all.** The request of a container that is asking is
  compared with a sum that may still contain it, and two restores that ask at the
  same time are both admitted on the same free memory (`HasCapacity`).
* **A taint that stays.** The reconcile that a deleted pod causes may read the cached
  node before the informer has received the taint; it then sets no requeue, and
  without a later event nobody removes the taint (`ReconcileReads`). So does one
  whose result `Reconcile` drops because the pod is gone or its migration exists
  (`Dropped`), one that a timer for an earlier taint repeats too soon, and one that
  lists the pods too early. `TaintGoes` excepts these through `noted`.
* **A kill that finds nothing.** After a failed dump `scaleDownCheck` disables
  checkpointing and arms the timer again (`shim/container.go:246`); the next scale
  down kills, and `runc delete --force` also succeeds for an init process that has
  exited meanwhile. The container is then scaled down and restored although its exit
  has been passed on: a session that was added before can start after the exit of its
  init process was published, and the counter that the wrapper drops gives
  `handleInitExit` a channel without room for the sessions that run (`ExitOrder` and
  `Room` with `"kill"` in `Faults`).
* **An exit between publishing and counting.** `Delete` that comes between the two
  still counts the session and does not rearm the timer (`HandleProcessExit`). The
  exit of a restored process that comes before `postRestore`, and that of an exec
  after the scale-down, are kept back for good.
* **Statuses without a reader.** A full channel drops the newest status, the stream
  of a dead manager takes one out, a socket created between the listing and the
  watch is not subscribed (`SendEvent`, `StaleStream`, `ManagerWatches`).
* **Configured but not loaded.** An installer that dies between its last write to
  `config.toml` and the restart finds everything configured at the next attempt and
  does not restart containerd (`AlreadyConfigured`), and reports success although the
  runtime is not loaded; a containerd that is restarted
  between the write of the import and that of the imported file does not start;
  with k3s and rke2 a roll-back restores the template only. `Heals` and
  `InstallLoads` name these as exceptions. A request for the
  secret that fails otherwise than with NotFound writes an empty certificate
  authority (`LoadTLSCA`). `runUninstall` leaves `runtime_zeropod.toml`.
* `scaleDownCheck` reads the clock twice; when the duration elapses in between it
  returns without a timer (`CheckPastDeadline`). `container_live` leaves the
  fault `clock` out; with it TLC finds `ScalesDown` violated;
* a wake-up that is overtaken by `Reset`, between its registration and its close,
  closes the new wake listeners: the container is then scaled down and nothing
  wakes it (`Wakeable` with `Prompt = FALSE`, one port and no faults);
* the activator's own probe listeners count as listeners of the application, so a
  process that is slow to open its ports is registered as nothing, without an
  error, and the waiting connections are refused (`RegisterNothing`);
* a registration that fails leaves a wake listener that no goroutine polls
  (`RegisterFails`, `RegisterPartly`), and a refused restore without a target closes the wake
  listeners for good (`CapacityDenied`);
* a config reload turns checkpointing on again after a failed restore turned it
  off "for the rest of the container lifetime" (`ReloadConfig`);
* after a restore that failed twice the handler dereferences the nil container
  (`ConnFailed`); an exec that restores a container whose activator has ports but
  never started dereferences an unloaded map (`RedirectsPanic`);
* `Kill` releases the mutex before it acts, so a checkpoint or a restore can begin
  in between (`KillBegin`, `Stop`);
* a callback that fired just before `Exec` cancelled the timer scales the
  container down under the session; a restore by an exec disables redirects that
  a waiting callback has just enabled;
* a restored process that exits before `handleStarted` stays in `running`
  (`PostRestore`); it heals with the next scale down (`LostExitHeals`);
* the exec counter, dropped with a prevented exit, goes below zero and `Delete`
  then never schedules the scale down; neither does an exec that is refused;
* a callback longer than the scale-down duration that overlaps the next one lets
  the second empty the snapshot of the first;
* a snapshot directory that cannot be prepared, a process of another type, a failed
  kill and a `Reset` that stops half-way leave the redirects of a running container
  on until the next restore disables them (`LeavesRedirects`, the history `left`);
* a force-delete that keeps failing keeps a container with a registered pid from being
  scaled down, and the exit that is swallowed meanwhile does not heal
  (`LostExitHeals` with `"delete"` in `Faults`);
* a pod can claim two Migrations when several match, because the order of the
  cached list is arbitrary; the comment at `manager/node/service.go:600` ("if we
  get a conflict it means this migration has already been claimed by another
  node") is not always true;
* phases called final are overwritten (Completed by Unclaimed, Failed by
  Running), and an offline migration whose container was started from scratch is
  reported Completed;
* only the controller's claim makes the new pod an owner of the Migration; after a
  claim by the node service the object and its images are collected with the old
  pod.

## 6. Not modelled

* Dry run: it changes a log, an event and a counter, and leaves the process alone.
* The page server proxy, container I/O and the metrics: bytes and counters that
  pass through; `PodMigration` has the transfer as a step that ends or fails.
* `Reload` of the reuseport activator and `Stop` of both activators: they end what
  the modules describe, and nothing follows them but the end of the shim. `Server.Stop`
  closes the maps before the handlers remove their entries, which a container that
  is created again in the same sandbox would find.
* The activity tracker: a scale-down timer may fire whenever it is pending, which
  includes every time the tracker could let it fire.
* Parsing of annotations, of procfs and of configuration files, the archive format
  of an image, and generated code.

## 7. Plan

1. `Stop` of the activators with a container that is created again in its sandbox.
2. Several containers of a pod in `NothingLost`, with a `Restore` that reads the
   object again after a conflict.
