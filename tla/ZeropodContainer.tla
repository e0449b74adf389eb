-------------------------- MODULE ZeropodContainer --------------------------
(***************************************************************************)
(* One zeropod container inside its shim: the scale-down timer callback    *)
(* (shim/container.go, shim/checkpoint.go), the restore taken by a         *)
(* connection or by an exec (shim/restore.go), and the wrapped task        *)
(* service calls Exec, Start, Delete and Kill together with the exit       *)
(* reaper (shim/task/service_zeropod.go).                                  *)
(*                                                                         *)
(* A goroutine is a thread with a program counter; it is cut into steps    *)
(* where another goroutine can interfere: around the CheckpointRestore     *)
(* mutex, around the calls of runc, and between a read of shared state and *)
(* its use.  The calls of runc, of CRIU and of the eBPF maps either do     *)
(* what they are asked or, when their name is in Faults, may fail.         *)
(***************************************************************************)
EXTENDS Integers, FiniteSets

CONSTANTS
    Checks,     \* goroutines of the scale-down timer that can overlap
    Conns,      \* connections handled by the activator at the same time
    Execs,      \* exec sessions
    Kills,      \* Kill calls
    Pids,       \* process ids, reused once the exit has been handled
    Faults,     \* the external operations that may fail
    SkipStart,  \* TRUE for a container created from a migrated checkpoint
    NoThread,   \* nobody holds the mutex
    NoPid       \* the pid of a container whose process never ran here

Threads == Checks \cup Conns \cup Execs \cup Kills

FaultNames == {"crash", "clock", "config", "reset", "snapshot", "predump",
               "dump", "delete", "restore", "redirects", "capacity", "forward",
               "exec"}

ASSUME ThreadsAssumption ==
    /\ NoThread \notin Threads
    /\ Checks \cap (Conns \cup Execs \cup Kills) = {}
    /\ Conns \cap (Execs \cup Kills) = {}
    /\ Execs \cap Kills = {}

ASSUME ParamsAssumption ==
    /\ Pids # {}
    /\ NoPid \notin Pids
    /\ Faults \subseteq FaultNames
    /\ SkipStart \in BOOLEAN

VARIABLES
    lock,             \* holder of Container.CheckpointRestore
    pc,               \* where each thread is
    scaledDown,       \* Container.scaledDown
    mode,             \* how it was last scaled down: "ckpt" or "kill"
    noCheckpoint,     \* cfg.DisableCheckpointing
    image,            \* the snapshot directory: "none", "partial" or "full"
    started,          \* activator.Started()
    redirect,         \* the activator receives the container's connections
    forwarded,        \* ForwardToTarget replaced the restore hook
    timer,            \* scaleDownTimer is pending
    activity,         \* TCP activity was tracked since the timer was set
    cur,              \* pid of Container.process
    cont,             \* pid of the embedded runc.Container
    got,              \* pid of the runc.Container a Restore has returned
    alive,            \* pids of the container's live init process
    exits,            \* pids whose exit waits in wrapper.exitChan
    running,          \* pids in service.running
    checkpointedPIDs, \* Container.checkpointedPIDs
    runningExecs,     \* service.runningExecs of the service's runc.Container
    owned,            \* exec processes added to the service's runc.Container
    exited,           \* the initial process was set exited: the runtime sees it
    stopped,          \* Container.Stop ran
    panicked,         \* a nil *runc.Container was dereferenced
    excused,          \* history: something happened that may end the container
    restoreOff,       \* history: a failed restore turned checkpointing off
    looped            \* history: loop detection has disabled the redirects

ctlVars  == <<lock, pc>>
contVars == <<scaledDown, mode, noCheckpoint, image>>
netVars  == <<started, redirect, forwarded>>
timeVars == <<timer, activity>>
procVars == <<cur, cont, got, alive, exits, running, checkpointedPIDs>>
execVars == <<runningExecs, owned>>
lifeVars == <<exited, stopped, panicked>>
histVars == <<excused, restoreOff, looped>>
vars == <<ctlVars, contVars, netVars, timeVars, procVars, execVars, lifeVars,
          histVars>>

CheckLabels == {"idle", "check", "wantCheckpoint", "prepare", "dump", "dumped",
                "wantKill", "killing"}
RestoreLabels == {"idle", "want", "capacity", "create", "recreate", "post",
                  "restored", "failed"}
ConnLabels == RestoreLabels \cup {"dial", "done"}
ExecLabels == RestoreLabels \cup {"read", "add", "added", "session", "ended",
                                  "done"}
KillLabels == {"idle", "barrier", "signal", "done"}
Labels == CheckLabels \cup ConnLabels \cup ExecLabels \cup KillLabels

\* The labels at which a thread is inside the CheckpointRestore mutex.
CriticalLabels == {"prepare", "dump", "dumped", "killing", "capacity",
                   "create", "recreate", "post"}

May(f) == f \in Faults

Goto(t, from, to) ==
    /\ pc[t] = from
    /\ pc' = [pc EXCEPT ![t] = to]

Acquire(t) ==
    /\ lock = NoThread
    /\ lock' = t

Release(t) ==
    /\ lock = t
    /\ lock' = NoThread

\* ScheduleScaleDown and scaleDownTimer.Reset: the timer is set anew, and
\* activity that was seen before no longer delays it.
ArmTimer ==
    /\ timer' = TRUE
    /\ activity' = FALSE

CancelScaleDown ==
    /\ timer' = FALSE
    /\ UNCHANGED activity

\* wrapper.Start has returned: the process runs and the scale-down is
\* scheduled, or, with skipStart, the container is registered as scaled down.
Init ==
    /\ lock = NoThread
    /\ pc = [t \in Threads |-> "idle"]
    /\ scaledDown = SkipStart
    /\ mode = "ckpt"
    /\ noCheckpoint = FALSE
    /\ image = IF SkipStart THEN "full" ELSE "none"
    /\ started \in BOOLEAN
    /\ redirect = (SkipStart /\ started)
    /\ forwarded = FALSE
    /\ timer = ~SkipStart
    /\ activity = FALSE
    /\ IF SkipStart THEN cur = NoPid ELSE cur \in Pids
    /\ cont = cur
    /\ got = [t \in Conns |-> NoPid]
    /\ alive = {cur} \ {NoPid}
    /\ exits = {}
    /\ running = alive
    /\ checkpointedPIDs = {}
    /\ runningExecs = 0
    /\ owned = {}
    /\ exited = FALSE
    /\ stopped = FALSE
    /\ panicked = FALSE
    /\ excused = FALSE
    /\ restoreOff = FALSE
    /\ looped = FALSE

-----------------------------------------------------------------------------
(* The activator and the environment. *)

\* initActivator, retried with a timer until the ports are found; Stop cancels
\* the retry.  The activator starts with disabled redirects, and enables them
\* when the container was created with skipStart.
InitActivator ==
    /\ ~started
    /\ ~stopped
    /\ started' = TRUE
    /\ redirect' = SkipStart
    /\ UNCHANGED <<ctlVars, contVars, forwarded, timeVars, procVars, execVars,
                   lifeVars, histVars>>

\* The redirector program tracks every packet to a port of the application,
\* whether it redirects it or not.
Traffic ==
    /\ started
    /\ ~activity
    /\ activity' = TRUE
    /\ UNCHANGED <<ctlVars, contVars, netVars, timer, procVars, execVars,
                   lifeVars, histVars>>

\* The application exits, on its own or from the signal of a Kill.
Crash ==
    /\ May("crash") \/ stopped
    /\ alive # {}
    /\ alive' = {}
    /\ exits' = exits \cup alive
    /\ excused' = TRUE
    /\ UNCHANGED <<ctlVars, contVars, netVars, timeVars, cur, cont, got,
                   running, checkpointedPIDs, execVars, lifeVars, restoreOff,
                   looped>>

-----------------------------------------------------------------------------
(* scaleDownCheck: the callback of scaleDownTimer. *)

TimerFires(t) ==
    /\ t \in Checks
    /\ timer
    /\ Goto(t, "idle", "check")
    /\ timer' = FALSE
    /\ UNCHANGED <<lock, contVars, netVars, activity, procVars, execVars,
                   lifeVars, histVars>>

\* The activator is not ready yet: the timer is reset to the init backoff.
CheckNotStarted(t) ==
    /\ t \in Checks
    /\ Goto(t, "check", "idle")
    /\ ~started
    /\ timer' = TRUE
    /\ UNCHANGED <<lock, contVars, netVars, activity, procVars, execVars,
                   lifeVars, histVars>>

\* reloadConfig: a config that has changed is read anew from the spec, where
\* checkpointing is not disabled.
ReloadConfig ==
    \/ UNCHANGED noCheckpoint
    \/ May("config") /\ noCheckpoint' = FALSE

\* Recent activity: the timer is reset to the rest of the duration, and the
\* config is read again when its file has changed.
CheckRecentActivity(t) ==
    /\ t \in Checks
    /\ Goto(t, "check", "idle")
    /\ started
    /\ ~stopped
    /\ activity
    /\ ArmTimer
    /\ ReloadConfig
    /\ UNCHANGED <<lock, scaledDown, mode, image, netVars, procVars, execVars,
                   lifeVars, histVars>>

\* The duration elapses between the two reads of the clock: the activity is
\* no longer recent, the delay is negative and the callback returns.
CheckPastDeadline(t) ==
    /\ t \in Checks
    /\ May("clock")
    /\ Goto(t, "check", "idle")
    /\ started
    /\ ~stopped
    /\ activity
    /\ activity' = FALSE
    /\ UNCHANGED <<lock, contVars, netVars, timer, procVars, execVars,
                   lifeVars, histVars>>

\* Mutant: scaleDown without activator.Reset.
CheckScaleDown_NoReset(t) ==
    /\ t \in Checks
    /\ started
    /\ ~activity \/ stopped
    /\ Goto(t, "check",
            IF scaledDown \/ stopped THEN "idle"
            ELSE IF noCheckpoint THEN "wantKill" ELSE "wantCheckpoint")
    /\ UNCHANGED <<lock, contVars, netVars, timeVars, procVars, execVars,
                   lifeVars, histVars>>

\* scaleDown: nothing to do for a container that is already scaled down, else
\* the activator takes over the ports before the mutex is asked for.
CheckScaleDown(t) ==
    /\ t \in Checks
    /\ started
    /\ ~activity \/ stopped
    /\ \/ /\ scaledDown
          /\ Goto(t, "check", "idle")
          /\ UNCHANGED redirect
       \/ /\ ~scaledDown
          /\ ~stopped
          /\ Goto(t, "check",
                  IF noCheckpoint THEN "wantKill" ELSE "wantCheckpoint")
          /\ redirect' = TRUE
    /\ UNCHANGED <<lock, contVars, started, forwarded, timeVars, procVars,
                   execVars, lifeVars, histVars>>

\* Mutant: checkpointing stays enabled after a failed scale down.
ScaleDownFailed_KeepsCheckpointing ==
    /\ UNCHANGED noCheckpoint
    /\ ArmTimer

\* What scaleDownCheck does with an error of scaleDown.
ScaleDownFailed ==
    /\ noCheckpoint' = TRUE
    /\ ArmTimer

\* activator.Reset fails, as it does once the activator is stopped.
CheckResetFails(t) ==
    /\ t \in Checks
    /\ May("reset") \/ stopped
    /\ Goto(t, "check", "idle")
    /\ started
    /\ ~activity \/ stopped
    /\ ~scaledDown
    /\ ScaleDownFailed
    /\ UNCHANGED <<lock, scaledDown, mode, image, netVars, procVars, execVars,
                   lifeVars, histVars>>

-----------------------------------------------------------------------------
(* checkpoint and kill: the two ways to scale down, under the mutex. *)

\* prepareSnapshotDir empties the snapshot directory first.
LockCheckpoint(t) ==
    /\ Goto(t, "wantCheckpoint", "prepare")
    /\ Acquire(t)
    /\ image' = "partial"
    /\ UNCHANGED <<scaledDown, mode, noCheckpoint, netVars, timeVars, procVars,
                   execVars, lifeVars, histVars>>

\* prepareSnapshotDir fails: checkpoint returns without resetOnErr.
SnapshotDirFails(t) ==
    /\ May("snapshot")
    /\ Goto(t, "prepare", "idle")
    /\ Release(t)
    /\ ScaleDownFailed
    /\ UNCHANGED <<scaledDown, mode, image, netVars, procVars, execVars,
                   lifeVars, histVars>>

\* Mutant: the pid is not registered before the dump.
AddCheckpointedPID_Forgotten(t) ==
    /\ Goto(t, "prepare", "dump")
    /\ UNCHANGED <<lock, contVars, netVars, timeVars, procVars, execVars,
                   lifeVars, histVars>>

\* Mutant: the container is registered instead of its pid.
AddCheckpointedPID_WrongKey(t) ==
    /\ Goto(t, "prepare", "dump")
    /\ checkpointedPIDs' = checkpointedPIDs \cup {t}
    /\ UNCHANGED <<lock, contVars, netVars, timeVars, cur, cont, got, alive,
                   exits, running, execVars, lifeVars, histVars>>

\* The pid is registered as checkpointed before the dump kills its process.
AddCheckpointedPID(t) ==
    /\ Goto(t, "prepare", "dump")
    /\ checkpointedPIDs' = checkpointedPIDs \cup {cont}
    /\ UNCHANGED <<lock, contVars, netVars, timeVars, cur, cont, got, alive,
                   exits, running, execVars, lifeVars, histVars>>

\* runc checkpoint succeeds: the image is complete and the process is gone.
Dump(t) ==
    /\ Goto(t, "dump", "dumped")
    /\ alive # {}
    /\ image' = "full"
    /\ mode' = "ckpt"
    /\ alive' = {}
    /\ exits' = exits \cup alive
    /\ UNCHANGED <<lock, scaledDown, noCheckpoint, netVars, timeVars, cur,
                   cont, got, running, checkpointedPIDs, execVars, lifeVars,
                   histVars>>

\* runc checkpoint, or the pre-dump before it, fails: resetOnErr, which
\* ignores an error of DisableRedirects.  There is nothing to dump when the
\* process is gone.
DumpFails(t) ==
    /\ \/ (May("dump") \/ alive = {}) /\ Goto(t, "dump", "idle")
       \/ (May("predump") \/ alive = {}) /\ Goto(t, "prepare", "idle")
    /\ Release(t)
    /\ checkpointedPIDs' = checkpointedPIDs \ {cont}
    /\ \/ ~stopped /\ redirect' = FALSE
       \/ (May("redirects") \/ stopped) /\ UNCHANGED redirect
    /\ ScaleDownFailed
    /\ UNCHANGED <<scaledDown, mode, image, started, forwarded, cur, cont, got,
                   alive, exits, running, execVars, lifeVars, histVars>>

\* Mutant: kill does not register the pid.
LockKill_ForgetsPid(t) ==
    /\ Goto(t, "wantKill", "killing")
    /\ Acquire(t)
    /\ UNCHANGED <<contVars, netVars, timeVars, procVars, execVars, lifeVars,
                   histVars>>

\* kill: the pid is registered as checkpointed, then runc delete --force.
LockKill(t) ==
    /\ Goto(t, "wantKill", "killing")
    /\ Acquire(t)
    /\ checkpointedPIDs' = checkpointedPIDs \cup {cont}
    /\ UNCHANGED <<contVars, netVars, timeVars, cur, cont, got, alive, exits,
                   running, execVars, lifeVars, histVars>>

\* A forced delete also succeeds when the process is already gone.
ForceDelete(t) ==
    /\ Goto(t, "killing", "dumped")
    /\ mode' = "kill"
    /\ alive' = {}
    /\ exits' = exits \cup alive
    /\ UNCHANGED <<lock, scaledDown, noCheckpoint, image, netVars, timeVars,
                   cur, cont, got, running, checkpointedPIDs, execVars,
                   lifeVars, histVars>>

\* kill returns the error as it is: neither the pid nor the redirect is reset.
ForceDeleteFails(t) ==
    /\ May("delete")
    /\ Goto(t, "killing", "idle")
    /\ Release(t)
    /\ ScaleDownFailed
    /\ UNCHANGED <<scaledDown, mode, image, netVars, procVars, execVars,
                   lifeVars, histVars>>

\* setPhaseNotify(SCALED_DOWN)
SetScaledDown(t) ==
    /\ Goto(t, "dumped", "idle")
    /\ Release(t)
    /\ scaledDown' = TRUE
    /\ UNCHANGED <<mode, noCheckpoint, image, netVars, timeVars, procVars,
                   execVars, lifeVars, histVars>>

-----------------------------------------------------------------------------
(* Restore, called by the activator's restoreHandler and by Exec. *)

\* A connection that the redirect hands to the activator.
ConnArrives(t) ==
    /\ t \in Conns
    /\ started
    /\ redirect
    /\ ~forwarded
    /\ ~stopped
    /\ Goto(t, "idle", "want")
    /\ UNCHANGED <<lock, contVars, netVars, timeVars, procVars, execVars,
                   lifeVars, histVars>>

\* The container is scaled down: Restore goes on with the mutex held.
LockRestore(t) ==
    /\ Goto(t, "want", "capacity")
    /\ Acquire(t)
    /\ scaledDown
    /\ UNCHANGED <<contVars, netVars, timeVars, procVars, execVars, lifeVars,
                   histVars>>

\* Mutant: Restore returns ErrAlreadyRestored whatever the phase.
AlreadyRestored_AnyPhase(t) ==
    /\ Goto(t, "want", IF t \in Execs THEN "failed" ELSE "dial")
    /\ lock = NoThread
    /\ UNCHANGED <<lock, contVars, netVars, timeVars, procVars, execVars,
                   lifeVars, histVars>>

\* ErrAlreadyRestored: the restoreHandler returns the pid, Exec treats it as
\* any other error.
AlreadyRestored(t) ==
    /\ Goto(t, "want", IF t \in Execs THEN "failed" ELSE "dial")
    /\ lock = NoThread
    /\ ~scaledDown
    /\ UNCHANGED <<lock, contVars, netVars, timeVars, procVars, execVars,
                   lifeVars, histVars>>

\* restoreCapacityRequest is allowed, or fails, which is only logged.
CapacityAllowed(t) ==
    /\ Goto(t, "capacity", "create")
    /\ UNCHANGED <<lock, contVars, netVars, timeVars, procVars, execVars,
                   lifeVars, histVars>>

\* Mutant: the image is deleted on every return of Restore, not of restore.
CapacityDenied_DeletesImage(t) ==
    /\ May("capacity")
    /\ Goto(t, "capacity", IF t \in Execs THEN "idle" ELSE "dial")
    /\ Release(t)
    /\ forwarded' \in {forwarded, TRUE}
    /\ image' = "none"
    /\ UNCHANGED <<scaledDown, mode, noCheckpoint, started, redirect, timeVars,
                   procVars, execVars, lifeVars, histVars>>

\* Mutant: Restore disables checkpointing on every error.
CapacityDenied_DisablesCheckpointing(t) ==
    /\ May("capacity")
    /\ Goto(t, "capacity", IF t \in Execs THEN "idle" ELSE "dial")
    /\ Release(t)
    /\ forwarded' \in {forwarded, TRUE}
    /\ noCheckpoint' = TRUE
    /\ UNCHANGED <<scaledDown, mode, image, started, redirect, timeVars,
                   procVars, execVars, lifeVars, histVars>>

\* ErrNoCapacity, with or without an address to forward the connections to:
\* the node service has evicted the pod.  An error of ForwardToTarget is one of
\* Restore.
CapacityDenied(t) ==
    /\ May("capacity")
    /\ Release(t)
    /\ \/ /\ Goto(t, "capacity", IF t \in Execs THEN "idle" ELSE "dial")
          /\ forwarded' \in {forwarded, TRUE}
          /\ UNCHANGED excused
       \/ /\ May("forward")
          /\ Goto(t, "capacity", "failed")
          /\ excused' = TRUE
          /\ UNCHANGED forwarded
    /\ UNCHANGED <<contVars, started, redirect, timeVars, procVars, execVars,
                   lifeVars, restoreOff, looped>>

\* restore: the new process starts, from the image or, with checkpointing
\* disabled, from scratch; the runc.Container and the phase are replaced.
StartProcess(t) ==
    /\ Goto(t, "create", "post")
    /\ alive = {}
    /\ noCheckpoint \/ image = "full"
    /\ \E p \in Pids \ exits :
          /\ cur' = p
          /\ cont' = p
          /\ alive' = {p}
    /\ scaledDown' = FALSE
    /\ UNCHANGED <<lock, mode, noCheckpoint, image, netVars, timeVars, got,
                   exits, running, checkpointedPIDs, execVars, lifeVars,
                   histVars>>

\* postRestore: the service's runc.Container is replaced, so that the execs of
\* the old one are forgotten, and handleStarted puts the pid into
\* service.running.  preRestore has dropped its exit subscription already, so
\* an exit that was handled before this step is not seen here.
Register ==
    /\ running' = running \cup {cur}
    /\ runningExecs' = 0
    /\ owned' = {}

\* An error of restore: the image is deleted in any case; the first failure
\* disables checkpointing and tries again.
RestoreFailed(t, from, retry) ==
    /\ image' = "none"
    /\ noCheckpoint' = TRUE
    /\ UNCHANGED looped
    /\ \/ /\ ~noCheckpoint
          /\ Goto(t, from, retry)
          /\ restoreOff' = TRUE
          /\ UNCHANGED <<lock, excused>>
       \/ /\ noCheckpoint
          /\ Goto(t, from, "failed")
          /\ Release(t)
          /\ excused' = TRUE
          /\ UNCHANGED restoreOff

\* The container cannot be created or its process cannot be started: runc
\* refuses an id that is in use, CRIU a missing or partial image.
StartFails(t) ==
    /\ \/ /\ \/ May("restore")
             \/ alive # {}
             \/ ~noCheckpoint /\ image # "full"
          /\ RestoreFailed(t, "create", "create")
       \/ RestoreFailed(t, "recreate", "recreate")
    /\ UNCHANGED <<scaledDown, mode, netVars, timeVars, procVars, execVars,
                   lifeVars>>

\* postRestore, then the redirects are disabled and the image is deleted.
PostRestore(t) ==
    /\ ~(started /\ stopped)
    /\ Goto(t, "post", "restored")
    /\ Release(t)
    /\ Register
    /\ got' = [u \in Conns |-> IF u = t THEN cur ELSE got[u]]
    /\ redirect' = FALSE
    /\ image' = "none"
    /\ UNCHANGED <<scaledDown, mode, noCheckpoint, started, forwarded,
                   timeVars, cur, cont, alive, exits, checkpointedPIDs,
                   lifeVars, histVars>>

\* The activator never started, but has its ports: disabling the redirects
\* dereferences a map that was not loaded.  Only an exec gets here.
RedirectsPanic(t) ==
    /\ ~started
    /\ Goto(t, "post", "done")
    /\ panicked' = TRUE
    /\ UNCHANGED <<lock, contVars, netVars, timeVars, procVars, execVars,
                   exited, stopped, histVars>>

\* DisableRedirects fails: restore returns an error although the process runs,
\* and the second attempt finds the id of the container in use.
RedirectsFail(t) ==
    /\ started
    /\ May("redirects") \/ stopped
    /\ RestoreFailed(t, "post", "recreate")
    /\ Register
    /\ UNCHANGED <<scaledDown, mode, netVars, timeVars, cur, cont, got, alive,
                   exits, checkpointedPIDs, lifeVars>>

\* Mutant: the restoreHandler does not schedule the next scale down.
ConnRestored_NoSchedule(t) ==
    /\ t \in Conns
    /\ Goto(t, "restored", "dial")
    /\ cont' = got[t]
    /\ got' = [got EXCEPT ![t] = NoPid]
    /\ UNCHANGED <<lock, contVars, netVars, timeVars, cur, alive, exits,
                   running, checkpointedPIDs, execVars, lifeVars, histVars>>

\* The restoreHandler stores the runc.Container that Restore returned and
\* schedules the next scale down, outside of the mutex.
ConnRestored(t) ==
    /\ t \in Conns
    /\ Goto(t, "restored", "dial")
    /\ cont' = got[t]
    /\ got' = [got EXCEPT ![t] = NoPid]
    /\ ArmTimer
    /\ UNCHANGED <<lock, contVars, netVars, cur, alive, exits, running,
                   checkpointedPIDs, execVars, lifeVars, histVars>>

\* The restore failed for good: the processes are set exited, the container
\* is replaced by nil, the scale down scheduled, and the pid of nil is asked.
ConnFailed(t) ==
    /\ t \in Conns
    /\ Goto(t, "failed", "idle")
    /\ exited' = TRUE
    /\ ArmTimer
    /\ panicked' = TRUE
    /\ UNCHANGED <<lock, contVars, netVars, procVars, execVars, stopped,
                   histVars>>

\* handleConnection dials the application, or the target of the forward, and
\* proxies the connection to it.
Dial(t) ==
    /\ ~redirect \/ forwarded \/ stopped
    /\ Goto(t, "dial", "idle")
    /\ UNCHANGED <<lock, contVars, netVars, timeVars, procVars, execVars,
                   lifeVars, histVars>>

\* With the redirects on, the dial comes back to the activator, which handles
\* it as a connection of its own.  When the outer connection sees its address
\* in lastAddr it disables the redirects; the inner one may not have stored
\* it yet.
DialLoops(t) ==
    /\ redirect /\ ~forwarded /\ ~stopped
    /\ Goto(t, "dial", "want")
    /\ \/ redirect' = FALSE /\ looped' = TRUE
       \/ UNCHANGED <<redirect, looped>>
    /\ UNCHANGED <<lock, contVars, started, forwarded, timeVars, procVars,
                   execVars, lifeVars, excused, restoreOff>>

-----------------------------------------------------------------------------
(* The wrapped task service: Exec, Start and Delete of an exec session. *)

\* Exec cancels the scale down, then reads ScaledDown without the mutex.
ExecBegin(t) ==
    /\ t \in Execs
    /\ Goto(t, "idle", "read")
    /\ ~stopped
    /\ CancelScaleDown
    /\ UNCHANGED <<lock, contVars, netVars, procVars, execVars, lifeVars,
                   histVars>>

ExecReadsPhase(t) ==
    /\ Goto(t, "read", IF scaledDown THEN "want" ELSE "add")
    /\ UNCHANGED <<lock, contVars, netVars, timeVars, procVars, execVars,
                   lifeVars, histVars>>

ExecRestored(t) ==
    /\ t \in Execs
    /\ Goto(t, "restored", "add")
    /\ UNCHANGED <<lock, contVars, netVars, timeVars, procVars, execVars,
                   lifeVars, histVars>>

\* Any other error of Restore sets the processes exited.
ExecFailed(t) ==
    /\ t \in Execs
    /\ Goto(t, "failed", "add")
    /\ exited' = TRUE
    /\ UNCHANGED <<lock, contVars, netVars, timeVars, procVars, execVars,
                   stopped, panicked, histVars>>

\* service.Exec adds the process; it refuses to for an exited container.
ExecAdd(t) ==
    /\ \/ ~exited /\ Goto(t, "add", "added") /\ owned' = owned \cup {t}
       \/ (exited \/ May("exec")) /\ Goto(t, "add", "idle") /\ UNCHANGED owned
    /\ UNCHANGED <<lock, contVars, netVars, timeVars, procVars, runningExecs,
                   lifeVars, histVars>>

\* service.Start counts the session; the count is taken back when the process
\* cannot be started (it was added to a runc.Container that a restore has
\* replaced, or the container has no process), and the session is deleted.
ExecStart(t) ==
    /\ \/ /\ alive # {} /\ t \in owned
          /\ Goto(t, "added", "session")
          /\ runningExecs' = runningExecs + 1
       \/ /\ alive = {} \/ t \notin owned \/ May("exec")
          /\ Goto(t, "added", "ended")
          /\ UNCHANGED runningExecs
    /\ UNCHANGED <<lock, contVars, netVars, timeVars, procVars, owned,
                   lifeVars, histVars>>

\* The exec process exits.  While the container is scaled down the wrapper
\* keeps the exit to itself and drops the counters: the session never ends.
ExecExit(t) ==
    /\ \/ /\ ~scaledDown
          /\ Goto(t, "session", "ended")
          /\ runningExecs' = IF t \in owned THEN runningExecs - 1
                             ELSE runningExecs
       \/ /\ scaledDown
          /\ Goto(t, "session", "done")
          /\ runningExecs' = IF t \in owned THEN 0 ELSE runningExecs
    /\ owned' = owned \ {t}
    /\ UNCHANGED <<lock, contVars, netVars, timeVars, procVars, lifeVars,
                   histVars>>

\* Kill of an exec process: like Kill of the container it waits for the mutex
\* and cancels the scale down; the process may exit later.
ExecKill(t) ==
    /\ pc[t] = "session"
    /\ lock = NoThread
    /\ CancelScaleDown
    /\ UNCHANGED <<ctlVars, contVars, netVars, procVars, execVars, lifeVars,
                   histVars>>

\* Delete of an exec schedules the scale down when no other exec is running
\* in the embedded runc.Container.
ExecDelete(t) ==
    /\ Goto(t, "ended", "idle")
    /\ IF cont # cur \/ runningExecs = 0 THEN ArmTimer ELSE UNCHANGED timeVars
    /\ owned' = owned \ {t}
    /\ UNCHANGED <<lock, contVars, netVars, procVars, runningExecs, lifeVars,
                   histVars>>

-----------------------------------------------------------------------------
(* Kill of the container, without migration. *)

\* The mutex is taken and released at once, "ensure cr is finished".
KillBegin(t) ==
    /\ t \in Kills
    /\ lock = NoThread
    /\ Goto(t, "idle", "barrier")
    /\ UNCHANGED <<lock, contVars, netVars, timeVars, procVars, execVars,
                   lifeVars, histVars>>

\* Kill acts, with Stop: the timer is cancelled, the activator stopped, the
\* image deleted.
Stop ==
    /\ CancelScaleDown
    /\ stopped' = TRUE
    /\ image' = "none"
    /\ excused' = TRUE

\* A scaled down container is set exited and stopped.
KillScaledDown(t) ==
    /\ scaledDown
    /\ Goto(t, "barrier", "done")
    /\ Stop
    /\ exited' = TRUE
    /\ UNCHANGED <<lock, scaledDown, mode, noCheckpoint, netVars, procVars,
                   execVars, panicked, restoreOff, looped>>

KillRunning(t) ==
    /\ ~scaledDown
    /\ Goto(t, "barrier", "signal")
    /\ Stop
    /\ UNCHANGED <<lock, scaledDown, mode, noCheckpoint, netVars, procVars,
                   execVars, exited, panicked, restoreOff, looped>>

\* The process is signalled and dies now or later, and the initial process is
\* set exited; signalling a process that is gone is an error.
KillSignal(t) ==
    /\ Goto(t, "signal", "done")
    /\ \/ /\ cur \in alive
          /\ exited' = TRUE
          /\ \/ UNCHANGED <<alive, exits>>
             \/ alive' = {} /\ exits' = exits \cup alive
       \/ /\ cur \notin alive
          /\ UNCHANGED <<exited, alive, exits>>
    /\ UNCHANGED <<lock, contVars, netVars, timeVars, cur, cont, got, running,
                   checkpointedPIDs, execVars, stopped, panicked, histVars>>

-----------------------------------------------------------------------------
(* processExits and preventExit: the exits the reaper delivers. *)

\* The exit of a process that service.running does not know is dropped.
ExitUnknown(p) ==
    /\ p \in exits \ running
    /\ exits' = exits \ {p}
    /\ UNCHANGED <<ctlVars, contVars, netVars, timeVars, cur, cont, got, alive,
                   running, checkpointedPIDs, execVars, lifeVars, histVars>>

\* preventExit: the exit belongs to a scale down; the counters of the
\* container are dropped with it.
ExitPrevented(p) ==
    /\ p \in exits \cap running
    /\ \/ scaledDown /\ UNCHANGED checkpointedPIDs
       \/ /\ ~scaledDown
          /\ p \in checkpointedPIDs
          /\ checkpointedPIDs' = checkpointedPIDs \ {p}
    /\ exits' = exits \ {p}
    /\ running' = running \ {p}
    /\ runningExecs' = IF p = cur THEN 0 ELSE runningExecs
    /\ UNCHANGED <<ctlVars, contVars, netVars, timeVars, cur, cont, got, alive,
                   owned, lifeVars, histVars>>

\* The exit is handed to the task service and the initial process is set
\* exited.
ExitReported(p) ==
    /\ p \in exits \cap running
    /\ ~scaledDown
    /\ p \notin checkpointedPIDs
    /\ exits' = exits \ {p}
    /\ running' = running \ {p}
    /\ exited' = TRUE
    /\ UNCHANGED <<ctlVars, contVars, netVars, timeVars, cur, cont, got, alive,
                   checkpointedPIDs, execVars, stopped, panicked, histVars>>

-----------------------------------------------------------------------------
\* The shim is gone after a panic; a container that has ended, or that is
\* scaled down, may rest.
Rest ==
    /\ panicked \/ exited \/ stopped \/ scaledDown
    /\ UNCHANGED vars

TimerStep(t) ==
    \/ TimerFires(t) \/ CheckNotStarted(t) \/ CheckRecentActivity(t)
    \/ CheckPastDeadline(t) \/ CheckScaleDown(t) \/ CheckResetFails(t)

ScaleDownStep(t) ==
    \/ LockCheckpoint(t) \/ SnapshotDirFails(t) \/ AddCheckpointedPID(t)
    \/ Dump(t) \/ DumpFails(t)
    \/ LockKill(t) \/ ForceDelete(t) \/ ForceDeleteFails(t)
    \/ SetScaledDown(t)

RestoreStep(t) ==
    \/ LockRestore(t) \/ AlreadyRestored(t)
    \/ CapacityAllowed(t) \/ CapacityDenied(t)
    \/ StartProcess(t) \/ StartFails(t)
    \/ PostRestore(t) \/ RedirectsFail(t) \/ RedirectsPanic(t)

ConnStep(t) == ConnRestored(t) \/ ConnFailed(t) \/ Dial(t) \/ DialLoops(t)

ExecStep(t) ==
    \/ ExecReadsPhase(t) \/ ExecRestored(t) \/ ExecFailed(t)
    \/ ExecAdd(t) \/ ExecStart(t) \/ ExecDelete(t)

KillStep(t) == KillScaledDown(t) \/ KillRunning(t) \/ KillSignal(t)

ReaperStep ==
    \E p \in Pids : ExitUnknown(p) \/ ExitPrevented(p) \/ ExitReported(p)

\* What the shim's goroutines do by themselves.
ThreadStep(t) ==
    \/ TimerStep(t) \/ ScaleDownStep(t) \/ RestoreStep(t) \/ ConnStep(t)
    \/ ExecStep(t) \/ KillStep(t)

\* What clients, the runtime and the application may do.
Environment ==
    \/ Traffic
    \/ Crash
    \/ \E t \in Threads :
          \/ ConnArrives(t) \/ ExecBegin(t) \/ ExecKill(t) \/ ExecExit(t)
          \/ KillBegin(t)

Next ==
    \/ /\ ~panicked
       /\ \/ InitActivator
          \/ Environment
          \/ ReaperStep
          \/ \E t \in Threads : ThreadStep(t)
    \/ Rest

Spec == Init /\ [][Next]_vars

\* The scheduler runs every goroutine and every pending timer, the reaper
\* handles every exit, and sync.Mutex starves nobody who waits for it.
Fairness ==
    /\ WF_vars(~panicked /\ InitActivator)
    /\ WF_vars(~panicked /\ ReaperStep)
    /\ \A t \in Threads :
          /\ WF_vars(~panicked /\ ThreadStep(t))
          /\ SF_vars(~panicked /\ (LockCheckpoint(t) \/ LockKill(t)))
          /\ SF_vars(~panicked /\ (LockRestore(t) \/ AlreadyRestored(t)))

FairSpec == Spec /\ Fairness

-----------------------------------------------------------------------------
(* Properties. *)

CtlOK ==
    /\ lock \in Threads \cup {NoThread}
    /\ pc \in [Threads -> Labels]
    /\ \A t \in Checks : pc[t] \in CheckLabels
    /\ \A t \in Conns : pc[t] \in ConnLabels
    /\ \A t \in Execs : pc[t] \in ExecLabels
    /\ \A t \in Kills : pc[t] \in KillLabels

FlagsOK ==
    /\ scaledDown \in BOOLEAN /\ noCheckpoint \in BOOLEAN
    /\ started \in BOOLEAN /\ redirect \in BOOLEAN /\ forwarded \in BOOLEAN
    /\ timer \in BOOLEAN /\ activity \in BOOLEAN
    /\ exited \in BOOLEAN /\ stopped \in BOOLEAN /\ panicked \in BOOLEAN
    /\ excused \in BOOLEAN /\ restoreOff \in BOOLEAN /\ looped \in BOOLEAN

DataOK ==
    /\ mode \in {"ckpt", "kill"}
    /\ image \in {"none", "partial", "full"}
    /\ cur \in Pids \cup {NoPid}
    /\ cont \in Pids \cup {NoPid}
    /\ got \in [Conns -> Pids \cup {NoPid}]
    /\ alive \subseteq Pids
    /\ exits \subseteq Pids
    /\ running \subseteq Pids
    /\ checkpointedPIDs \subseteq Pids \cup {NoPid}
    /\ runningExecs \in Int
    /\ owned \subseteq Execs

\* The type invariant: where the threads are and who holds the mutex, the
\* flags, and the pids, images and counters.
TypeOK == CtlOK /\ FlagsOK /\ DataOK

\* Nothing ends the container, and no restore of it has failed.
Serving == ~exited /\ ~stopped /\ \A t \in Threads : pc[t] # "failed"

\* To the runtime the container appears to be running although the process is
\* gone: the exit of a scaled down process is never reported, whatever the
\* order of the dump, the phase change and the reaper.  The initial process is
\* set exited only after the application exited by itself, a Kill has found its
\* way to Stop, or both attempts of a restore or the forwarding after a refused
\* capacity failed (preventExit, checkpointedPIDs, restoreHandler, Exec).
ExitHasCause == exited => excused

\* While a container that was scaled down with a checkpoint rests, its image
\* is complete: nobody empties, overwrites or deletes the snapshot before it
\* has been restored (prepareSnapshotDir, deleteImage).
Restorable ==
    scaledDown /\ mode = "ckpt" /\ lock = NoThread /\ Serving
        => image = "full"

\* While a container rests scaled down, its connections are handed to the
\* activator, so the next one wakes it up: no order of Reset before the mutex
\* and DisableRedirects in restore and in resetOnErr leaves it deaf.
Reachable ==
    scaledDown /\ started /\ lock = NoThread /\ Serving /\ ~looped
        => redirect

\* A container that was checkpointed comes back from its image: it is started
\* from scratch only after a restore has failed.
StateSurvives ==
    [][(alive = {} /\ alive' # {} /\ mode = "ckpt")
          => (image = "full" /\ ~noCheckpoint) \/ restoreOff]_vars

\* A container without exec sessions that stays idle is scaled down again: as
\* long as it serves and no traffic is seen, the one-shot timer is set anew on
\* every path through the callback and the restores.  The path that finds the
\* delay negative, because the duration has elapsed between two reads of the
\* clock, is the exception; an exec whose process is refused, or whose counter
\* a prevented exit has dropped, loses the timer too.
ScalesDown ==
    (Execs = {} /\ ~May("clock"))
        => []<>(scaledDown \/ activity \/ ~Serving \/ panicked)

\* A container without exec sessions whose process is gone without anybody
\* having noticed (the exit was taken for that of a checkpoint, or came before
\* handleStarted) does not stay that way once the traffic pauses: it is scaled
\* down, where a connection can wake it, or ends.
LostExitHeals ==
    Execs = {}
        => ((alive = {} /\ ~scaledDown)
               ~> (scaledDown \/ activity \/ alive # {} \/ ~Serving \/ panicked))

\* A connection that finds the container scaled down gets a running process,
\* unless the capacity is refused or the container ends.
Wakes ==
    \A t \in Conns :
        (pc[t] = "want" /\ scaledDown /\ ~May("capacity"))
            ~> (alive # {} \/ excused \/ panicked)
=============================================================================
