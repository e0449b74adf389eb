-------------------------- MODULE ContainerProofs ---------------------------
(***************************************************************************)
(* Proofs about the container, for every number of connections, execs and  *)
(* kills and every set of faults: its types, the CheckpointRestore mutex,  *)
(* the image and the redirects of a container that rests scaled down, the  *)
(* exits that are kept from the runtime, and what a restore starts from.   *)
(***************************************************************************)
EXTENDS ZeropodContainer, TLAPS

USE DEF ctlVars, contVars, netVars, timeVars, procVars, execVars, lifeVars,
        histVars, Goto, Acquire, Release, ArmTimer, CancelScaleDown,
        ReloadConfig, ScaleDownFailed, RestoreFailed, Register, Stop

-----------------------------------------------------------------------------
(* Type correctness. *)

\* restore has started a process before postRestore looks at its pid.
PostHasPid == \A t \in Threads : pc[t] \in {"post", "recreate"} => cur \in Pids

TypeInv == TypeOK /\ PostHasPid

\* wrapper.Start leaves a well typed container.
LEMMA TypeInit == Init => TypeInv
<1> SUFFICES ASSUME Init PROVE TypeInv
  OBVIOUS
<1>1. CtlOK
  BY DEF Init, CtlOK, Labels, CheckLabels, RestoreLabels, ConnLabels,
         ExecLabels, KillLabels, Threads
<1>2. FlagsOK
  BY Zenon, ParamsAssumption DEF Init, FlagsOK
<1>3. DataOK
  BY ParamsAssumption DEF Init, DataOK
<1>4. PostHasPid
  BY DEF Init, PostHasPid
<1> QED
  BY <1>1, <1>2, <1>3, <1>4 DEF TypeOK, TypeInv

\* Every step keeps the goroutines at the labels of their kind.
LEMMA CtlStep == CtlOK /\ [Next]_vars => CtlOK'
<1> SUFFICES ASSUME CtlOK, [Next]_vars PROVE CtlOK'
  BY Zenon
<1> USE ThreadsAssumption
        DEF CtlOK, Labels, CheckLabels,
        RestoreLabels, ConnLabels, ExecLabels, KillLabels, Threads
<1>1. CASE InitActivator \/ Traffic \/ Crash \/ Rest
  BY Zenon, <1>1 DEF InitActivator, Traffic, Crash, Rest, vars
<1>2. ASSUME NEW t \in Threads, TimerStep(t) PROVE CtlOK'
  BY SMTT(30), <1>2 DEF TimerStep, TimerFires, CheckNotStarted, CheckRecentActivity,
         CheckPastDeadline, CheckScaleDown, CheckResetFails
<1>3. ASSUME NEW t \in Threads, ScaleDownStep(t) PROVE CtlOK'
  BY SMTT(30), <1>3 DEF ScaleDownStep, LockCheckpoint, SnapshotDirFails,
         AddCheckpointedPID, Dump, DumpFails, LockKill, ForceDelete,
         ForceDeleteFails, SetScaledDown
<1>4. ASSUME NEW t \in Threads, RestoreStep(t) PROVE CtlOK'
  <2>1. CASE LockRestore(t)
    BY Zenon, <2>1 DEF LockRestore
  <2>2. CASE AlreadyRestored(t)
    BY <2>2 DEF AlreadyRestored
  <2>3. CASE CapacityAllowed(t)
    BY Zenon, <2>3 DEF CapacityAllowed
  <2>4. CASE CapacityDenied(t)
    <3>1. Release(t)
      BY Zenon, <2>4 DEF CapacityDenied
    <3>2. CASE Goto(t, "capacity", IF t \in Execs THEN "idle" ELSE "dial")
      BY <3>1, <3>2
    <3>3. CASE Goto(t, "capacity", "failed")
      BY <3>1, <3>3
    <3> QED
      BY Zenon, <2>4, <3>2, <3>3 DEF CapacityDenied
  <2>5. CASE StartProcess(t)
    BY Zenon, <2>5 DEF StartProcess
  <2>6. CASE StartFails(t)
    BY <2>6 DEF StartFails
  <2>7. CASE PostRestore(t)
    BY Zenon, <2>7 DEF PostRestore
  <2>8. CASE RedirectsFail(t)
    BY <2>8 DEF RedirectsFail
  <2>9. CASE RedirectsPanic(t)
    BY Zenon, <2>9 DEF RedirectsPanic
  <2> QED
    BY Zenon, <1>4, <2>1, <2>2, <2>3, <2>4, <2>5, <2>6, <2>7, <2>8, <2>9
       DEF RestoreStep
<1>5. ASSUME NEW t \in Threads, ConnStep(t) PROVE CtlOK'
  BY SMTT(30), <1>5 DEF ConnStep, ConnRestored, ConnFailed, Dial, DialLoops
<1>6. ASSUME NEW t \in Threads, ExecStep(t) PROVE CtlOK'
  BY <1>6 DEF ExecStep, ExecReadsPhase, ExecRestored, ExecFailed, ExecAdd,
         ExecStart, ExecDelete
<1>7. ASSUME NEW t \in Threads, KillStep(t) PROVE CtlOK'
  BY SMTT(30), <1>7 DEF KillStep, KillScaledDown, KillRunning, KillSignal
<1>8. ASSUME NEW t \in Threads,
            \/ ConnArrives(t) \/ ExecBegin(t) \/ ExecKill(t) \/ ExecExit(t)
            \/ KillBegin(t)
     PROVE  CtlOK'
  BY <1>8 DEF ConnArrives, ExecBegin, ExecKill, ExecExit, KillBegin
<1>9. CASE ReaperStep
  BY <1>9 DEF ReaperStep, ExitUnknown, ExitPrevented, ExitReported
<1>10. CASE UNCHANGED vars
  BY <1>10 DEF vars
<1> QED
  BY Zenon, <1>1, <1>2, <1>3, <1>4, <1>5, <1>6, <1>7, <1>8, <1>9, <1>10
     DEF Next, Environment, ReaperStep, ThreadStep

\* Every step keeps the flags Boolean.
LEMMA FlagsStep == FlagsOK /\ [Next]_vars => FlagsOK'
<1> SUFFICES ASSUME FlagsOK, [Next]_vars PROVE FlagsOK'
  OBVIOUS
<1> USE ParamsAssumption DEF FlagsOK
<1>1. CASE InitActivator \/ Traffic \/ Crash \/ Rest
  <2>1. CASE InitActivator
    BY <2>1 DEF InitActivator
  <2>2. CASE Traffic
    BY <2>2 DEF Traffic
  <2>3. CASE Crash
    BY <2>3 DEF Crash
  <2>4. CASE Rest
    BY <2>4 DEF Rest, vars
  <2> QED
    BY Zenon, <1>1, <2>1, <2>2, <2>3, <2>4
<1>2. ASSUME NEW t \in Threads, TimerStep(t) PROVE FlagsOK'
  <2>1. CASE TimerFires(t)
    <3>1. /\ scaledDown' \in BOOLEAN /\ noCheckpoint' \in BOOLEAN /\ started' \in BOOLEAN
          /\ redirect' \in BOOLEAN /\ forwarded' \in BOOLEAN
      BY Zenon, <2>1 DEF TimerFires
    <3>2. timer' \in BOOLEAN /\ activity' \in BOOLEAN
      BY Zenon, <2>1 DEF TimerFires
    <3>3. exited' \in BOOLEAN /\ stopped' \in BOOLEAN /\ panicked' \in BOOLEAN
      BY Zenon, <2>1 DEF TimerFires
    <3>4. excused' \in BOOLEAN /\ restoreOff' \in BOOLEAN /\ looped' \in BOOLEAN
      BY Zenon, <2>1 DEF TimerFires
    <3> QED
      BY Zenon, <3>1, <3>2, <3>3, <3>4
  <2>2. CASE CheckNotStarted(t)
    BY <2>2 DEF CheckNotStarted
  <2>3. CASE CheckRecentActivity(t)
    BY ZenonT(30), <2>3 DEF CheckRecentActivity
  <2>4. CASE CheckPastDeadline(t)
    <3>1. /\ scaledDown' \in BOOLEAN /\ noCheckpoint' \in BOOLEAN /\ started' \in BOOLEAN
          /\ redirect' \in BOOLEAN /\ forwarded' \in BOOLEAN
      BY Zenon, <2>4 DEF CheckPastDeadline
    <3>2. timer' \in BOOLEAN /\ activity' \in BOOLEAN
      BY Zenon, <2>4 DEF CheckPastDeadline
    <3>3. exited' \in BOOLEAN /\ stopped' \in BOOLEAN /\ panicked' \in BOOLEAN
      BY Zenon, <2>4 DEF CheckPastDeadline
    <3>4. excused' \in BOOLEAN /\ restoreOff' \in BOOLEAN /\ looped' \in BOOLEAN
      BY Zenon, <2>4 DEF CheckPastDeadline
    <3> QED
      BY Zenon, <3>1, <3>2, <3>3, <3>4
  <2>5. CASE CheckScaleDown(t)
    <3>1. /\ scaledDown' \in BOOLEAN /\ noCheckpoint' \in BOOLEAN /\ started' \in BOOLEAN
          /\ redirect' \in BOOLEAN /\ forwarded' \in BOOLEAN
      BY Zenon, <2>5 DEF CheckScaleDown
    <3>2. timer' \in BOOLEAN /\ activity' \in BOOLEAN
      BY Zenon, <2>5 DEF CheckScaleDown
    <3>3. exited' \in BOOLEAN /\ stopped' \in BOOLEAN /\ panicked' \in BOOLEAN
      BY Zenon, <2>5 DEF CheckScaleDown
    <3>4. excused' \in BOOLEAN /\ restoreOff' \in BOOLEAN /\ looped' \in BOOLEAN
      BY Zenon, <2>5 DEF CheckScaleDown
    <3> QED
      BY Zenon, <3>1, <3>2, <3>3, <3>4
  <2>6. CASE CheckResetFails(t)
    BY Zenon, <2>6 DEF CheckResetFails
  <2> QED
    BY Zenon, <1>2, <2>1, <2>2, <2>3, <2>4, <2>5, <2>6 DEF TimerStep
<1>3. ASSUME NEW t \in Threads, ScaleDownStep(t) PROVE FlagsOK'
  <2>1. CASE LockCheckpoint(t)
    BY <2>1 DEF LockCheckpoint
  <2>2. CASE SnapshotDirFails(t)
    BY ZenonT(30), <2>2 DEF SnapshotDirFails
  <2>3. CASE AddCheckpointedPID(t)
    BY <2>3 DEF AddCheckpointedPID
  <2>4. CASE Dump(t)
    BY <2>4 DEF Dump
  <2>5. CASE DumpFails(t)
    <3>1. /\ scaledDown' \in BOOLEAN /\ noCheckpoint' \in BOOLEAN /\ started' \in BOOLEAN
          /\ redirect' \in BOOLEAN /\ forwarded' \in BOOLEAN
      BY Zenon, <2>5 DEF DumpFails
    <3>2. timer' \in BOOLEAN /\ activity' \in BOOLEAN
      BY Zenon, <2>5 DEF DumpFails
    <3>3. exited' \in BOOLEAN /\ stopped' \in BOOLEAN /\ panicked' \in BOOLEAN
      BY Zenon, <2>5 DEF DumpFails
    <3>4. excused' \in BOOLEAN /\ restoreOff' \in BOOLEAN /\ looped' \in BOOLEAN
      BY Zenon, <2>5 DEF DumpFails
    <3> QED
      BY Zenon, <3>1, <3>2, <3>3, <3>4
  <2>6. CASE LockKill(t)
    BY <2>6 DEF LockKill
  <2>7. CASE ForceDelete(t)
    BY <2>7 DEF ForceDelete
  <2>8. CASE ForceDeleteFails(t)
    <3>1. /\ scaledDown' \in BOOLEAN /\ noCheckpoint' \in BOOLEAN /\ started' \in BOOLEAN
          /\ redirect' \in BOOLEAN /\ forwarded' \in BOOLEAN
      BY Zenon, <2>8 DEF ForceDeleteFails
    <3>2. timer' \in BOOLEAN /\ activity' \in BOOLEAN
      BY Zenon, <2>8 DEF ForceDeleteFails
    <3>3. exited' \in BOOLEAN /\ stopped' \in BOOLEAN /\ panicked' \in BOOLEAN
      BY Zenon, <2>8 DEF ForceDeleteFails
    <3>4. excused' \in BOOLEAN /\ restoreOff' \in BOOLEAN /\ looped' \in BOOLEAN
      BY Zenon, <2>8 DEF ForceDeleteFails
    <3> QED
      BY Zenon, <3>1, <3>2, <3>3, <3>4
  <2>9. CASE SetScaledDown(t)
    BY <2>9 DEF SetScaledDown
  <2> QED
    BY Zenon, <1>3, <2>1, <2>2, <2>3, <2>4, <2>5, <2>6, <2>7, <2>8, <2>9
       DEF ScaleDownStep
<1>4. ASSUME NEW t \in Threads, RestoreStep(t) PROVE FlagsOK'
  <2>1. CASE LockRestore(t)
    BY <2>1 DEF LockRestore
  <2>2. CASE AlreadyRestored(t)
    BY <2>2 DEF AlreadyRestored
  <2>3. CASE CapacityAllowed(t)
    BY <2>3 DEF CapacityAllowed
  <2>4. CASE CapacityDenied(t)
    <3>1. forwarded' \in BOOLEAN /\ excused' \in BOOLEAN
      BY Zenon, <2>4 DEF CapacityDenied
    <3>2. UNCHANGED <<contVars, started, redirect, timeVars, lifeVars, restoreOff,
                      looped>>
      BY Zenon, <2>4 DEF CapacityDenied
    <3> QED
      BY Zenon, <3>1, <3>2
  <2>5. CASE StartProcess(t)
    <3>1. /\ scaledDown' \in BOOLEAN /\ noCheckpoint' \in BOOLEAN /\ started' \in BOOLEAN
          /\ redirect' \in BOOLEAN /\ forwarded' \in BOOLEAN
      BY Zenon, <2>5 DEF StartProcess
    <3>2. timer' \in BOOLEAN /\ activity' \in BOOLEAN
      BY Zenon, <2>5 DEF StartProcess
    <3>3. exited' \in BOOLEAN /\ stopped' \in BOOLEAN /\ panicked' \in BOOLEAN
      BY Zenon, <2>5 DEF StartProcess
    <3>4. excused' \in BOOLEAN /\ restoreOff' \in BOOLEAN /\ looped' \in BOOLEAN
      BY Zenon, <2>5 DEF StartProcess
    <3> QED
      BY Zenon, <3>1, <3>2, <3>3, <3>4
  <2>6. CASE StartFails(t)
    <3>1. noCheckpoint' \in BOOLEAN /\ looped' \in BOOLEAN
      BY Zenon, <2>6 DEF StartFails
    <3>2. restoreOff' \in BOOLEAN /\ excused' \in BOOLEAN
      BY Zenon, <2>6 DEF StartFails
    <3> QED
      BY <2>6, <3>1, <3>2 DEF StartFails
  <2>7. CASE PostRestore(t)
    <3>1. /\ scaledDown' \in BOOLEAN /\ noCheckpoint' \in BOOLEAN /\ started' \in BOOLEAN
          /\ redirect' \in BOOLEAN /\ forwarded' \in BOOLEAN
      BY Zenon, <2>7 DEF PostRestore
    <3>2. timer' \in BOOLEAN /\ activity' \in BOOLEAN
      BY Zenon, <2>7 DEF PostRestore
    <3>3. exited' \in BOOLEAN /\ stopped' \in BOOLEAN /\ panicked' \in BOOLEAN
      BY Zenon, <2>7 DEF PostRestore
    <3>4. excused' \in BOOLEAN /\ restoreOff' \in BOOLEAN /\ looped' \in BOOLEAN
      BY Zenon, <2>7 DEF PostRestore
    <3> QED
      BY Zenon, <3>1, <3>2, <3>3, <3>4
  <2>8. CASE RedirectsFail(t)
    <3>1. /\ scaledDown' \in BOOLEAN /\ noCheckpoint' \in BOOLEAN /\ started' \in BOOLEAN
          /\ redirect' \in BOOLEAN /\ forwarded' \in BOOLEAN
      BY Zenon, <2>8 DEF RedirectsFail
    <3>2. timer' \in BOOLEAN /\ activity' \in BOOLEAN
      BY Zenon, <2>8 DEF RedirectsFail
    <3>3. exited' \in BOOLEAN /\ stopped' \in BOOLEAN /\ panicked' \in BOOLEAN
      BY Zenon, <2>8 DEF RedirectsFail
    <3>4. excused' \in BOOLEAN /\ restoreOff' \in BOOLEAN /\ looped' \in BOOLEAN
      BY Zenon, <2>8 DEF RedirectsFail
    <3> QED
      BY Zenon, <3>1, <3>2, <3>3, <3>4
  <2>9. CASE RedirectsPanic(t)
    BY <2>9 DEF RedirectsPanic
  <2> QED
    BY Zenon, <1>4, <2>1, <2>2, <2>3, <2>4, <2>5, <2>6, <2>7, <2>8, <2>9
       DEF RestoreStep
<1>5. ASSUME NEW t \in Threads, ConnStep(t) PROVE FlagsOK'
  <2>1. CASE ConnRestored(t)
    <3>1. /\ scaledDown' \in BOOLEAN /\ noCheckpoint' \in BOOLEAN /\ started' \in BOOLEAN
          /\ redirect' \in BOOLEAN /\ forwarded' \in BOOLEAN
      BY Zenon, <2>1 DEF ConnRestored
    <3>2. timer' \in BOOLEAN /\ activity' \in BOOLEAN
      BY Zenon, <2>1 DEF ConnRestored
    <3>3. exited' \in BOOLEAN /\ stopped' \in BOOLEAN /\ panicked' \in BOOLEAN
      BY Zenon, <2>1 DEF ConnRestored
    <3>4. excused' \in BOOLEAN /\ restoreOff' \in BOOLEAN /\ looped' \in BOOLEAN
      BY Zenon, <2>1 DEF ConnRestored
    <3> QED
      BY Zenon, <3>1, <3>2, <3>3, <3>4
  <2>2. CASE ConnFailed(t)
    <3>1. /\ scaledDown' \in BOOLEAN /\ noCheckpoint' \in BOOLEAN /\ started' \in BOOLEAN
          /\ redirect' \in BOOLEAN /\ forwarded' \in BOOLEAN
      BY Zenon, <2>2 DEF ConnFailed
    <3>2. timer' \in BOOLEAN /\ activity' \in BOOLEAN
      BY Zenon, <2>2 DEF ConnFailed
    <3>3. exited' \in BOOLEAN /\ stopped' \in BOOLEAN /\ panicked' \in BOOLEAN
      BY Zenon, <2>2 DEF ConnFailed
    <3>4. excused' \in BOOLEAN /\ restoreOff' \in BOOLEAN /\ looped' \in BOOLEAN
      BY Zenon, <2>2 DEF ConnFailed
    <3> QED
      BY Zenon, <3>1, <3>2, <3>3, <3>4
  <2>3. CASE Dial(t)
    BY <2>3 DEF Dial
  <2>4. CASE DialLoops(t)
    <3>1. /\ scaledDown' \in BOOLEAN /\ noCheckpoint' \in BOOLEAN /\ started' \in BOOLEAN
          /\ redirect' \in BOOLEAN /\ forwarded' \in BOOLEAN
      BY Zenon, <2>4 DEF DialLoops
    <3>2. timer' \in BOOLEAN /\ activity' \in BOOLEAN
      BY Zenon, <2>4 DEF DialLoops
    <3>3. exited' \in BOOLEAN /\ stopped' \in BOOLEAN /\ panicked' \in BOOLEAN
      BY Zenon, <2>4 DEF DialLoops
    <3>4. excused' \in BOOLEAN /\ restoreOff' \in BOOLEAN /\ looped' \in BOOLEAN
      BY Zenon, <2>4 DEF DialLoops
    <3> QED
      BY Zenon, <3>1, <3>2, <3>3, <3>4
  <2> QED
    BY Zenon, <1>5, <2>1, <2>2, <2>3, <2>4 DEF ConnStep
<1>6. ASSUME NEW t \in Threads, ExecStep(t) PROVE FlagsOK'
  <2>1. CASE ExecReadsPhase(t)
    BY <2>1 DEF ExecReadsPhase
  <2>2. CASE ExecRestored(t)
    BY <2>2 DEF ExecRestored
  <2>3. CASE ExecFailed(t)
    BY <2>3 DEF ExecFailed
  <2>4. CASE ExecAdd(t)
    BY <2>4 DEF ExecAdd
  <2>5. CASE ExecStart(t)
    BY <2>5 DEF ExecStart
  <2>6. CASE ExecDelete(t)
    <3>1. timer' \in BOOLEAN /\ activity' \in BOOLEAN
      BY Zenon, <2>6 DEF ExecDelete
    <3> QED
      BY <2>6, <3>1 DEF ExecDelete
  <2> QED
    BY <1>6, <2>1, <2>2, <2>3, <2>4, <2>5, <2>6 DEF ExecStep
<1>7. ASSUME NEW t \in Threads, KillStep(t) PROVE FlagsOK'
  <2>1. CASE KillScaledDown(t)
    BY Zenon, <2>1 DEF KillScaledDown
  <2>2. CASE KillRunning(t)
    <3>1. /\ scaledDown' \in BOOLEAN /\ noCheckpoint' \in BOOLEAN /\ started' \in BOOLEAN
          /\ redirect' \in BOOLEAN /\ forwarded' \in BOOLEAN
      BY Zenon, <2>2 DEF KillRunning
    <3>2. timer' \in BOOLEAN /\ activity' \in BOOLEAN
      BY Zenon, <2>2 DEF KillRunning
    <3>3. exited' \in BOOLEAN /\ stopped' \in BOOLEAN /\ panicked' \in BOOLEAN
      BY Zenon, <2>2 DEF KillRunning
    <3>4. excused' \in BOOLEAN /\ restoreOff' \in BOOLEAN /\ looped' \in BOOLEAN
      BY Zenon, <2>2 DEF KillRunning
    <3> QED
      BY Zenon, <3>1, <3>2, <3>3, <3>4
  <2>3. CASE KillSignal(t)
    <3>1. exited' \in BOOLEAN
      BY Zenon, <2>3 DEF KillSignal
    <3> QED
      BY <2>3, <3>1 DEF KillSignal
  <2> QED
    BY Zenon, <1>7, <2>1, <2>2, <2>3 DEF KillStep
<1>8. ASSUME NEW t \in Threads,
            \/ ConnArrives(t) \/ ExecBegin(t) \/ ExecKill(t) \/ ExecExit(t)
            \/ KillBegin(t)
     PROVE  FlagsOK'
  <2>1. CASE ConnArrives(t)
    BY <2>1 DEF ConnArrives
  <2>2. CASE ExecBegin(t)
    <3>1. /\ scaledDown' \in BOOLEAN /\ noCheckpoint' \in BOOLEAN /\ started' \in BOOLEAN
          /\ redirect' \in BOOLEAN /\ forwarded' \in BOOLEAN
      BY Zenon, <2>2 DEF ExecBegin
    <3>2. timer' \in BOOLEAN /\ activity' \in BOOLEAN
      BY Zenon, <2>2 DEF ExecBegin
    <3>3. exited' \in BOOLEAN /\ stopped' \in BOOLEAN /\ panicked' \in BOOLEAN
      BY Zenon, <2>2 DEF ExecBegin
    <3>4. excused' \in BOOLEAN /\ restoreOff' \in BOOLEAN /\ looped' \in BOOLEAN
      BY Zenon, <2>2 DEF ExecBegin
    <3> QED
      BY Zenon, <3>1, <3>2, <3>3, <3>4
  <2>3. CASE ExecKill(t)
    <3>1. /\ scaledDown' \in BOOLEAN /\ noCheckpoint' \in BOOLEAN /\ started' \in BOOLEAN
          /\ redirect' \in BOOLEAN /\ forwarded' \in BOOLEAN
      BY Zenon, <2>3 DEF ExecKill
    <3>2. timer' \in BOOLEAN /\ activity' \in BOOLEAN
      BY Zenon, <2>3 DEF ExecKill
    <3>3. exited' \in BOOLEAN /\ stopped' \in BOOLEAN /\ panicked' \in BOOLEAN
      BY Zenon, <2>3 DEF ExecKill
    <3>4. excused' \in BOOLEAN /\ restoreOff' \in BOOLEAN /\ looped' \in BOOLEAN
      BY Zenon, <2>3 DEF ExecKill
    <3> QED
      BY Zenon, <3>1, <3>2, <3>3, <3>4
  <2>4. CASE ExecExit(t)
    BY <2>4 DEF ExecExit
  <2>5. CASE KillBegin(t)
    BY <2>5 DEF KillBegin
  <2> QED
    BY Zenon, <1>8, <2>1, <2>2, <2>3, <2>4, <2>5
<1>9. ASSUME NEW p \in Pids,
            ExitUnknown(p) \/ ExitPrevented(p) \/ ExitReported(p)
     PROVE  FlagsOK'
  <2>1. CASE ExitUnknown(p)
    BY <2>1 DEF ExitUnknown
  <2>2. CASE ExitPrevented(p)
    BY <2>2 DEF ExitPrevented
  <2>3. CASE ExitReported(p)
    BY <2>3 DEF ExitReported
  <2> QED
    BY <1>9, <2>1, <2>2, <2>3
<1>10. CASE UNCHANGED vars
  BY <1>10 DEF vars
<1> QED
  BY Zenon, <1>1, <1>2, <1>3, <1>4, <1>5, <1>6, <1>7, <1>8, <1>9, <1>10
     DEF Next, Environment, ReaperStep, ThreadStep

\* Every step keeps the pids, the image and the counters in their sets; the pid
\* that handleStarted registers is one, because the process was started.
LEMMA DataStep ==
    CtlOK /\ DataOK /\ PostHasPid /\ [Next]_vars => DataOK'
<1> SUFFICES ASSUME CtlOK, DataOK, PostHasPid, [Next]_vars PROVE DataOK'
  BY Zenon
<1> USE ParamsAssumption DEF PostHasPid, DataOK
<1>0. 0 \in Int
  OBVIOUS
<1>1. CASE InitActivator \/ Traffic \/ Crash \/ Rest
  <2>1. CASE InitActivator
    BY Zenon, <2>1 DEF InitActivator
  <2>2. CASE Traffic
    BY Zenon, <2>2 DEF Traffic
  <2>3. CASE Crash
    BY Zenon, <2>3 DEF Crash
  <2>4. CASE Rest
    BY Zenon, <2>4 DEF Rest, vars
  <2> QED
    BY Zenon, <1>1, <2>1, <2>2, <2>3, <2>4
<1>2. ASSUME NEW t \in Threads, TimerStep(t) PROVE DataOK'
  <2>1. CASE TimerFires(t)
    BY Zenon, <2>1 DEF TimerFires
  <2>2. CASE CheckNotStarted(t)
    BY Zenon, <2>2 DEF CheckNotStarted
  <2>3. CASE CheckRecentActivity(t)
    BY Zenon, <2>3 DEF CheckRecentActivity
  <2>4. CASE CheckPastDeadline(t)
    BY Zenon, <2>4 DEF CheckPastDeadline
  <2>5. CASE CheckScaleDown(t)
    BY Zenon, <2>5 DEF CheckScaleDown
  <2>6. CASE CheckResetFails(t)
    BY Zenon, <2>6 DEF CheckResetFails
  <2> QED
    BY Zenon, <1>2, <2>1, <2>2, <2>3, <2>4, <2>5, <2>6 DEF TimerStep
<1>3. ASSUME NEW t \in Threads, ScaleDownStep(t) PROVE DataOK'
  <2>1. CASE LockCheckpoint(t)
    BY Zenon, <2>1 DEF LockCheckpoint
  <2>2. CASE SnapshotDirFails(t)
    BY Zenon, <2>2 DEF SnapshotDirFails
  <2>3. CASE AddCheckpointedPID(t)
    BY Zenon, <2>3 DEF AddCheckpointedPID
  <2>4. CASE Dump(t)
    BY Zenon, <2>4 DEF Dump
  <2>5. CASE DumpFails(t)
    BY Zenon, <2>5 DEF DumpFails
  <2>6. CASE LockKill(t)
    BY Zenon, <2>6 DEF LockKill
  <2>7. CASE ForceDelete(t)
    BY Zenon, <2>7 DEF ForceDelete
  <2>8. CASE ForceDeleteFails(t)
    BY Zenon, <2>8 DEF ForceDeleteFails
  <2>9. CASE SetScaledDown(t)
    BY Zenon, <2>9 DEF SetScaledDown
  <2> QED
    BY Zenon, <1>3, <2>1, <2>2, <2>3, <2>4, <2>5, <2>6, <2>7, <2>8, <2>9 DEF
       ScaleDownStep
<1>4. ASSUME NEW t \in Threads, RestoreStep(t) PROVE DataOK'
  <2>1. CASE LockRestore(t)
    BY Zenon, <2>1 DEF LockRestore
  <2>2. CASE AlreadyRestored(t)
    BY Zenon, <2>2 DEF AlreadyRestored
  <2>3. CASE CapacityAllowed(t)
    BY Zenon, <2>3 DEF CapacityAllowed
  <2>4. CASE CapacityDenied(t)
    BY Zenon, <2>4 DEF CapacityDenied
  <2>5. CASE StartProcess(t)
    BY <2>5 DEF StartProcess
  <2>6. CASE StartFails(t)
    BY Zenon, <2>6 DEF StartFails
  <2>7. CASE PostRestore(t)
    BY Zenon, <1>0, <2>7 DEF PostRestore
  <2>8. CASE RedirectsFail(t)
    BY Zenon, <1>0, <2>8 DEF RedirectsFail
  <2>9. CASE RedirectsPanic(t)
    BY Zenon, <2>9 DEF RedirectsPanic
  <2> QED
    BY Zenon, <1>4, <2>1, <2>2, <2>3, <2>4, <2>5, <2>6, <2>7, <2>8, <2>9
       DEF RestoreStep
<1>5. ASSUME NEW t \in Threads, ConnStep(t) PROVE DataOK'
  <2>1. CASE ConnRestored(t)
    BY Zenon, <2>1 DEF ConnRestored
  <2>2. CASE ConnFailed(t)
    BY Zenon, <2>2 DEF ConnFailed
  <2>3. CASE Dial(t)
    BY Zenon, <2>3 DEF Dial
  <2>4. CASE DialLoops(t)
    BY Zenon, <2>4 DEF DialLoops
  <2> QED
    BY Zenon, <1>5, <2>1, <2>2, <2>3, <2>4 DEF ConnStep
<1>6. ASSUME NEW t \in Threads, ExecStep(t) PROVE DataOK'
  <2>1. CASE ExecReadsPhase(t)
    BY Zenon, <2>1 DEF ExecReadsPhase
  <2>2. CASE ExecRestored(t)
    BY Zenon, <2>2 DEF ExecRestored
  <2>3. CASE ExecFailed(t)
    BY Zenon, <2>3 DEF ExecFailed
  <2>4. CASE ExecAdd(t)
    <3>1. t \in Execs
      BY Zenon, <2>4, ThreadsAssumption
         DEF ExecAdd, CtlOK, CheckLabels, ConnLabels, RestoreLabels,
             KillLabels, Threads
    <3> QED
      BY Zenon, <2>4, <3>1 DEF ExecAdd
  <2>5. CASE ExecStart(t)
    BY <2>5 DEF ExecStart
  <2>6. CASE ExecDelete(t)
    BY Zenon, <2>6 DEF ExecDelete
  <2> QED
    BY Zenon, <1>6, <2>1, <2>2, <2>3, <2>4, <2>5, <2>6 DEF ExecStep
<1>7. ASSUME NEW t \in Threads, KillStep(t) PROVE DataOK'
  <2>1. CASE KillScaledDown(t)
    BY Zenon, <2>1 DEF KillScaledDown
  <2>2. CASE KillRunning(t)
    BY Zenon, <2>2 DEF KillRunning
  <2>3. CASE KillSignal(t)
    BY Zenon, <2>3 DEF KillSignal
  <2> QED
    BY Zenon, <1>7, <2>1, <2>2, <2>3 DEF KillStep
<1>8. ASSUME NEW t \in Threads,
            \/ ConnArrives(t) \/ ExecBegin(t) \/ ExecKill(t) \/ ExecExit(t)
            \/ KillBegin(t)
     PROVE  DataOK'
  <2>1. CASE ConnArrives(t)
    BY Zenon, <2>1 DEF ConnArrives
  <2>2. CASE ExecBegin(t)
    BY Zenon, <2>2 DEF ExecBegin
  <2>3. CASE ExecKill(t)
    BY Zenon, <2>3 DEF ExecKill
  <2>4. CASE ExecExit(t)
    BY <2>4 DEF ExecExit
  <2>5. CASE KillBegin(t)
    BY Zenon, <2>5 DEF KillBegin
  <2> QED
    BY Zenon, <1>8, <2>1, <2>2, <2>3, <2>4, <2>5
<1>9. CASE ReaperStep
  <2>1. ASSUME NEW p \in Pids, ExitUnknown(p) PROVE DataOK'
    BY Zenon, <2>1 DEF ExitUnknown
  <2>2. ASSUME NEW p \in Pids, ExitPrevented(p) PROVE DataOK'
    BY <2>2 DEF ExitPrevented
  <2>3. ASSUME NEW p \in Pids, ExitReported(p) PROVE DataOK'
    BY Zenon, <2>3 DEF ExitReported
  <2> QED
    BY Zenon, <1>9, <2>1, <2>2, <2>3 DEF ReaperStep
<1>10. CASE UNCHANGED vars
  BY <1>10 DEF vars
<1> QED
  BY Zenon, <1>1, <1>2, <1>3, <1>4, <1>5, <1>6, <1>7, <1>8, <1>9, <1>10
     DEF Next, Environment, ReaperStep, ThreadStep

\* One goroutine goes on to l.
Moves(t, l) == pc' = [pc EXCEPT ![t] = l]

\* Where the goroutines are after a step of one of them.
LEMMA PcMoves ==
    ASSUME CtlOK, NEW t \in Threads, NEW l, Moves(t, l)
    PROVE  \A u \in Threads : pc'[u] = IF u = t THEN l ELSE pc[u]
  BY DEF CtlOK, Moves

\* A step that keeps the pid, and does not enter postRestore.
LEMMA PostMoves ==
    ASSUME CtlOK, PostHasPid, NEW t \in Threads, NEW l, Moves(t, l), cur' = cur,
           l \in {"post", "recreate"} => pc[t] \in {"post", "recreate"}
    PROVE  PostHasPid'
<1>1. \A u \in Threads : pc'[u] = IF u = t THEN l ELSE pc[u]
  BY Zenon, PcMoves
<1> QED BY Zenon, <1>1 DEF PostHasPid

\* A step that moves nobody.
LEMMA PostStill == ASSUME PostHasPid, UNCHANGED <<pc, cur>> PROVE PostHasPid'
  BY Zenon DEF PostHasPid

\* A process that was started keeps its pid until postRestore has seen it.
LEMMA PostStep == CtlOK /\ PostHasPid /\ [Next]_vars => PostHasPid'
<1> SUFFICES ASSUME CtlOK, PostHasPid, [Next]_vars PROVE PostHasPid'
  BY Zenon
<1>1. CASE InitActivator \/ Traffic \/ Crash \/ Rest
  <2>1. CASE InitActivator
    BY Zenon, <2>1, PostStill DEF InitActivator
  <2>2. CASE Traffic
    BY Zenon, <2>2, PostStill DEF Traffic
  <2>3. CASE Crash
    BY Zenon, <2>3, PostStill DEF Crash
  <2>4. CASE Rest
    BY Zenon, <2>4, PostStill DEF Rest, vars
  <2> QED
    BY Zenon, <1>1, <2>1, <2>2, <2>3, <2>4
<1>2. ASSUME NEW t \in Threads, TimerStep(t) PROVE PostHasPid'
  <2>1. CASE TimerFires(t)
    <3>1. Moves(t, "check") /\ cur' = cur
      BY Zenon, <2>1 DEF TimerFires, Moves
    <3> QED BY Zenon, <3>1, PostMoves
  <2>2. CASE CheckNotStarted(t)
    <3>1. Moves(t, "idle") /\ cur' = cur
      BY Zenon, <2>2 DEF CheckNotStarted, Moves
    <3> QED BY Zenon, <3>1, PostMoves
  <2>3. CASE CheckRecentActivity(t)
    <3>1. Moves(t, "idle") /\ cur' = cur
      BY Zenon, <2>3 DEF CheckRecentActivity, Moves
    <3> QED BY Zenon, <3>1, PostMoves
  <2>4. CASE CheckPastDeadline(t)
    <3>1. Moves(t, "idle") /\ cur' = cur
      BY Zenon, <2>4 DEF CheckPastDeadline, Moves
    <3> QED BY Zenon, <3>1, PostMoves
  <2>5. CASE CheckScaleDown(t)
    <3>1. (Moves(t, "idle") \/ Moves(t, "wantKill") \/ Moves(t, "wantCheckpoint")) /\ cur' = cur
      BY Zenon, <2>5 DEF CheckScaleDown, Moves
    <3> QED BY Zenon, <3>1, PostMoves
  <2>6. CASE CheckResetFails(t)
    <3>1. Moves(t, "idle") /\ cur' = cur
      BY Zenon, <2>6 DEF CheckResetFails, Moves
    <3> QED BY Zenon, <3>1, PostMoves
  <2> QED
    BY Zenon, <1>2, <2>1, <2>2, <2>3, <2>4, <2>5, <2>6 DEF TimerStep
<1>3. ASSUME NEW t \in Threads, ScaleDownStep(t) PROVE PostHasPid'
  <2>1. CASE LockCheckpoint(t)
    <3>1. Moves(t, "prepare") /\ cur' = cur
      BY Zenon, <2>1 DEF LockCheckpoint, Moves
    <3> QED BY Zenon, <3>1, PostMoves
  <2>2. CASE SnapshotDirFails(t)
    <3>1. Moves(t, "idle") /\ cur' = cur
      BY Zenon, <2>2 DEF SnapshotDirFails, Moves
    <3> QED BY Zenon, <3>1, PostMoves
  <2>3. CASE AddCheckpointedPID(t)
    <3>1. Moves(t, "dump") /\ cur' = cur
      BY Zenon, <2>3 DEF AddCheckpointedPID, Moves
    <3> QED BY Zenon, <3>1, PostMoves
  <2>4. CASE Dump(t)
    <3>1. Moves(t, "dumped") /\ cur' = cur
      BY Zenon, <2>4 DEF Dump, Moves
    <3> QED BY Zenon, <3>1, PostMoves
  <2>5. CASE DumpFails(t)
    <3>1. Moves(t, "idle") /\ cur' = cur
      BY Zenon, <2>5 DEF DumpFails, Moves
    <3> QED BY Zenon, <3>1, PostMoves
  <2>6. CASE LockKill(t)
    <3>1. Moves(t, "killing") /\ cur' = cur
      BY Zenon, <2>6 DEF LockKill, Moves
    <3> QED BY Zenon, <3>1, PostMoves
  <2>7. CASE ForceDelete(t)
    <3>1. Moves(t, "dumped") /\ cur' = cur
      BY Zenon, <2>7 DEF ForceDelete, Moves
    <3> QED BY Zenon, <3>1, PostMoves
  <2>8. CASE ForceDeleteFails(t)
    <3>1. Moves(t, "idle") /\ cur' = cur
      BY Zenon, <2>8 DEF ForceDeleteFails, Moves
    <3> QED BY Zenon, <3>1, PostMoves
  <2>9. CASE SetScaledDown(t)
    <3>1. Moves(t, "idle") /\ cur' = cur
      BY Zenon, <2>9 DEF SetScaledDown, Moves
    <3> QED BY Zenon, <3>1, PostMoves
  <2> QED
    BY Zenon, <1>3, <2>1, <2>2, <2>3, <2>4, <2>5, <2>6, <2>7, <2>8, <2>9 DEF
       ScaleDownStep
<1>4. ASSUME NEW t \in Threads, RestoreStep(t) PROVE PostHasPid'
  <2>1. CASE LockRestore(t)
    <3>1. Moves(t, "capacity") /\ cur' = cur
      BY Zenon, <2>1 DEF LockRestore, Moves
    <3> QED BY Zenon, <3>1, PostMoves
  <2>2. CASE AlreadyRestored(t)
    <3>1. (Moves(t, "failed") \/ Moves(t, "dial")) /\ cur' = cur
      BY Zenon, <2>2 DEF AlreadyRestored, Moves
    <3> QED BY Zenon, <3>1, PostMoves
  <2>3. CASE CapacityAllowed(t)
    <3>1. Moves(t, "create") /\ cur' = cur
      BY Zenon, <2>3 DEF CapacityAllowed, Moves
    <3> QED BY Zenon, <3>1, PostMoves
  <2>4. CASE CapacityDenied(t)
    <3>1. /\ Moves(t, "idle") \/ Moves(t, "dial") \/ Moves(t, "failed")
          /\ cur' = cur
      BY Zenon, <2>4 DEF CapacityDenied, Moves
    <3> QED BY Zenon, <3>1, PostMoves
  <2>5. CASE StartProcess(t)
    <3>1. cur' \in Pids
      BY Zenon, <2>5 DEF StartProcess
    <3> QED BY Zenon, <3>1 DEF PostHasPid
  <2>6. CASE StartFails(t)
    <3>1. /\ \/ Moves(t, "create") \/ Moves(t, "failed")
             \/ pc[t] = "recreate" /\ Moves(t, "recreate")
          /\ cur' = cur
      BY Zenon, <2>6 DEF StartFails, Moves
    <3> QED BY Zenon, <3>1, PostMoves
  <2>7. CASE PostRestore(t)
    <3>1. Moves(t, "restored") /\ cur' = cur
      BY Zenon, <2>7 DEF PostRestore, Moves
    <3> QED BY Zenon, <3>1, PostMoves
  <2>8. CASE RedirectsFail(t)
    <3>1. pc[t] = "post" /\ (Moves(t, "recreate") \/ Moves(t, "failed")) /\ cur' = cur
      BY Zenon, <2>8 DEF RedirectsFail, Moves
    <3> QED BY Zenon, <3>1, PostMoves
  <2>9. CASE RedirectsPanic(t)
    <3>1. Moves(t, "done") /\ cur' = cur
      BY Zenon, <2>9 DEF RedirectsPanic, Moves
    <3> QED BY Zenon, <3>1, PostMoves
  <2> QED
    BY Zenon, <1>4, <2>1, <2>2, <2>3, <2>4, <2>5, <2>6, <2>7, <2>8, <2>9 DEF
       RestoreStep
<1>5. ASSUME NEW t \in Threads, ConnStep(t) PROVE PostHasPid'
  <2>1. CASE ConnRestored(t)
    <3>1. Moves(t, "dial") /\ cur' = cur
      BY Zenon, <2>1 DEF ConnRestored, Moves
    <3> QED BY Zenon, <3>1, PostMoves
  <2>2. CASE ConnFailed(t)
    <3>1. Moves(t, "idle") /\ cur' = cur
      BY Zenon, <2>2 DEF ConnFailed, Moves
    <3> QED BY Zenon, <3>1, PostMoves
  <2>3. CASE Dial(t)
    <3>1. Moves(t, "idle") /\ cur' = cur
      BY Zenon, <2>3 DEF Dial, Moves
    <3> QED BY Zenon, <3>1, PostMoves
  <2>4. CASE DialLoops(t)
    <3>1. Moves(t, "want") /\ cur' = cur
      BY Zenon, <2>4 DEF DialLoops, Moves
    <3> QED BY Zenon, <3>1, PostMoves
  <2> QED
    BY Zenon, <1>5, <2>1, <2>2, <2>3, <2>4 DEF ConnStep
<1>6. ASSUME NEW t \in Threads, ExecStep(t) PROVE PostHasPid'
  <2>1. CASE ExecReadsPhase(t)
    <3>1. (Moves(t, "want") \/ Moves(t, "add")) /\ cur' = cur
      BY Zenon, <2>1 DEF ExecReadsPhase, Moves
    <3> QED BY Zenon, <3>1, PostMoves
  <2>2. CASE ExecRestored(t)
    <3>1. Moves(t, "add") /\ cur' = cur
      BY Zenon, <2>2 DEF ExecRestored, Moves
    <3> QED BY Zenon, <3>1, PostMoves
  <2>3. CASE ExecFailed(t)
    <3>1. Moves(t, "add") /\ cur' = cur
      BY Zenon, <2>3 DEF ExecFailed, Moves
    <3> QED BY Zenon, <3>1, PostMoves
  <2>4. CASE ExecAdd(t)
    <3>1. (Moves(t, "added") \/ Moves(t, "idle")) /\ cur' = cur
      BY Zenon, <2>4 DEF ExecAdd, Moves
    <3> QED BY Zenon, <3>1, PostMoves
  <2>5. CASE ExecStart(t)
    <3>1. (Moves(t, "session") \/ Moves(t, "ended")) /\ cur' = cur
      BY Zenon, <2>5 DEF ExecStart, Moves
    <3> QED BY Zenon, <3>1, PostMoves
  <2>6. CASE ExecDelete(t)
    <3>1. Moves(t, "idle") /\ cur' = cur
      BY Zenon, <2>6 DEF ExecDelete, Moves
    <3> QED BY Zenon, <3>1, PostMoves
  <2> QED
    BY Zenon, <1>6, <2>1, <2>2, <2>3, <2>4, <2>5, <2>6 DEF ExecStep
<1>7. ASSUME NEW t \in Threads, KillStep(t) PROVE PostHasPid'
  <2>1. CASE KillScaledDown(t)
    <3>1. Moves(t, "done") /\ cur' = cur
      BY Zenon, <2>1 DEF KillScaledDown, Moves
    <3> QED BY Zenon, <3>1, PostMoves
  <2>2. CASE KillRunning(t)
    <3>1. Moves(t, "signal") /\ cur' = cur
      BY Zenon, <2>2 DEF KillRunning, Moves
    <3> QED BY Zenon, <3>1, PostMoves
  <2>3. CASE KillSignal(t)
    <3>1. Moves(t, "done") /\ cur' = cur
      BY Zenon, <2>3 DEF KillSignal, Moves
    <3> QED BY Zenon, <3>1, PostMoves
  <2> QED
    BY Zenon, <1>7, <2>1, <2>2, <2>3 DEF KillStep
<1>8. ASSUME NEW t \in Threads,
            \/ ConnArrives(t) \/ ExecBegin(t) \/ ExecKill(t) \/ ExecExit(t)
            \/ KillBegin(t)
     PROVE  PostHasPid'
  <2>1. CASE ConnArrives(t)
    <3>1. Moves(t, "want") /\ cur' = cur
      BY Zenon, <2>1 DEF ConnArrives, Moves
    <3> QED BY Zenon, <3>1, PostMoves
  <2>2. CASE ExecBegin(t)
    <3>1. Moves(t, "read") /\ cur' = cur
      BY Zenon, <2>2 DEF ExecBegin, Moves
    <3> QED BY Zenon, <3>1, PostMoves
  <2>3. CASE ExecKill(t)
    BY Zenon, <2>3, PostStill DEF ExecKill
  <2>4. CASE ExecExit(t)
    <3>1. (Moves(t, "ended") \/ Moves(t, "done")) /\ cur' = cur
      BY Zenon, <2>4 DEF ExecExit, Moves
    <3> QED BY Zenon, <3>1, PostMoves
  <2>5. CASE KillBegin(t)
    <3>1. Moves(t, "barrier") /\ cur' = cur
      BY Zenon, <2>5 DEF KillBegin, Moves
    <3> QED BY Zenon, <3>1, PostMoves
  <2> QED
    BY Zenon, <1>8, <2>1, <2>2, <2>3, <2>4, <2>5
<1>9. CASE ReaperStep
  <2>1. ASSUME NEW p \in Pids, ExitUnknown(p) PROVE PostHasPid'
    BY Zenon, <2>1, PostStill DEF ExitUnknown
  <2>2. ASSUME NEW p \in Pids, ExitPrevented(p) PROVE PostHasPid'
    BY Zenon, <2>2, PostStill DEF ExitPrevented
  <2>3. ASSUME NEW p \in Pids, ExitReported(p) PROVE PostHasPid'
    BY Zenon, <2>3, PostStill DEF ExitReported
  <2> QED
    BY Zenon, <1>9, <2>1, <2>2, <2>3 DEF ReaperStep
<1>10. CASE UNCHANGED vars
  BY Zenon, <1>10, PostStill DEF vars
<1> QED
  BY Zenon, <1>1, <1>2, <1>3, <1>4, <1>5, <1>6, <1>7, <1>8, <1>9, <1>10
     DEF Next, Environment, ReaperStep, ThreadStep

\* The type invariant with its strengthening holds in every state.
LEMMA TypeInvariant == Spec => []TypeInv
<1>1. TypeInv /\ [Next]_vars => TypeInv'
  BY CtlStep, FlagsStep, DataStep, PostStep DEF TypeInv, TypeOK
<1> QED
  BY TypeInit, <1>1, PTL DEF Spec

\* Every behaviour of the shim is well typed: the goroutines stay in the code
\* of their kind, and the pids, images and flags stay in their sets.
THEOREM TypeCorrect == Spec => []TypeOK
<1>1. TypeInv => TypeOK
  BY DEF TypeInv
<1> QED
  BY TypeInvariant, <1>1, PTL

-----------------------------------------------------------------------------
(* The mutex, and the image of a container that rests scaled down. *)

\* The labels of a scale down that has begun.
ScaleDownLabels == {"wantCheckpoint", "prepare", "dump", "dumped", "wantKill",
                    "killing"}

\* CheckpointRestore is held by whoever is in a critical section, so at most
\* one goroutine dumps, kills or restores the container at a time.
MutexHeld == \A t \in Threads : pc[t] \in CriticalLabels => lock = t

\* A scale down begins with a running container and nobody else finishes one,
\* a restore past the start of the process has a running one.
RunningMeanwhile ==
    \A t \in Threads :
        pc[t] \in ScaleDownLabels \cup {"post", "recreate"} => ~scaledDown

\* Between the dump and the phase change the image is complete.
DumpedFull ==
    \A t \in Threads :
        pc[t] = "dumped" /\ mode = "ckpt" => image = "full" \/ stopped

\* While scaled down, only the retry of a failed restore has no image.
RestsFull ==
    scaledDown /\ mode = "ckpt" /\ Serving
        => image = "full" \/ \E t \in Threads : lock = t /\ pc[t] = "create"

\* The timer has a single goroutine: no callback is still running when the
\* timer fires again.
OneCheck == \A a, b \in Checks : a = b

\* Every step enters and leaves the critical sections with the mutex.
LEMMA MutexStep == CtlOK /\ MutexHeld /\ [Next]_vars => MutexHeld'
<1> SUFFICES ASSUME CtlOK, MutexHeld, [Next]_vars PROVE MutexHeld'
  BY Zenon
<1> USE ThreadsAssumption DEF CtlOK, MutexHeld, CriticalLabels
<1>1. CASE InitActivator \/ Traffic \/ Crash \/ Rest
  <2>1. CASE InitActivator
    BY Zenon, <2>1 DEF InitActivator
  <2>2. CASE Traffic
    BY Zenon, <2>2 DEF Traffic
  <2>3. CASE Crash
    BY Zenon, <2>3 DEF Crash
  <2>4. CASE Rest
    BY Zenon, <2>4 DEF Rest, vars
  <2> QED
    BY Zenon, <1>1, <2>1, <2>2, <2>3, <2>4
<1>2. ASSUME NEW t \in Threads, TimerStep(t) PROVE MutexHeld'
  <2>1. CASE TimerFires(t)
    BY Zenon, <2>1 DEF TimerFires
  <2>2. CASE CheckNotStarted(t)
    BY Zenon, <2>2 DEF CheckNotStarted
  <2>3. CASE CheckRecentActivity(t)
    BY Zenon, <2>3 DEF CheckRecentActivity
  <2>4. CASE CheckPastDeadline(t)
    BY Zenon, <2>4 DEF CheckPastDeadline
  <2>5. CASE CheckScaleDown(t)
    BY Zenon, <2>5 DEF CheckScaleDown
  <2>6. CASE CheckResetFails(t)
    BY Zenon, <2>6 DEF CheckResetFails
  <2> QED
    BY Zenon, <1>2, <2>1, <2>2, <2>3, <2>4, <2>5, <2>6 DEF TimerStep
<1>3. ASSUME NEW t \in Threads, ScaleDownStep(t) PROVE MutexHeld'
  <2>1. CASE LockCheckpoint(t)
    BY Zenon, <2>1 DEF LockCheckpoint
  <2>2. CASE SnapshotDirFails(t)
    BY Zenon, <2>2 DEF SnapshotDirFails
  <2>3. CASE AddCheckpointedPID(t)
    BY Zenon, <2>3 DEF AddCheckpointedPID
  <2>4. CASE Dump(t)
    BY Zenon, <2>4 DEF Dump
  <2>5. CASE DumpFails(t)
    BY Zenon, <2>5 DEF DumpFails
  <2>6. CASE LockKill(t)
    BY Zenon, <2>6 DEF LockKill
  <2>7. CASE ForceDelete(t)
    BY Zenon, <2>7 DEF ForceDelete
  <2>8. CASE ForceDeleteFails(t)
    BY Zenon, <2>8 DEF ForceDeleteFails
  <2>9. CASE SetScaledDown(t)
    BY Zenon, <2>9 DEF SetScaledDown
  <2> QED
    BY Zenon, <1>3, <2>1, <2>2, <2>3, <2>4, <2>5, <2>6, <2>7, <2>8, <2>9
       DEF ScaleDownStep
<1>4. ASSUME NEW t \in Threads, RestoreStep(t) PROVE MutexHeld'
  <2>1. CASE LockRestore(t)
    BY Zenon, <2>1 DEF LockRestore
  <2>2. CASE AlreadyRestored(t)
    BY Zenon, <2>2 DEF AlreadyRestored
  <2>3. CASE CapacityAllowed(t)
    BY Zenon, <2>3 DEF CapacityAllowed
  <2>4. CASE CapacityDenied(t)
    BY Zenon, <2>4 DEF CapacityDenied
  <2>5. CASE StartProcess(t)
    BY Zenon, <2>5 DEF StartProcess
  <2>6. CASE StartFails(t)
    BY Zenon, <2>6 DEF StartFails
  <2>7. CASE PostRestore(t)
    BY Zenon, <2>7 DEF PostRestore
  <2>8. CASE RedirectsFail(t)
    BY <2>8 DEF RedirectsFail
  <2>9. CASE RedirectsPanic(t)
    BY Zenon, <2>9 DEF RedirectsPanic
  <2> QED
    BY Zenon, <1>4, <2>1, <2>2, <2>3, <2>4, <2>5, <2>6, <2>7, <2>8, <2>9
       DEF RestoreStep
<1>5. ASSUME NEW t \in Threads, ConnStep(t) PROVE MutexHeld'
  <2>1. CASE ConnRestored(t)
    BY Zenon, <2>1 DEF ConnRestored
  <2>2. CASE ConnFailed(t)
    BY Zenon, <2>2 DEF ConnFailed
  <2>3. CASE Dial(t)
    BY Zenon, <2>3 DEF Dial
  <2>4. CASE DialLoops(t)
    BY Zenon, <2>4 DEF DialLoops
  <2> QED
    BY Zenon, <1>5, <2>1, <2>2, <2>3, <2>4 DEF ConnStep
<1>6. ASSUME NEW t \in Threads, ExecStep(t) PROVE MutexHeld'
  <2>1. CASE ExecReadsPhase(t)
    BY Zenon, <2>1 DEF ExecReadsPhase
  <2>2. CASE ExecRestored(t)
    BY Zenon, <2>2 DEF ExecRestored
  <2>3. CASE ExecFailed(t)
    BY Zenon, <2>3 DEF ExecFailed
  <2>4. CASE ExecAdd(t)
    BY Zenon, <2>4 DEF ExecAdd
  <2>5. CASE ExecStart(t)
    BY Zenon, <2>5 DEF ExecStart
  <2>6. CASE ExecDelete(t)
    BY Zenon, <2>6 DEF ExecDelete
  <2> QED
    BY Zenon, <1>6, <2>1, <2>2, <2>3, <2>4, <2>5, <2>6 DEF ExecStep
<1>7. ASSUME NEW t \in Threads, KillStep(t) PROVE MutexHeld'
  <2>1. CASE KillScaledDown(t)
    BY Zenon, <2>1 DEF KillScaledDown
  <2>2. CASE KillRunning(t)
    BY Zenon, <2>2 DEF KillRunning
  <2>3. CASE KillSignal(t)
    BY Zenon, <2>3 DEF KillSignal
  <2> QED
    BY Zenon, <1>7, <2>1, <2>2, <2>3 DEF KillStep
<1>8. ASSUME NEW t \in Threads,
            \/ ConnArrives(t) \/ ExecBegin(t) \/ ExecKill(t) \/ ExecExit(t)
            \/ KillBegin(t)
     PROVE  MutexHeld'
  <2>1. CASE ConnArrives(t)
    BY Zenon, <2>1 DEF ConnArrives
  <2>2. CASE ExecBegin(t)
    BY Zenon, <2>2 DEF ExecBegin
  <2>3. CASE ExecKill(t)
    BY Zenon, <2>3 DEF ExecKill
  <2>4. CASE ExecExit(t)
    BY Zenon, <2>4 DEF ExecExit
  <2>5. CASE KillBegin(t)
    BY Zenon, <2>5 DEF KillBegin
  <2> QED
    BY Zenon, <1>8, <2>1, <2>2, <2>3, <2>4, <2>5
<1>9. CASE ReaperStep
  <2>1. ASSUME NEW p \in Pids, ExitUnknown(p) PROVE MutexHeld'
    BY Zenon, <2>1 DEF ExitUnknown
  <2>2. ASSUME NEW p \in Pids, ExitPrevented(p) PROVE MutexHeld'
    BY Zenon, <2>2 DEF ExitPrevented
  <2>3. ASSUME NEW p \in Pids, ExitReported(p) PROVE MutexHeld'
    BY Zenon, <2>3 DEF ExitReported
  <2> QED
    BY Zenon, <1>9, <2>1, <2>2, <2>3 DEF ReaperStep
<1>10. CASE UNCHANGED vars
  BY <1>10 DEF vars
<1> QED
  BY Zenon, <1>1, <1>2, <1>3, <1>4, <1>5, <1>6, <1>7, <1>8, <1>9, <1>10
     DEF Next, Environment, ReaperStep, ThreadStep

\* No step changes the phase behind a scale down that has read it (scaleDown),
\* when there is only one timer goroutine.
LEMMA RunningStep ==
    ASSUME OneCheck
    PROVE  CtlOK /\ MutexHeld /\ RunningMeanwhile /\ [Next]_vars
              => RunningMeanwhile'
<1> SUFFICES ASSUME CtlOK, MutexHeld, RunningMeanwhile, [Next]_vars PROVE RunningMeanwhile'
  BY Zenon
<1> USE ThreadsAssumption DEF RunningMeanwhile, MutexHeld, CriticalLabels,
        ScaleDownLabels, OneCheck, CtlOK, Labels, CheckLabels, RestoreLabels,
        ConnLabels, ExecLabels, KillLabels, Threads
<1>1. CASE InitActivator \/ Traffic \/ Crash \/ Rest
  <2>1. CASE InitActivator
    BY Zenon, <2>1 DEF InitActivator
  <2>2. CASE Traffic
    BY Zenon, <2>2 DEF Traffic
  <2>3. CASE Crash
    BY Zenon, <2>3 DEF Crash
  <2>4. CASE Rest
    BY Zenon, <2>4 DEF Rest, vars
  <2> QED
    BY Zenon, <1>1, <2>1, <2>2, <2>3, <2>4
<1>2. ASSUME NEW t \in Threads, TimerStep(t) PROVE RunningMeanwhile'
  <2>1. CASE TimerFires(t)
    BY Zenon, <2>1 DEF TimerFires
  <2>2. CASE CheckNotStarted(t)
    BY Zenon, <2>2 DEF CheckNotStarted
  <2>3. CASE CheckRecentActivity(t)
    BY Zenon, <2>3 DEF CheckRecentActivity
  <2>4. CASE CheckPastDeadline(t)
    BY Zenon, <2>4 DEF CheckPastDeadline
  <2>5. CASE CheckScaleDown(t)
    BY Zenon, <2>5 DEF CheckScaleDown
  <2>6. CASE CheckResetFails(t)
    BY Zenon, <2>6 DEF CheckResetFails
  <2> QED
    BY Zenon, <1>2, <2>1, <2>2, <2>3, <2>4, <2>5, <2>6 DEF TimerStep
<1>3. ASSUME NEW t \in Threads, ScaleDownStep(t) PROVE RunningMeanwhile'
  <2>1. CASE LockCheckpoint(t)
    BY <2>1 DEF LockCheckpoint
  <2>2. CASE SnapshotDirFails(t)
    BY <2>2 DEF SnapshotDirFails
  <2>3. CASE AddCheckpointedPID(t)
    BY <2>3 DEF AddCheckpointedPID
  <2>4. CASE Dump(t)
    BY <2>4 DEF Dump
  <2>5. CASE DumpFails(t)
    BY <2>5 DEF DumpFails
  <2>6. CASE LockKill(t)
    BY <2>6 DEF LockKill
  <2>7. CASE ForceDelete(t)
    BY <2>7 DEF ForceDelete
  <2>8. CASE ForceDeleteFails(t)
    BY <2>8 DEF ForceDeleteFails
  <2>9. CASE SetScaledDown(t)
    BY <2>9 DEF SetScaledDown
  <2> QED
    BY Zenon, <1>3, <2>1, <2>2, <2>3, <2>4, <2>5, <2>6, <2>7, <2>8, <2>9
       DEF ScaleDownStep
<1>4. ASSUME NEW t \in Threads, RestoreStep(t) PROVE RunningMeanwhile'
  <2>1. CASE LockRestore(t)
    BY Zenon, <2>1 DEF LockRestore
  <2>2. CASE AlreadyRestored(t)
    BY Zenon, <2>2 DEF AlreadyRestored
  <2>3. CASE CapacityAllowed(t)
    BY Zenon, <2>3 DEF CapacityAllowed
  <2>4. CASE CapacityDenied(t)
    <3>1. Release(t) /\ UNCHANGED scaledDown
      BY Zenon, <2>4 DEF CapacityDenied
    <3>2. CASE Goto(t, "capacity", IF t \in Execs THEN "idle" ELSE "dial")
      BY <3>1, <3>2
    <3>3. CASE Goto(t, "capacity", "failed")
      BY <3>1, <3>3
    <3> QED
      BY Zenon, <2>4, <3>2, <3>3 DEF CapacityDenied
  <2>5. CASE StartProcess(t)
    BY Zenon, <2>5 DEF StartProcess
  <2>6. CASE StartFails(t)
    BY <2>6 DEF StartFails
  <2>7. CASE PostRestore(t)
    BY Zenon, <2>7 DEF PostRestore
  <2>8. CASE RedirectsFail(t)
    BY Zenon, <2>8 DEF RedirectsFail
  <2>9. CASE RedirectsPanic(t)
    BY Zenon, <2>9 DEF RedirectsPanic
  <2> QED
    BY Zenon, <1>4, <2>1, <2>2, <2>3, <2>4, <2>5, <2>6, <2>7, <2>8, <2>9
       DEF RestoreStep
<1>5. ASSUME NEW t \in Threads, ConnStep(t) PROVE RunningMeanwhile'
  <2>1. CASE ConnRestored(t)
    BY Zenon, <2>1 DEF ConnRestored
  <2>2. CASE ConnFailed(t)
    BY Zenon, <2>2 DEF ConnFailed
  <2>3. CASE Dial(t)
    BY Zenon, <2>3 DEF Dial
  <2>4. CASE DialLoops(t)
    BY Zenon, <2>4 DEF DialLoops
  <2> QED
    BY Zenon, <1>5, <2>1, <2>2, <2>3, <2>4 DEF ConnStep
<1>6. ASSUME NEW t \in Threads, ExecStep(t) PROVE RunningMeanwhile'
  <2>1. CASE ExecReadsPhase(t)
    BY Zenon, <2>1 DEF ExecReadsPhase
  <2>2. CASE ExecRestored(t)
    BY Zenon, <2>2 DEF ExecRestored
  <2>3. CASE ExecFailed(t)
    BY Zenon, <2>3 DEF ExecFailed
  <2>4. CASE ExecAdd(t)
    BY <2>4 DEF ExecAdd
  <2>5. CASE ExecStart(t)
    BY <2>5 DEF ExecStart
  <2>6. CASE ExecDelete(t)
    BY Zenon, <2>6 DEF ExecDelete
  <2> QED
    BY Zenon, <1>6, <2>1, <2>2, <2>3, <2>4, <2>5, <2>6 DEF ExecStep
<1>7. ASSUME NEW t \in Threads, KillStep(t) PROVE RunningMeanwhile'
  <2>1. CASE KillScaledDown(t)
    BY Zenon, <2>1 DEF KillScaledDown
  <2>2. CASE KillRunning(t)
    BY Zenon, <2>2 DEF KillRunning
  <2>3. CASE KillSignal(t)
    BY Zenon, <2>3 DEF KillSignal
  <2> QED
    BY Zenon, <1>7, <2>1, <2>2, <2>3 DEF KillStep
<1>8. ASSUME NEW t \in Threads,
            \/ ConnArrives(t) \/ ExecBegin(t) \/ ExecKill(t) \/ ExecExit(t)
            \/ KillBegin(t)
     PROVE  RunningMeanwhile'
  <2>1. CASE ConnArrives(t)
    BY Zenon, <2>1 DEF ConnArrives
  <2>2. CASE ExecBegin(t)
    BY Zenon, <2>2 DEF ExecBegin
  <2>3. CASE ExecKill(t)
    BY Zenon, <2>3 DEF ExecKill
  <2>4. CASE ExecExit(t)
    BY Zenon, <2>4 DEF ExecExit
  <2>5. CASE KillBegin(t)
    BY Zenon, <2>5 DEF KillBegin
  <2> QED
    BY Zenon, <1>8, <2>1, <2>2, <2>3, <2>4, <2>5
<1>9. CASE ReaperStep
  <2>1. ASSUME NEW p \in Pids, ExitUnknown(p) PROVE RunningMeanwhile'
    BY Zenon, <2>1 DEF ExitUnknown
  <2>2. ASSUME NEW p \in Pids, ExitPrevented(p) PROVE RunningMeanwhile'
    BY Zenon, <2>2 DEF ExitPrevented
  <2>3. ASSUME NEW p \in Pids, ExitReported(p) PROVE RunningMeanwhile'
    BY Zenon, <2>3 DEF ExitReported
  <2> QED
    BY Zenon, <1>9, <2>1, <2>2, <2>3 DEF ReaperStep
<1>10. CASE UNCHANGED vars
  BY <1>10 DEF vars
<1> QED
  BY Zenon, <1>1, <1>2, <1>3, <1>4, <1>5, <1>6, <1>7, <1>8, <1>9, <1>10
     DEF Next, Environment, ReaperStep, ThreadStep

\* No step touches the image between the dump and the phase change (checkpoint).
LEMMA DumpedStep ==
    CtlOK /\ MutexHeld /\ DumpedFull /\ [Next]_vars => DumpedFull'
<1> SUFFICES ASSUME CtlOK, MutexHeld, DumpedFull, [Next]_vars PROVE DumpedFull'
  BY Zenon
<1> USE ThreadsAssumption DEF CtlOK, DumpedFull, MutexHeld, CriticalLabels
<1>1. CASE InitActivator \/ Traffic \/ Crash \/ Rest
  <2>1. CASE InitActivator
    BY Zenon, <2>1 DEF InitActivator
  <2>2. CASE Traffic
    BY Zenon, <2>2 DEF Traffic
  <2>3. CASE Crash
    BY Zenon, <2>3 DEF Crash
  <2>4. CASE Rest
    BY Zenon, <2>4 DEF Rest, vars
  <2> QED
    BY Zenon, <1>1, <2>1, <2>2, <2>3, <2>4
<1>2. ASSUME NEW t \in Threads, TimerStep(t) PROVE DumpedFull'
  <2>1. CASE TimerFires(t)
    BY Zenon, <2>1 DEF TimerFires
  <2>2. CASE CheckNotStarted(t)
    BY Zenon, <2>2 DEF CheckNotStarted
  <2>3. CASE CheckRecentActivity(t)
    BY Zenon, <2>3 DEF CheckRecentActivity
  <2>4. CASE CheckPastDeadline(t)
    BY Zenon, <2>4 DEF CheckPastDeadline
  <2>5. CASE CheckScaleDown(t)
    BY Zenon, <2>5 DEF CheckScaleDown
  <2>6. CASE CheckResetFails(t)
    BY Zenon, <2>6 DEF CheckResetFails
  <2> QED
    BY Zenon, <1>2, <2>1, <2>2, <2>3, <2>4, <2>5, <2>6 DEF TimerStep
<1>3. ASSUME NEW t \in Threads, ScaleDownStep(t) PROVE DumpedFull'
  <2>1. CASE LockCheckpoint(t)
    BY Zenon, <2>1 DEF LockCheckpoint
  <2>2. CASE SnapshotDirFails(t)
    BY Zenon, <2>2 DEF SnapshotDirFails
  <2>3. CASE AddCheckpointedPID(t)
    BY Zenon, <2>3 DEF AddCheckpointedPID
  <2>4. CASE Dump(t)
    BY Zenon, <2>4 DEF Dump
  <2>5. CASE DumpFails(t)
    BY Zenon, <2>5 DEF DumpFails
  <2>6. CASE LockKill(t)
    BY Zenon, <2>6 DEF LockKill
  <2>7. CASE ForceDelete(t)
    BY Zenon, <2>7 DEF ForceDelete
  <2>8. CASE ForceDeleteFails(t)
    BY Zenon, <2>8 DEF ForceDeleteFails
  <2>9. CASE SetScaledDown(t)
    BY Zenon, <2>9 DEF SetScaledDown
  <2> QED
    BY Zenon, <1>3, <2>1, <2>2, <2>3, <2>4, <2>5, <2>6, <2>7, <2>8, <2>9
       DEF ScaleDownStep
<1>4. ASSUME NEW t \in Threads, RestoreStep(t) PROVE DumpedFull'
  <2>1. CASE LockRestore(t)
    BY Zenon, <2>1 DEF LockRestore
  <2>2. CASE AlreadyRestored(t)
    BY Zenon, <2>2 DEF AlreadyRestored
  <2>3. CASE CapacityAllowed(t)
    BY Zenon, <2>3 DEF CapacityAllowed
  <2>4. CASE CapacityDenied(t)
    BY Zenon, <2>4 DEF CapacityDenied
  <2>5. CASE StartProcess(t)
    BY Zenon, <2>5 DEF StartProcess
  <2>6. CASE StartFails(t)
    BY Zenon, <2>6 DEF StartFails
  <2>7. CASE PostRestore(t)
    BY Zenon, <2>7 DEF PostRestore
  <2>8. CASE RedirectsFail(t)
    BY Zenon, <2>8 DEF RedirectsFail
  <2>9. CASE RedirectsPanic(t)
    BY Zenon, <2>9 DEF RedirectsPanic
  <2> QED
    BY Zenon, <1>4, <2>1, <2>2, <2>3, <2>4, <2>5, <2>6, <2>7, <2>8, <2>9
       DEF RestoreStep
<1>5. ASSUME NEW t \in Threads, ConnStep(t) PROVE DumpedFull'
  <2>1. CASE ConnRestored(t)
    BY Zenon, <2>1 DEF ConnRestored
  <2>2. CASE ConnFailed(t)
    BY Zenon, <2>2 DEF ConnFailed
  <2>3. CASE Dial(t)
    BY Zenon, <2>3 DEF Dial
  <2>4. CASE DialLoops(t)
    BY Zenon, <2>4 DEF DialLoops
  <2> QED
    BY Zenon, <1>5, <2>1, <2>2, <2>3, <2>4 DEF ConnStep
<1>6. ASSUME NEW t \in Threads, ExecStep(t) PROVE DumpedFull'
  <2>1. CASE ExecReadsPhase(t)
    BY Zenon, <2>1 DEF ExecReadsPhase
  <2>2. CASE ExecRestored(t)
    BY Zenon, <2>2 DEF ExecRestored
  <2>3. CASE ExecFailed(t)
    BY Zenon, <2>3 DEF ExecFailed
  <2>4. CASE ExecAdd(t)
    BY Zenon, <2>4 DEF ExecAdd
  <2>5. CASE ExecStart(t)
    BY Zenon, <2>5 DEF ExecStart
  <2>6. CASE ExecDelete(t)
    BY Zenon, <2>6 DEF ExecDelete
  <2> QED
    BY Zenon, <1>6, <2>1, <2>2, <2>3, <2>4, <2>5, <2>6 DEF ExecStep
<1>7. ASSUME NEW t \in Threads, KillStep(t) PROVE DumpedFull'
  <2>1. CASE KillScaledDown(t)
    BY Zenon, <2>1 DEF KillScaledDown
  <2>2. CASE KillRunning(t)
    BY Zenon, <2>2 DEF KillRunning
  <2>3. CASE KillSignal(t)
    BY Zenon, <2>3 DEF KillSignal
  <2> QED
    BY Zenon, <1>7, <2>1, <2>2, <2>3 DEF KillStep
<1>8. ASSUME NEW t \in Threads,
            \/ ConnArrives(t) \/ ExecBegin(t) \/ ExecKill(t) \/ ExecExit(t)
            \/ KillBegin(t)
     PROVE  DumpedFull'
  <2>1. CASE ConnArrives(t)
    BY Zenon, <2>1 DEF ConnArrives
  <2>2. CASE ExecBegin(t)
    BY Zenon, <2>2 DEF ExecBegin
  <2>3. CASE ExecKill(t)
    BY Zenon, <2>3 DEF ExecKill
  <2>4. CASE ExecExit(t)
    BY Zenon, <2>4 DEF ExecExit
  <2>5. CASE KillBegin(t)
    BY Zenon, <2>5 DEF KillBegin
  <2> QED
    BY Zenon, <1>8, <2>1, <2>2, <2>3, <2>4, <2>5
<1>9. CASE ReaperStep
  <2>1. ASSUME NEW p \in Pids, ExitUnknown(p) PROVE DumpedFull'
    BY Zenon, <2>1 DEF ExitUnknown
  <2>2. ASSUME NEW p \in Pids, ExitPrevented(p) PROVE DumpedFull'
    BY Zenon, <2>2 DEF ExitPrevented
  <2>3. ASSUME NEW p \in Pids, ExitReported(p) PROVE DumpedFull'
    BY Zenon, <2>3 DEF ExitReported
  <2> QED
    BY Zenon, <1>9, <2>1, <2>2, <2>3 DEF ReaperStep
<1>10. CASE UNCHANGED vars
  BY <1>10 DEF vars
<1> QED
  BY Zenon, <1>1, <1>2, <1>3, <1>4, <1>5, <1>6, <1>7, <1>8, <1>9, <1>10
     DEF Next, Environment, ReaperStep, ThreadStep

\* No step of another goroutine takes the image of a scaled down container; a
\* restore deletes it only with the mutex held (deleteImage).
LEMMA RestsStep ==
    CtlOK /\ MutexHeld /\ RunningMeanwhile /\ DumpedFull /\ RestsFull
        /\ [Next]_vars
        => RestsFull'
<1> SUFFICES ASSUME CtlOK, MutexHeld, RunningMeanwhile, DumpedFull,
                    RestsFull, [Next]_vars PROVE RestsFull'
  OBVIOUS
<1> USE DEF CtlOK, RestsFull, DumpedFull, RunningMeanwhile, MutexHeld,
        CriticalLabels, ScaleDownLabels, Serving
<1>1. CASE InitActivator \/ Traffic \/ Crash \/ Rest
  <2>1. CASE InitActivator
    BY Zenon, <2>1 DEF InitActivator
  <2>2. CASE Traffic
    BY Zenon, <2>2 DEF Traffic
  <2>3. CASE Crash
    BY Zenon, <2>3 DEF Crash
  <2>4. CASE Rest
    BY Zenon, <2>4 DEF Rest, vars
  <2> QED
    BY Zenon, <1>1, <2>1, <2>2, <2>3, <2>4
<1>2. ASSUME NEW t \in Threads, TimerStep(t) PROVE RestsFull'
  <2>1. CASE TimerFires(t)
    BY Zenon, <2>1 DEF TimerFires
  <2>2. CASE CheckNotStarted(t)
    BY Zenon, <2>2 DEF CheckNotStarted
  <2>3. CASE CheckRecentActivity(t)
    BY Zenon, <2>3 DEF CheckRecentActivity
  <2>4. CASE CheckPastDeadline(t)
    BY Zenon, <2>4 DEF CheckPastDeadline
  <2>5. CASE CheckScaleDown(t)
    BY Zenon, <2>5 DEF CheckScaleDown
  <2>6. CASE CheckResetFails(t)
    BY Zenon, <2>6 DEF CheckResetFails
  <2> QED
    BY Zenon, <1>2, <2>1, <2>2, <2>3, <2>4, <2>5, <2>6 DEF TimerStep
<1>3. ASSUME NEW t \in Threads, ScaleDownStep(t) PROVE RestsFull'
  <2>1. CASE LockCheckpoint(t)
    BY Zenon, <2>1 DEF LockCheckpoint
  <2>2. CASE SnapshotDirFails(t)
    BY Zenon, <2>2 DEF SnapshotDirFails
  <2>3. CASE AddCheckpointedPID(t)
    BY Zenon, <2>3 DEF AddCheckpointedPID
  <2>4. CASE Dump(t)
    BY Zenon, <2>4 DEF Dump
  <2>5. CASE DumpFails(t)
    BY Zenon, <2>5 DEF DumpFails
  <2>6. CASE LockKill(t)
    BY Zenon, <2>6 DEF LockKill
  <2>7. CASE ForceDelete(t)
    BY Zenon, <2>7 DEF ForceDelete
  <2>8. CASE ForceDeleteFails(t)
    BY Zenon, <2>8 DEF ForceDeleteFails
  <2>9. CASE SetScaledDown(t)
    BY Zenon, <2>9 DEF SetScaledDown
  <2> QED
    BY Zenon, <1>3, <2>1, <2>2, <2>3, <2>4, <2>5, <2>6, <2>7, <2>8, <2>9 DEF
       ScaleDownStep
<1>4. ASSUME NEW t \in Threads, RestoreStep(t) PROVE RestsFull'
  <2>1. CASE LockRestore(t)
    BY Zenon, <2>1, ThreadsAssumption DEF LockRestore
  <2>2. CASE AlreadyRestored(t)
    BY <2>2 DEF AlreadyRestored
  <2>3. CASE CapacityAllowed(t)
    BY Zenon, <2>3 DEF CapacityAllowed
  <2>4. CASE CapacityDenied(t)
    BY Zenon, <2>4 DEF CapacityDenied
  <2>5. CASE StartProcess(t)
    BY Zenon, <2>5 DEF StartProcess
  <2>6. CASE StartFails(t)
    BY Zenon, <2>6 DEF StartFails
  <2>7. CASE PostRestore(t)
    BY Zenon, <2>7 DEF PostRestore
  <2>8. CASE RedirectsFail(t)
    BY Zenon, <2>8 DEF RedirectsFail
  <2>9. CASE RedirectsPanic(t)
    BY <2>9 DEF RedirectsPanic
  <2> QED
    BY Zenon, <1>4, <2>1, <2>2, <2>3, <2>4, <2>5, <2>6, <2>7, <2>8, <2>9
       DEF RestoreStep
<1>5. ASSUME NEW t \in Threads, ConnStep(t) PROVE RestsFull'
  <2>1. CASE ConnRestored(t)
    BY Zenon, <2>1 DEF ConnRestored
  <2>2. CASE ConnFailed(t)
    BY Zenon, <2>2 DEF ConnFailed
  <2>3. CASE Dial(t)
    BY Zenon, <2>3 DEF Dial
  <2>4. CASE DialLoops(t)
    BY Zenon, <2>4 DEF DialLoops
  <2> QED
    BY Zenon, <1>5, <2>1, <2>2, <2>3, <2>4 DEF ConnStep
<1>6. ASSUME NEW t \in Threads, ExecStep(t) PROVE RestsFull'
  <2>1. CASE ExecReadsPhase(t)
    BY Zenon, <2>1 DEF ExecReadsPhase
  <2>2. CASE ExecRestored(t)
    BY Zenon, <2>2 DEF ExecRestored
  <2>3. CASE ExecFailed(t)
    BY Zenon, <2>3 DEF ExecFailed
  <2>4. CASE ExecAdd(t)
    BY Zenon, <2>4 DEF ExecAdd
  <2>5. CASE ExecStart(t)
    BY Zenon, <2>5 DEF ExecStart
  <2>6. CASE ExecDelete(t)
    BY Zenon, <2>6 DEF ExecDelete
  <2> QED
    BY Zenon, <1>6, <2>1, <2>2, <2>3, <2>4, <2>5, <2>6 DEF ExecStep
<1>7. ASSUME NEW t \in Threads, KillStep(t) PROVE RestsFull'
  <2>1. CASE KillScaledDown(t)
    BY Zenon, <2>1 DEF KillScaledDown
  <2>2. CASE KillRunning(t)
    BY Zenon, <2>2 DEF KillRunning
  <2>3. CASE KillSignal(t)
    BY Zenon, <2>3 DEF KillSignal
  <2> QED
    BY Zenon, <1>7, <2>1, <2>2, <2>3 DEF KillStep
<1>8. ASSUME NEW t \in Threads,
            \/ ConnArrives(t) \/ ExecBegin(t) \/ ExecKill(t) \/ ExecExit(t)
            \/ KillBegin(t)
     PROVE  RestsFull'
  <2>1. CASE ConnArrives(t)
    BY Zenon, <2>1 DEF ConnArrives
  <2>2. CASE ExecBegin(t)
    BY Zenon, <2>2 DEF ExecBegin
  <2>3. CASE ExecKill(t)
    BY Zenon, <2>3 DEF ExecKill
  <2>4. CASE ExecExit(t)
    BY Zenon, <2>4 DEF ExecExit
  <2>5. CASE KillBegin(t)
    BY Zenon, <2>5 DEF KillBegin
  <2> QED
    BY Zenon, <1>8, <2>1, <2>2, <2>3, <2>4, <2>5
<1>9. ASSUME NEW p \in Pids,
            ExitUnknown(p) \/ ExitPrevented(p) \/ ExitReported(p)
     PROVE  RestsFull'
  <2>1. CASE ExitUnknown(p)
    BY Zenon, <2>1 DEF ExitUnknown
  <2>2. CASE ExitPrevented(p)
    BY Zenon, <2>2 DEF ExitPrevented
  <2>3. CASE ExitReported(p)
    BY Zenon, <2>3 DEF ExitReported
  <2> QED
    BY <1>9, <2>1, <2>2, <2>3
<1>10. CASE UNCHANGED vars
  BY <1>10 DEF vars
<1> QED
  BY Zenon, <1>1, <1>2, <1>3, <1>4, <1>5, <1>6, <1>7, <1>8, <1>9, <1>10
     DEF Next, Environment, ReaperStep, ThreadStep

\* At most one goroutine at a time dumps, kills or restores the container, for
\* any number of timer callbacks, connections and execs
\* (Container.CheckpointRestore).
THEOREM MutexCorrect == Spec => []MutexHeld
<1>1. Init => MutexHeld
  BY DEF Init, MutexHeld, CriticalLabels
<1>2. TypeInv /\ MutexHeld /\ [Next]_vars => MutexHeld'
  BY MutexStep DEF TypeInv, TypeOK
<1> QED
  BY TypeInvariant, <1>1, <1>2, PTL DEF Spec

\* A container that rests after a checkpoint has its complete image, for any
\* number of connections, execs and kills and with every fault, as long as no
\* timer callback is still running when the timer fires again.
THEOREM RestorableCorrect == ASSUME OneCheck PROVE Spec => []Restorable
<1>1. Init => MutexHeld /\ RunningMeanwhile /\ DumpedFull /\ RestsFull
  BY DEF Init, MutexHeld, RunningMeanwhile, DumpedFull, RestsFull,
         CriticalLabels, ScaleDownLabels
<1>2. TypeInv /\ MutexHeld /\ RunningMeanwhile /\ DumpedFull /\ RestsFull
         /\ [Next]_vars
         => MutexHeld' /\ RunningMeanwhile' /\ DumpedFull' /\ RestsFull'
  BY Zenon, MutexStep, RunningStep, DumpedStep, RestsStep DEF TypeInv, TypeOK
<1>3. TypeInv /\ RestsFull => Restorable
  BY ThreadsAssumption DEF RestsFull, Restorable
<1> QED
  BY TypeInvariant, <1>1, <1>2, <1>3, PTL DEF Spec

-----------------------------------------------------------------------------
(***************************************************************************)
(* The redirects of a container that rests scaled down, without execs.     *)
(*                                                                         *)
(* The turn to schedule or to run the scale down is passed on like a token:*)
(* it is with the pending timer, with the callback, or with the connection *)
(* that restored the container and has not scheduled the next scale down   *)
(* yet; while the container is scaled down nobody has it.  So no callback  *)
(* can enable the redirects behind a restore that is about to disable them.*)
(***************************************************************************)

RestartLabels == {"post", "recreate", "restored"}

\* Restore looks at the phase again once it holds the mutex.
RestoresScaledDown ==
    \A t \in Threads : pc[t] \in {"capacity", "create"} => scaledDown

OneTurn ==
    ~exited =>
        /\ \A t \in Checks : pc[t] # "idle" => ~timer
        /\ scaledDown => ~timer /\ \A t \in Checks : pc[t] = "idle"
        /\ \A t \in Conns : pc[t] \in RestartLabels =>
              /\ ~timer /\ ~scaledDown
              /\ \A u \in Checks : pc[u] = "idle"
              /\ \A u \in Conns : pc[u] \in RestartLabels => u = t

\* A scale down has enabled the redirects and they stay enabled, up to the
\* restore that disables them again.
Listening ==
    /\ \A t \in Threads : pc[t] \in ScaleDownLabels => started
    /\ scaledDown /\ ~started => SkipStart
    /\ started /\ Serving /\ ~looped
          /\ (scaledDown \/ \E t \in Threads : pc[t] \in ScaleDownLabels)
          => redirect

\* Only a scaled down container is restored (Restore), at every step.
LEMMA RestoresStep ==
    CtlOK /\ MutexHeld /\ RestoresScaledDown /\ [Next]_vars
        => RestoresScaledDown'
<1> SUFFICES ASSUME CtlOK, MutexHeld, RestoresScaledDown, [Next]_vars PROVE RestoresScaledDown'
  BY Zenon
<1> USE DEF CtlOK, RestoresScaledDown, MutexHeld, CriticalLabels
<1>1. CASE InitActivator \/ Traffic \/ Crash \/ Rest
  <2>1. CASE InitActivator
    BY Zenon, <2>1 DEF InitActivator
  <2>2. CASE Traffic
    BY Zenon, <2>2 DEF Traffic
  <2>3. CASE Crash
    BY Zenon, <2>3 DEF Crash
  <2>4. CASE Rest
    BY Zenon, <2>4 DEF Rest, vars
  <2> QED
    BY Zenon, <1>1, <2>1, <2>2, <2>3, <2>4
<1>2. ASSUME NEW t \in Threads, TimerStep(t) PROVE RestoresScaledDown'
  <2>1. CASE TimerFires(t)
    BY Zenon, <2>1 DEF TimerFires
  <2>2. CASE CheckNotStarted(t)
    BY Zenon, <2>2 DEF CheckNotStarted
  <2>3. CASE CheckRecentActivity(t)
    BY Zenon, <2>3 DEF CheckRecentActivity
  <2>4. CASE CheckPastDeadline(t)
    BY Zenon, <2>4 DEF CheckPastDeadline
  <2>5. CASE CheckScaleDown(t)
    BY Zenon, <2>5 DEF CheckScaleDown
  <2>6. CASE CheckResetFails(t)
    BY Zenon, <2>6 DEF CheckResetFails
  <2> QED
    BY Zenon, <1>2, <2>1, <2>2, <2>3, <2>4, <2>5, <2>6 DEF TimerStep
<1>3. ASSUME NEW t \in Threads, ScaleDownStep(t) PROVE RestoresScaledDown'
  <2>1. CASE LockCheckpoint(t)
    BY Zenon, <2>1 DEF LockCheckpoint
  <2>2. CASE SnapshotDirFails(t)
    BY Zenon, <2>2 DEF SnapshotDirFails
  <2>3. CASE AddCheckpointedPID(t)
    BY Zenon, <2>3 DEF AddCheckpointedPID
  <2>4. CASE Dump(t)
    BY Zenon, <2>4 DEF Dump
  <2>5. CASE DumpFails(t)
    BY Zenon, <2>5 DEF DumpFails
  <2>6. CASE LockKill(t)
    BY Zenon, <2>6 DEF LockKill
  <2>7. CASE ForceDelete(t)
    BY Zenon, <2>7 DEF ForceDelete
  <2>8. CASE ForceDeleteFails(t)
    BY Zenon, <2>8 DEF ForceDeleteFails
  <2>9. CASE SetScaledDown(t)
    BY Zenon, <2>9 DEF SetScaledDown
  <2> QED
    BY Zenon, <1>3, <2>1, <2>2, <2>3, <2>4, <2>5, <2>6, <2>7, <2>8, <2>9
       DEF ScaleDownStep
<1>4. ASSUME NEW t \in Threads, RestoreStep(t) PROVE RestoresScaledDown'
  <2>1. CASE LockRestore(t)
    BY Zenon, <2>1 DEF LockRestore
  <2>2. CASE AlreadyRestored(t)
    BY Zenon, <2>2 DEF AlreadyRestored
  <2>3. CASE CapacityAllowed(t)
    BY Zenon, <2>3 DEF CapacityAllowed
  <2>4. CASE CapacityDenied(t)
    BY Zenon, <2>4 DEF CapacityDenied
  <2>5. CASE StartProcess(t)
    BY Zenon, <2>5 DEF StartProcess
  <2>6. CASE StartFails(t)
    BY Zenon, <2>6 DEF StartFails
  <2>7. CASE PostRestore(t)
    BY Zenon, <2>7 DEF PostRestore
  <2>8. CASE RedirectsFail(t)
    BY Zenon, <2>8 DEF RedirectsFail
  <2>9. CASE RedirectsPanic(t)
    BY Zenon, <2>9 DEF RedirectsPanic
  <2> QED
    BY Zenon, <1>4, <2>1, <2>2, <2>3, <2>4, <2>5, <2>6, <2>7, <2>8, <2>9
       DEF RestoreStep
<1>5. ASSUME NEW t \in Threads, ConnStep(t) PROVE RestoresScaledDown'
  <2>1. CASE ConnRestored(t)
    BY Zenon, <2>1 DEF ConnRestored
  <2>2. CASE ConnFailed(t)
    BY Zenon, <2>2 DEF ConnFailed
  <2>3. CASE Dial(t)
    BY Zenon, <2>3 DEF Dial
  <2>4. CASE DialLoops(t)
    BY Zenon, <2>4 DEF DialLoops
  <2> QED
    BY Zenon, <1>5, <2>1, <2>2, <2>3, <2>4 DEF ConnStep
<1>6. ASSUME NEW t \in Threads, ExecStep(t) PROVE RestoresScaledDown'
  <2>1. CASE ExecReadsPhase(t)
    BY Zenon, <2>1 DEF ExecReadsPhase
  <2>2. CASE ExecRestored(t)
    BY Zenon, <2>2 DEF ExecRestored
  <2>3. CASE ExecFailed(t)
    BY Zenon, <2>3 DEF ExecFailed
  <2>4. CASE ExecAdd(t)
    BY Zenon, <2>4 DEF ExecAdd
  <2>5. CASE ExecStart(t)
    BY Zenon, <2>5 DEF ExecStart
  <2>6. CASE ExecDelete(t)
    BY Zenon, <2>6 DEF ExecDelete
  <2> QED
    BY Zenon, <1>6, <2>1, <2>2, <2>3, <2>4, <2>5, <2>6 DEF ExecStep
<1>7. ASSUME NEW t \in Threads, KillStep(t) PROVE RestoresScaledDown'
  <2>1. CASE KillScaledDown(t)
    BY Zenon, <2>1 DEF KillScaledDown
  <2>2. CASE KillRunning(t)
    BY Zenon, <2>2 DEF KillRunning
  <2>3. CASE KillSignal(t)
    BY Zenon, <2>3 DEF KillSignal
  <2> QED
    BY Zenon, <1>7, <2>1, <2>2, <2>3 DEF KillStep
<1>8. ASSUME NEW t \in Threads,
            \/ ConnArrives(t) \/ ExecBegin(t) \/ ExecKill(t) \/ ExecExit(t)
            \/ KillBegin(t)
     PROVE  RestoresScaledDown'
  <2>1. CASE ConnArrives(t)
    BY Zenon, <2>1 DEF ConnArrives
  <2>2. CASE ExecBegin(t)
    BY Zenon, <2>2 DEF ExecBegin
  <2>3. CASE ExecKill(t)
    BY Zenon, <2>3 DEF ExecKill
  <2>4. CASE ExecExit(t)
    BY Zenon, <2>4 DEF ExecExit
  <2>5. CASE KillBegin(t)
    BY Zenon, <2>5 DEF KillBegin
  <2> QED
    BY Zenon, <1>8, <2>1, <2>2, <2>3, <2>4, <2>5
<1>9. CASE ReaperStep
  <2>1. ASSUME NEW p \in Pids, ExitUnknown(p) PROVE RestoresScaledDown'
    BY Zenon, <2>1 DEF ExitUnknown
  <2>2. ASSUME NEW p \in Pids, ExitPrevented(p) PROVE RestoresScaledDown'
    BY Zenon, <2>2 DEF ExitPrevented
  <2>3. ASSUME NEW p \in Pids, ExitReported(p) PROVE RestoresScaledDown'
    BY Zenon, <2>3 DEF ExitReported
  <2> QED
    BY Zenon, <1>9, <2>1, <2>2, <2>3 DEF ReaperStep
<1>10. CASE UNCHANGED vars
  BY <1>10 DEF vars
<1> QED
  BY Zenon, <1>1, <1>2, <1>3, <1>4, <1>5, <1>6, <1>7, <1>8, <1>9, <1>10
     DEF Next, Environment, ReaperStep, ThreadStep

\* The turn is not looked at any more once the processes are set exited.
LEMMA TurnEnded == ASSUME exited' PROVE OneTurn'
  BY Zenon DEF OneTurn

\* A step that moves nobody.
LEMMA TurnStill ==
    ASSUME OneTurn, UNCHANGED <<pc, scaledDown>>, timer' => timer, exited => exited'
    PROVE  OneTurn'
  BY Zenon DEF OneTurn

\* A step that neither takes the turn nor sets the timer.
LEMMA TurnMoves ==
    ASSUME OneTurn, CtlOK, NEW t \in Threads, NEW l, Moves(t, l),
           l # "idle" => pc[t] # "idle" \/ t \notin Checks,
           l \in RestartLabels => pc[t] \in RestartLabels,
           scaledDown' = scaledDown, timer' => timer, exited => exited'
    PROVE  OneTurn'
<1>1. \A u \in Threads : pc'[u] = IF u = t THEN l ELSE pc[u]
  BY Zenon, PcMoves
<1>2. \A u \in Checks : u \in Threads
  BY Zenon DEF Threads
<1>3. \A u \in Conns : u \in Threads
  BY Zenon DEF Threads
<1>4. \A u \in Checks : pc[u] = "idle" => pc'[u] = "idle"
  BY Zenon, <1>1, <1>2
<1>5. \A u \in Conns : pc'[u] \in RestartLabels => pc[u] \in RestartLabels
  BY Zenon, <1>1, <1>3
<1> QED BY Zenon, <1>4, <1>5 DEF OneTurn

\* The only callback ends, and with it the turn: the timer may be set again.
LEMMA TurnArmed ==
    ASSUME OneCheck, OneTurn, CtlOK, NEW t \in Checks, pc[t] # "idle",
           Moves(t, "idle"), exited' = exited,
           scaledDown' => timer' = timer
    PROVE  OneTurn'
<1> SUFFICES ASSUME ~exited PROVE OneTurn'
  BY Zenon DEF OneTurn
<1>1. t \in Threads
  BY Zenon DEF Threads
<1>2. \A u \in Threads : pc'[u] = IF u = t THEN "idle" ELSE pc[u]
  BY Zenon, <1>1, PcMoves
<1>3. \A u \in Checks : pc'[u] = "idle"
  BY Zenon, <1>2 DEF OneCheck, Threads
<1>4. \A u \in Conns : pc[u] \notin RestartLabels
  BY Zenon DEF OneTurn
<1>5. \A u \in Conns : pc'[u] \notin RestartLabels
  BY Zenon, <1>2, <1>4 DEF Threads, RestartLabels
<1>6. ~timer
  BY Zenon DEF OneTurn
<1>7. scaledDown' => ~timer'
  BY Zenon, <1>6
<1> QED BY Zenon, <1>3, <1>5, <1>7 DEF OneTurn

\* A restored connection sets the timer and gives the turn away
\* (scheduleScaleDownIn).
LEMMA TurnPassed ==
    ASSUME OneTurn, CtlOK, NEW t \in Conns, ConnRestored(t) PROVE OneTurn'
<1>1. /\ pc[t] \in RestartLabels /\ Moves(t, "dial")
      /\ UNCHANGED <<scaledDown, exited>>
  BY Zenon DEF ConnRestored, Moves, RestartLabels
<1> SUFFICES ASSUME ~exited PROVE OneTurn'
  BY Zenon, <1>1 DEF OneTurn
<1>2. t \in Threads /\ \A u \in Conns : u \in Threads
  BY Zenon DEF Threads
<1>3. \A u \in Threads : pc'[u] = IF u = t THEN "dial" ELSE pc[u]
  BY Zenon, <1>1, <1>2, PcMoves
<1>4. /\ ~scaledDown /\ \A u \in Checks : pc[u] = "idle"
      /\ \A u \in Conns : pc[u] \in RestartLabels => u = t
  BY Zenon, <1>1 DEF OneTurn
<1>5. \A u \in Checks : u \in Threads /\ u # t
  BY Zenon, ThreadsAssumption DEF Threads
<1>6. \A u \in Checks : pc'[u] = "idle"
  BY Zenon, <1>3, <1>4, <1>5
<1>7. \A u \in Conns : pc'[u] \notin RestartLabels
  BY Zenon, <1>2, <1>3, <1>4 DEF RestartLabels
<1> QED BY Zenon, <1>1, <1>4, <1>6, <1>7 DEF OneTurn

\* The timer passes the turn to its callback.
LEMMA TurnFires ==
    ASSUME OneTurn, CtlOK, NEW t \in Threads, TimerFires(t) PROVE OneTurn'
<1>1. /\ timer /\ ~timer' /\ Moves(t, "check") /\ UNCHANGED <<scaledDown, exited>>
  BY Zenon DEF TimerFires, Moves
<1> SUFFICES ASSUME ~exited PROVE OneTurn'
  BY Zenon, <1>1 DEF OneTurn
<1>2. \A u \in Threads : pc'[u] = IF u = t THEN "check" ELSE pc[u]
  BY Zenon, <1>1, PcMoves
<1>3. ~scaledDown /\ \A u \in Conns : pc[u] \notin RestartLabels
  BY Zenon, <1>1 DEF OneTurn
<1>4. \A u \in Conns : pc'[u] \notin RestartLabels
  BY Zenon, <1>2, <1>3 DEF Threads, RestartLabels
<1> QED BY Zenon, <1>1, <1>3, <1>4 DEF OneTurn

\* A restore that starts the process of a scaled down container has the turn
\* until it is over.
LEMMA TurnStarts ==
    ASSUME Execs = {}, OneTurn, CtlOK, RestoresScaledDown, NEW t \in Threads,
           StartProcess(t)
    PROVE  OneTurn'
<1>1. /\ pc[t] = "create" /\ Moves(t, "post") /\ ~scaledDown'
      /\ UNCHANGED <<timer, exited>>
  BY Zenon DEF StartProcess, Moves
<1> SUFFICES ASSUME ~exited PROVE OneTurn'
  BY Zenon, <1>1 DEF OneTurn
<1>2. \A u \in Threads : pc'[u] = IF u = t THEN "post" ELSE pc[u]
  BY Zenon, <1>1, PcMoves
<1>3. scaledDown
  BY Zenon, <1>1 DEF RestoresScaledDown
<1>4. /\ ~timer /\ \A u \in Checks : pc[u] = "idle"
      /\ \A u \in Conns : pc[u] \notin RestartLabels
  BY Zenon, <1>3 DEF OneTurn
<1>5. \A u \in Checks : u \in Threads /\ u # t
  BY Zenon, <1>1, <1>4 DEF Threads
<1>6. \A u \in Checks : pc'[u] = "idle"
  BY Zenon, <1>2, <1>4, <1>5
<1>7. \A u \in Conns : pc'[u] \in RestartLabels => u = t
  BY Zenon, <1>2, <1>4 DEF Threads
<1> QED BY Zenon, <1>1, <1>4, <1>6, <1>7 DEF OneTurn

\* Only a callback scales down (scaleDownCheck).
LEMMA ScaleDownByCheck ==
    ASSUME CtlOK, NEW t \in Threads, pc[t] \in ScaleDownLabels PROVE t \in Checks
<1>1. /\ pc[t] \notin RestoreLabels /\ pc[t] # "idle"
      /\ pc[t] \notin ConnLabels /\ pc[t] \notin ExecLabels /\ pc[t] \notin KillLabels
  BY DEF ScaleDownLabels, ConnLabels, ExecLabels, KillLabels, RestoreLabels
<1> QED BY Zenon, <1>1 DEF CtlOK, Threads

\* Only an exec ends a session, for Delete to schedule the next scale down.
LEMMA EndedByExec ==
    ASSUME Execs = {}, CtlOK, NEW t \in Threads, pc[t] = "ended" PROVE FALSE
<1>1. pc[t] \notin CheckLabels /\ pc[t] \notin ConnLabels /\ pc[t] \notin KillLabels
  BY DEF CheckLabels, ConnLabels, KillLabels, RestoreLabels
<1> QED BY Zenon, <1>1 DEF CtlOK, Threads

\* Every step passes the turn on to at most one other holder: a fired timer to
\* its callback, a restore to the timer it schedules (scheduleScaleDownIn).
LEMMA TurnStep ==
    ASSUME OneCheck, Execs = {}
    PROVE  CtlOK /\ RunningMeanwhile /\ RestoresScaledDown /\ OneTurn
              /\ [Next]_vars
              => OneTurn'
<1> SUFFICES ASSUME CtlOK, RunningMeanwhile, RestoresScaledDown, OneTurn, [Next]_vars
              PROVE OneTurn'
  BY Zenon
<1>1. CASE InitActivator \/ Traffic \/ Crash \/ Rest
  <2>1. CASE InitActivator
    BY Zenon, <2>1, TurnStill DEF InitActivator
  <2>2. CASE Traffic
    BY Zenon, <2>2, TurnStill DEF Traffic
  <2>3. CASE Crash
    BY Zenon, <2>3, TurnStill DEF Crash
  <2>4. CASE Rest
    BY Zenon, <2>4, TurnStill DEF Rest, vars
  <2> QED
    BY Zenon, <1>1, <2>1, <2>2, <2>3, <2>4
<1>2. ASSUME NEW t \in Threads, TimerStep(t) PROVE OneTurn'
  <2>1. CASE TimerFires(t)
    BY Zenon, <2>1, TurnFires
  <2>2. CASE CheckNotStarted(t)
    <3>1. /\ t \in Checks /\ pc[t] = "check" /\ Moves(t, "idle")
          /\ UNCHANGED <<scaledDown, exited>>
      BY Zenon, <2>2 DEF CheckNotStarted, Moves
    <3>2. exited \/ ~scaledDown
      BY Zenon, <3>1 DEF OneTurn
    <3> QED BY Zenon, <3>1, <3>2, TurnArmed, TurnEnded
  <2>3. CASE CheckRecentActivity(t)
    <3>1. /\ t \in Checks /\ pc[t] = "check" /\ Moves(t, "idle")
          /\ UNCHANGED <<scaledDown, exited>>
      BY Zenon, <2>3 DEF CheckRecentActivity, Moves
    <3>2. exited \/ ~scaledDown
      BY Zenon, <3>1 DEF OneTurn
    <3> QED BY Zenon, <3>1, <3>2, TurnArmed, TurnEnded
  <2>4. CASE CheckPastDeadline(t)
    <3>1. /\ pc[t] = "check" /\ Moves(t, "idle")
          /\ UNCHANGED <<scaledDown, timer, exited>>
      BY Zenon, <2>4 DEF CheckPastDeadline, Moves
    <3> QED BY Zenon, <3>1, TurnMoves DEF RestartLabels
  <2>5. CASE CheckScaleDown(t)
    <3>1. /\ pc[t] = "check" /\ (Moves(t, "idle") \/ Moves(t, "wantKill") \/ Moves(t, "wantCheckpoint"))
          /\ UNCHANGED <<scaledDown, timer, exited>>
      BY Zenon, <2>5 DEF CheckScaleDown, Moves
    <3> QED BY Zenon, <3>1, TurnMoves DEF RestartLabels
  <2>6. CASE CheckResetFails(t)
    <3>1. /\ t \in Checks /\ pc[t] = "check" /\ Moves(t, "idle")
          /\ exited' = exited /\ ~scaledDown'
      BY Zenon, <2>6 DEF CheckResetFails, Moves
    <3> QED BY Zenon, <3>1, TurnArmed
  <2> QED
    BY Zenon, <1>2, <2>1, <2>2, <2>3, <2>4, <2>5, <2>6 DEF TimerStep
<1>3. ASSUME NEW t \in Threads, ScaleDownStep(t) PROVE OneTurn'
  <2>1. CASE LockCheckpoint(t)
    <3>1. /\ pc[t] = "wantCheckpoint" /\ Moves(t, "prepare")
          /\ UNCHANGED <<scaledDown, timer, exited>>
      BY Zenon, <2>1 DEF LockCheckpoint, Moves
    <3> QED BY Zenon, <3>1, TurnMoves DEF RestartLabels
  <2>2. CASE SnapshotDirFails(t)
    <3>1. /\ pc[t] = "prepare" /\ Moves(t, "idle")
          /\ UNCHANGED <<scaledDown, exited>>
      BY Zenon, <2>2 DEF SnapshotDirFails, Moves
    <3>2. pc[t] \in ScaleDownLabels
      BY Zenon, <3>1 DEF ScaleDownLabels
    <3>3. t \in Checks /\ ~scaledDown
      BY Zenon, <3>2, ScaleDownByCheck DEF RunningMeanwhile
    <3> QED BY Zenon, <3>1, <3>3, TurnArmed
  <2>3. CASE AddCheckpointedPID(t)
    <3>1. /\ pc[t] = "prepare" /\ Moves(t, "dump")
          /\ UNCHANGED <<scaledDown, timer, exited>>
      BY Zenon, <2>3 DEF AddCheckpointedPID, Moves
    <3> QED BY Zenon, <3>1, TurnMoves DEF RestartLabels
  <2>4. CASE Dump(t)
    <3>1. /\ pc[t] = "dump" /\ Moves(t, "dumped")
          /\ UNCHANGED <<scaledDown, timer, exited>>
      BY Zenon, <2>4 DEF Dump, Moves
    <3> QED BY Zenon, <3>1, TurnMoves DEF RestartLabels
  <2>5. CASE DumpFails(t)
    <3>1. /\ pc[t] \in {"dump", "prepare"} /\ Moves(t, "idle")
          /\ UNCHANGED <<scaledDown, exited>>
      BY Zenon, <2>5 DEF DumpFails, Moves
    <3>2. pc[t] \in ScaleDownLabels
      BY Zenon, <3>1 DEF ScaleDownLabels
    <3>3. t \in Checks /\ ~scaledDown
      BY Zenon, <3>2, ScaleDownByCheck DEF RunningMeanwhile
    <3> QED BY Zenon, <3>1, <3>3, TurnArmed
  <2>6. CASE LockKill(t)
    <3>1. /\ pc[t] = "wantKill" /\ Moves(t, "killing")
          /\ UNCHANGED <<scaledDown, timer, exited>>
      BY Zenon, <2>6 DEF LockKill, Moves
    <3> QED BY Zenon, <3>1, TurnMoves DEF RestartLabels
  <2>7. CASE ForceDelete(t)
    <3>1. /\ pc[t] = "killing" /\ Moves(t, "dumped")
          /\ UNCHANGED <<scaledDown, timer, exited>>
      BY Zenon, <2>7 DEF ForceDelete, Moves
    <3> QED BY Zenon, <3>1, TurnMoves DEF RestartLabels
  <2>8. CASE ForceDeleteFails(t)
    <3>1. /\ pc[t] = "killing" /\ Moves(t, "idle")
          /\ UNCHANGED <<scaledDown, exited>>
      BY Zenon, <2>8 DEF ForceDeleteFails, Moves
    <3>2. pc[t] \in ScaleDownLabels
      BY Zenon, <3>1 DEF ScaleDownLabels
    <3>3. t \in Checks /\ ~scaledDown
      BY Zenon, <3>2, ScaleDownByCheck DEF RunningMeanwhile
    <3> QED BY Zenon, <3>1, <3>3, TurnArmed
  <2>9. CASE SetScaledDown(t)
    <3>1. pc[t] = "dumped" /\ Moves(t, "idle") /\ UNCHANGED <<timer, exited>>
      BY Zenon, <2>9 DEF SetScaledDown, Moves
    <3>2. t \in Checks
      BY Zenon, <3>1, ScaleDownByCheck DEF ScaleDownLabels
    <3> QED BY Zenon, <3>1, <3>2, TurnArmed
  <2> QED
    BY Zenon, <1>3, <2>1, <2>2, <2>3, <2>4, <2>5, <2>6, <2>7, <2>8, <2>9 DEF
       ScaleDownStep
<1>4. ASSUME NEW t \in Threads, RestoreStep(t) PROVE OneTurn'
  <2>1. CASE LockRestore(t)
    <3>1. /\ pc[t] = "want" /\ Moves(t, "capacity")
          /\ UNCHANGED <<scaledDown, timer, exited>>
      BY Zenon, <2>1 DEF LockRestore, Moves
    <3> QED BY Zenon, <3>1, TurnMoves DEF RestartLabels
  <2>2. CASE AlreadyRestored(t)
    <3>1. /\ pc[t] = "want" /\ (Moves(t, "failed") \/ Moves(t, "dial"))
          /\ UNCHANGED <<scaledDown, timer, exited>>
      BY Zenon, <2>2 DEF AlreadyRestored, Moves
    <3> QED BY Zenon, <3>1, TurnMoves DEF RestartLabels
  <2>3. CASE CapacityAllowed(t)
    <3>1. /\ pc[t] = "capacity" /\ Moves(t, "create")
          /\ UNCHANGED <<scaledDown, timer, exited>>
      BY Zenon, <2>3 DEF CapacityAllowed, Moves
    <3> QED BY Zenon, <3>1, TurnMoves DEF RestartLabels
  <2>4. CASE CapacityDenied(t)
    <3>1. /\ pc[t] = "capacity"
          /\ Moves(t, "idle") \/ Moves(t, "dial") \/ Moves(t, "failed")
          /\ UNCHANGED <<scaledDown, timer, exited>>
      BY Zenon, <2>4 DEF CapacityDenied, Moves
    <3> QED BY Zenon, <3>1, TurnMoves DEF RestartLabels
  <2>5. CASE StartProcess(t)
    BY Zenon, <2>5, TurnStarts
  <2>6. CASE StartFails(t)
    <3>1. /\ pc[t] # "idle"
          /\ \/ Moves(t, "create") \/ Moves(t, "failed")
             \/ pc[t] = "recreate" /\ Moves(t, "recreate")
          /\ UNCHANGED <<scaledDown, timer, exited>>
      BY Zenon, <2>6 DEF StartFails, Moves
    <3> QED BY Zenon, <3>1, TurnMoves DEF RestartLabels
  <2>7. CASE PostRestore(t)
    <3>1. /\ pc[t] = "post" /\ Moves(t, "restored")
          /\ UNCHANGED <<scaledDown, timer, exited>>
      BY Zenon, <2>7 DEF PostRestore, Moves
    <3> QED BY Zenon, <3>1, TurnMoves DEF RestartLabels
  <2>8. CASE RedirectsFail(t)
    <3>1. /\ pc[t] = "post" /\ (Moves(t, "recreate") \/ Moves(t, "failed"))
          /\ UNCHANGED <<scaledDown, timer, exited>>
      BY Zenon, <2>8 DEF RedirectsFail, Moves
    <3> QED BY Zenon, <3>1, TurnMoves DEF RestartLabels
  <2>9. CASE RedirectsPanic(t)
    <3>1. /\ pc[t] = "post" /\ Moves(t, "done")
          /\ UNCHANGED <<scaledDown, timer, exited>>
      BY Zenon, <2>9 DEF RedirectsPanic, Moves
    <3> QED BY Zenon, <3>1, TurnMoves DEF RestartLabels
  <2> QED
    BY Zenon, <1>4, <2>1, <2>2, <2>3, <2>4, <2>5, <2>6, <2>7, <2>8, <2>9 DEF
       RestoreStep
<1>5. ASSUME NEW t \in Threads, ConnStep(t) PROVE OneTurn'
  <2>1. CASE ConnRestored(t)
    BY Zenon, <2>1, TurnPassed DEF ConnRestored
  <2>2. CASE ConnFailed(t)
    BY Zenon, <2>2, TurnEnded DEF ConnFailed
  <2>3. CASE Dial(t)
    <3>1. /\ pc[t] = "dial" /\ Moves(t, "idle")
          /\ UNCHANGED <<scaledDown, timer, exited>>
      BY Zenon, <2>3 DEF Dial, Moves
    <3> QED BY Zenon, <3>1, TurnMoves DEF RestartLabels
  <2>4. CASE DialLoops(t)
    <3>1. /\ pc[t] = "dial" /\ Moves(t, "want")
          /\ UNCHANGED <<scaledDown, timer, exited>>
      BY Zenon, <2>4 DEF DialLoops, Moves
    <3> QED BY Zenon, <3>1, TurnMoves DEF RestartLabels
  <2> QED
    BY Zenon, <1>5, <2>1, <2>2, <2>3, <2>4 DEF ConnStep
<1>6. ASSUME NEW t \in Threads, ExecStep(t) PROVE OneTurn'
  <2>1. CASE ExecReadsPhase(t)
    <3>1. /\ pc[t] = "read" /\ (Moves(t, "want") \/ Moves(t, "add"))
          /\ UNCHANGED <<scaledDown, timer, exited>>
      BY Zenon, <2>1 DEF ExecReadsPhase, Moves
    <3> QED BY Zenon, <3>1, TurnMoves DEF RestartLabels
  <2>2. CASE ExecRestored(t)
    BY Zenon, <2>2 DEF ExecRestored
  <2>3. CASE ExecFailed(t)
    BY Zenon, <2>3, TurnEnded DEF ExecFailed
  <2>4. CASE ExecAdd(t)
    <3>1. /\ pc[t] = "add" /\ (Moves(t, "added") \/ Moves(t, "idle"))
          /\ UNCHANGED <<scaledDown, timer, exited>>
      BY Zenon, <2>4 DEF ExecAdd, Moves
    <3> QED BY Zenon, <3>1, TurnMoves DEF RestartLabels
  <2>5. CASE ExecStart(t)
    <3>1. /\ pc[t] = "added" /\ (Moves(t, "session") \/ Moves(t, "ended"))
          /\ UNCHANGED <<scaledDown, timer, exited>>
      BY Zenon, <2>5 DEF ExecStart, Moves
    <3> QED BY Zenon, <3>1, TurnMoves DEF RestartLabels
  <2>6. CASE ExecDelete(t)
    <3>1. pc[t] = "ended"
      BY Zenon, <2>6 DEF ExecDelete
    <3> QED BY Zenon, <3>1, EndedByExec
  <2> QED
    BY Zenon, <1>6, <2>1, <2>2, <2>3, <2>4, <2>5, <2>6 DEF ExecStep
<1>7. ASSUME NEW t \in Threads, KillStep(t) PROVE OneTurn'
  <2>1. CASE KillScaledDown(t)
    BY Zenon, <2>1, TurnEnded DEF KillScaledDown
  <2>2. CASE KillRunning(t)
    <3>1. /\ pc[t] = "barrier" /\ Moves(t, "signal")
          /\ UNCHANGED <<scaledDown, exited>> /\ ~timer'
      BY Zenon, <2>2 DEF KillRunning, Moves
    <3> QED BY Zenon, <3>1, TurnMoves DEF RestartLabels
  <2>3. CASE KillSignal(t)
    <3>1. /\ pc[t] = "signal" /\ Moves(t, "done")
          /\ UNCHANGED <<scaledDown, timer>>
          /\ exited' = TRUE \/ exited' = exited
      BY Zenon, <2>3 DEF KillSignal, Moves
    <3>2. CASE exited' = TRUE
      BY Zenon, <3>2, TurnEnded
    <3>3. CASE exited' = exited
      BY Zenon, <3>1, <3>3, TurnMoves DEF RestartLabels
    <3> QED BY Zenon, <3>1, <3>2, <3>3
  <2> QED
    BY Zenon, <1>7, <2>1, <2>2, <2>3 DEF KillStep
<1>8. ASSUME NEW t \in Threads,
            \/ ConnArrives(t) \/ ExecBegin(t) \/ ExecKill(t) \/ ExecExit(t)
            \/ KillBegin(t)
     PROVE  OneTurn'
  <2>1. CASE ConnArrives(t)
    <3>1. /\ t \in Conns /\ Moves(t, "want")
          /\ UNCHANGED <<scaledDown, timer, exited>>
      BY Zenon, <2>1 DEF ConnArrives, Moves
    <3>2. t \notin Checks
      BY Zenon, <3>1, ThreadsAssumption
    <3> QED BY Zenon, <3>1, <3>2, TurnMoves DEF RestartLabels
  <2>2. CASE ExecBegin(t)
    BY Zenon, <2>2 DEF ExecBegin
  <2>3. CASE ExecKill(t)
    BY Zenon, <2>3, TurnStill DEF ExecKill
  <2>4. CASE ExecExit(t)
    <3>1. /\ pc[t] = "session" /\ (Moves(t, "ended") \/ Moves(t, "done"))
          /\ UNCHANGED <<scaledDown, timer, exited>>
      BY Zenon, <2>4 DEF ExecExit, Moves
    <3> QED BY Zenon, <3>1, TurnMoves DEF RestartLabels
  <2>5. CASE KillBegin(t)
    <3>1. /\ t \in Kills /\ Moves(t, "barrier")
          /\ UNCHANGED <<scaledDown, timer, exited>>
      BY Zenon, <2>5 DEF KillBegin, Moves
    <3>2. t \notin Checks
      BY Zenon, <3>1, ThreadsAssumption
    <3> QED BY Zenon, <3>1, <3>2, TurnMoves DEF RestartLabels
  <2> QED
    BY Zenon, <1>8, <2>1, <2>2, <2>3, <2>4, <2>5
<1>9. CASE ReaperStep
  <2>1. ASSUME NEW p \in Pids, ExitUnknown(p) PROVE OneTurn'
    BY Zenon, <2>1, TurnStill DEF ExitUnknown
  <2>2. ASSUME NEW p \in Pids, ExitPrevented(p) PROVE OneTurn'
    BY Zenon, <2>2, TurnStill DEF ExitPrevented
  <2>3. ASSUME NEW p \in Pids, ExitReported(p) PROVE OneTurn'
    BY Zenon, <2>3, TurnStill DEF ExitReported
  <2> QED
    BY Zenon, <1>9, <2>1, <2>2, <2>3 DEF ReaperStep
<1>10. CASE UNCHANGED vars
  BY Zenon, <1>10, TurnStill DEF vars
<1> QED
  BY Zenon, <1>1, <1>2, <1>3, <1>4, <1>5, <1>6, <1>7, <1>8, <1>9, <1>10
     DEF Next, Environment, ReaperStep, ThreadStep

\* A step that moves nobody.
LEMMA ListeningStill ==
    ASSUME Listening, UNCHANGED <<pc, scaledDown, started, redirect, stopped, looped>>,
           exited => exited'
    PROVE  Listening'
  BY Zenon DEF Listening, Serving

\* Where the scale downs are after a step of one goroutine.
LEMMA ScaleDownMoves ==
    ASSUME CtlOK, NEW t \in Threads, NEW l, Moves(t, l),
           l \in ScaleDownLabels => pc[t] \in ScaleDownLabels
    PROVE  \A u \in Threads : pc'[u] \in ScaleDownLabels => pc[u] \in ScaleDownLabels
<1>1. \A u \in Threads : pc'[u] = IF u = t THEN l ELSE pc[u]
  BY Zenon, PcMoves
<1> QED BY Zenon, <1>1

\* A step that begins no scale down and disables no redirect of a container
\* that serves.
LEMMA ListeningMoves ==
    ASSUME Listening, CtlOK, NEW t \in Threads, NEW l, Moves(t, l),
           l \in ScaleDownLabels => pc[t] \in ScaleDownLabels,
           pc[t] = "failed" => exited',
           scaledDown' => scaledDown \/ pc[t] \in ScaleDownLabels,
           started' = started, redirect => redirect' \/ looped' \/ exited',
           exited => exited', stopped => stopped', looped => looped'
    PROVE  Listening'
<1>1. \A u \in Threads : pc'[u] \in ScaleDownLabels => pc[u] \in ScaleDownLabels
  BY Zenon, ScaleDownMoves
<1>2. \A u \in Threads : pc'[u] = IF u = t THEN l ELSE pc[u]
  BY Zenon, PcMoves
<1>3. Serving' => Serving
  <2>1. ASSUME ~exited', NEW u \in Threads, pc[u] = "failed" PROVE pc'[u] = "failed"
    BY Zenon, <1>2, <2>1
  <2> QED BY Zenon, <2>1 DEF Serving
<1>4. \A u \in Threads : pc'[u] \in ScaleDownLabels => started'
  BY Zenon, <1>1 DEF Listening
<1>5. scaledDown' /\ ~started' => SkipStart
  BY Zenon DEF Listening
<1>6. ASSUME started', Serving', ~looped',
             scaledDown' \/ \E u \in Threads : pc'[u] \in ScaleDownLabels
      PROVE  redirect'
  <2>1. scaledDown \/ \E u \in Threads : pc[u] \in ScaleDownLabels
    BY Zenon, <1>1, <1>6
  <2>2. redirect
    BY Zenon, <1>3, <1>6, <2>1 DEF Listening
  <2> QED BY Zenon, <1>6, <2>2 DEF Serving
<1> QED BY Zenon, <1>4, <1>5, <1>6 DEF Listening

\* A container that neither is scaled down nor is about to be needs no redirect.
LEMMA ListeningOff ==
    ASSUME ~scaledDown', \A u \in Threads : pc'[u] \notin ScaleDownLabels
    PROVE  Listening'
  BY Zenon DEF Listening

\* resetOnErr disables the redirects of the only scale down there is.
LEMMA ListeningDumpFails ==
    ASSUME OneCheck, CtlOK, RunningMeanwhile, NEW t \in Threads, DumpFails(t)
    PROVE  Listening'
<1>1. /\ pc[t] \in ScaleDownLabels /\ Moves(t, "idle") /\ scaledDown' = scaledDown
  BY Zenon DEF DumpFails, Moves, ScaleDownLabels
<1>2. \A u \in Threads : pc'[u] = IF u = t THEN "idle" ELSE pc[u]
  BY Zenon, <1>1, PcMoves
<1>3. \A u \in Threads : pc[u] \in ScaleDownLabels => u = t
  BY Zenon, <1>1, ScaleDownByCheck DEF OneCheck
<1>4. \A u \in Threads : pc'[u] \notin ScaleDownLabels
  BY Zenon, <1>2, <1>3 DEF ScaleDownLabels
<1>5. ~scaledDown'
  BY Zenon, <1>1 DEF RunningMeanwhile
<1> QED BY Zenon, <1>4, <1>5, ListeningOff

\* postRestore disables the redirects while the restore has the turn.
LEMMA ListeningRestored ==
    ASSUME Execs = {}, CtlOK, OneTurn, Listening, NEW t \in Threads, PostRestore(t)
    PROVE  Listening'
<1>1. /\ pc[t] = "post" /\ Moves(t, "restored")
      /\ UNCHANGED <<scaledDown, started, exited, stopped, looped>>
  BY Zenon DEF PostRestore, Moves
<1>2. t \in Conns
  <2>1. pc[t] \notin CheckLabels /\ pc[t] \notin KillLabels
    BY <1>1 DEF CheckLabels, KillLabels
  <2> QED BY Zenon, <2>1 DEF CtlOK, Threads
<1>3. CASE exited
  BY Zenon, <1>1, <1>3, ListeningMoves DEF ScaleDownLabels
<1>4. CASE ~exited
  <2>1. ~scaledDown /\ \A u \in Checks : pc[u] = "idle"
    BY Zenon, <1>1, <1>2, <1>4 DEF OneTurn, RestartLabels
  <2>2. \A u \in Threads : pc[u] \notin ScaleDownLabels
    BY Zenon, <2>1, ScaleDownByCheck DEF ScaleDownLabels
  <2>3. \A u \in Threads : pc'[u] \notin ScaleDownLabels
    BY Zenon, <1>1, <2>2, ScaleDownMoves DEF ScaleDownLabels
  <2> QED BY Zenon, <1>1, <2>1, <2>3, ListeningOff
<1> QED BY Zenon, <1>3, <1>4

\* scaleDown enables the redirects before it asks for the mutex (Reset).
LEMMA ListeningBegins ==
    ASSUME Listening, CtlOK, NEW t \in Threads, CheckScaleDown(t) PROVE Listening'
<1>1. /\ pc[t] = "check" /\ started
      /\ UNCHANGED <<scaledDown, started, exited, stopped, looped>>
  BY Zenon DEF CheckScaleDown
<1>2. CASE scaledDown
  <2>1. Moves(t, "idle") /\ redirect' = redirect
    BY Zenon, <1>2 DEF CheckScaleDown, Moves
  <2> QED BY Zenon, <1>1, <2>1, ListeningMoves DEF ScaleDownLabels
<1>3. CASE ~scaledDown
  <2>1. redirect'
    BY Zenon, <1>3 DEF CheckScaleDown
  <2> QED BY Zenon, <1>1, <2>1 DEF Listening
<1> QED BY Zenon, <1>2, <1>3

\* Every step keeps the redirects of a scale down that has begun or ended (Reset,
\* DisableRedirects), since nobody else has the turn.
LEMMA ListeningStep ==
    ASSUME OneCheck, Execs = {}
    PROVE  CtlOK /\ RunningMeanwhile /\ OneTurn /\ Listening /\ [Next]_vars
              => Listening'
<1> SUFFICES ASSUME CtlOK, RunningMeanwhile, OneTurn, Listening, [Next]_vars
              PROVE Listening'
  BY Zenon
<1>1. CASE InitActivator \/ Traffic \/ Crash \/ Rest
  <2>1. CASE InitActivator
    BY Zenon, <2>1 DEF InitActivator, Listening
  <2>2. CASE Traffic
    BY Zenon, <2>2, ListeningStill DEF Traffic
  <2>3. CASE Crash
    BY Zenon, <2>3, ListeningStill DEF Crash
  <2>4. CASE Rest
    BY Zenon, <2>4, ListeningStill DEF Rest, vars
  <2> QED
    BY Zenon, <1>1, <2>1, <2>2, <2>3, <2>4
<1>2. ASSUME NEW t \in Threads, TimerStep(t) PROVE Listening'
  <2>1. CASE TimerFires(t)
    <3>1. /\ pc[t] = "idle" /\ Moves(t, "check")
          /\ UNCHANGED <<scaledDown, started, redirect, exited, stopped, looped>>
      BY Zenon, <2>1 DEF TimerFires, Moves
    <3> QED BY Zenon, <3>1, ListeningMoves DEF ScaleDownLabels
  <2>2. CASE CheckNotStarted(t)
    <3>1. /\ pc[t] = "check" /\ Moves(t, "idle")
          /\ UNCHANGED <<scaledDown, started, redirect, exited, stopped, looped>>
      BY Zenon, <2>2 DEF CheckNotStarted, Moves
    <3> QED BY Zenon, <3>1, ListeningMoves DEF ScaleDownLabels
  <2>3. CASE CheckRecentActivity(t)
    <3>1. /\ pc[t] = "check" /\ Moves(t, "idle")
          /\ UNCHANGED <<scaledDown, started, redirect, exited, stopped, looped>>
      BY Zenon, <2>3 DEF CheckRecentActivity, Moves
    <3> QED BY Zenon, <3>1, ListeningMoves DEF ScaleDownLabels
  <2>4. CASE CheckPastDeadline(t)
    <3>1. /\ pc[t] = "check" /\ Moves(t, "idle")
          /\ UNCHANGED <<scaledDown, started, redirect, exited, stopped, looped>>
      BY Zenon, <2>4 DEF CheckPastDeadline, Moves
    <3> QED BY Zenon, <3>1, ListeningMoves DEF ScaleDownLabels
  <2>5. CASE CheckScaleDown(t)
    BY Zenon, <2>5, ListeningBegins
  <2>6. CASE CheckResetFails(t)
    <3>1. /\ pc[t] = "check" /\ Moves(t, "idle")
          /\ UNCHANGED <<scaledDown, started, redirect, exited, stopped, looped>>
      BY Zenon, <2>6 DEF CheckResetFails, Moves
    <3> QED BY Zenon, <3>1, ListeningMoves DEF ScaleDownLabels
  <2> QED
    BY Zenon, <1>2, <2>1, <2>2, <2>3, <2>4, <2>5, <2>6 DEF TimerStep
<1>3. ASSUME NEW t \in Threads, ScaleDownStep(t) PROVE Listening'
  <2>1. CASE LockCheckpoint(t)
    <3>1. /\ pc[t] = "wantCheckpoint" /\ Moves(t, "prepare")
          /\ UNCHANGED <<scaledDown, started, redirect, exited, stopped, looped>>
      BY Zenon, <2>1 DEF LockCheckpoint, Moves
    <3> QED BY Zenon, <3>1, ListeningMoves DEF ScaleDownLabels
  <2>2. CASE SnapshotDirFails(t)
    <3>1. /\ pc[t] = "prepare" /\ Moves(t, "idle")
          /\ UNCHANGED <<scaledDown, started, redirect, exited, stopped, looped>>
      BY Zenon, <2>2 DEF SnapshotDirFails, Moves
    <3> QED BY Zenon, <3>1, ListeningMoves DEF ScaleDownLabels
  <2>3. CASE AddCheckpointedPID(t)
    <3>1. /\ pc[t] = "prepare" /\ Moves(t, "dump")
          /\ UNCHANGED <<scaledDown, started, redirect, exited, stopped, looped>>
      BY Zenon, <2>3 DEF AddCheckpointedPID, Moves
    <3> QED BY Zenon, <3>1, ListeningMoves DEF ScaleDownLabels
  <2>4. CASE Dump(t)
    <3>1. /\ pc[t] = "dump" /\ Moves(t, "dumped")
          /\ UNCHANGED <<scaledDown, started, redirect, exited, stopped, looped>>
      BY Zenon, <2>4 DEF Dump, Moves
    <3> QED BY Zenon, <3>1, ListeningMoves DEF ScaleDownLabels
  <2>5. CASE DumpFails(t)
    BY Zenon, <2>5, ListeningDumpFails
  <2>6. CASE LockKill(t)
    <3>1. /\ pc[t] = "wantKill" /\ Moves(t, "killing")
          /\ UNCHANGED <<scaledDown, started, redirect, exited, stopped, looped>>
      BY Zenon, <2>6 DEF LockKill, Moves
    <3> QED BY Zenon, <3>1, ListeningMoves DEF ScaleDownLabels
  <2>7. CASE ForceDelete(t)
    <3>1. /\ pc[t] = "killing" /\ Moves(t, "dumped")
          /\ UNCHANGED <<scaledDown, started, redirect, exited, stopped, looped>>
      BY Zenon, <2>7 DEF ForceDelete, Moves
    <3> QED BY Zenon, <3>1, ListeningMoves DEF ScaleDownLabels
  <2>8. CASE ForceDeleteFails(t)
    <3>1. /\ pc[t] = "killing" /\ Moves(t, "idle")
          /\ UNCHANGED <<scaledDown, started, redirect, exited, stopped, looped>>
      BY Zenon, <2>8 DEF ForceDeleteFails, Moves
    <3> QED BY Zenon, <3>1, ListeningMoves DEF ScaleDownLabels
  <2>9. CASE SetScaledDown(t)
    <3>1. /\ pc[t] = "dumped" /\ Moves(t, "idle")
          /\ UNCHANGED <<started, redirect, exited, stopped, looped>>
      BY Zenon, <2>9 DEF SetScaledDown, Moves
    <3> QED BY Zenon, <3>1, ListeningMoves DEF ScaleDownLabels
  <2> QED
    BY Zenon, <1>3, <2>1, <2>2, <2>3, <2>4, <2>5, <2>6, <2>7, <2>8, <2>9 DEF
       ScaleDownStep
<1>4. ASSUME NEW t \in Threads, RestoreStep(t) PROVE Listening'
  <2>1. CASE LockRestore(t)
    <3>1. /\ pc[t] = "want" /\ Moves(t, "capacity")
          /\ UNCHANGED <<scaledDown, started, redirect, exited, stopped, looped>>
      BY Zenon, <2>1 DEF LockRestore, Moves
    <3> QED BY Zenon, <3>1, ListeningMoves DEF ScaleDownLabels
  <2>2. CASE AlreadyRestored(t)
    <3>1. /\ pc[t] = "want" /\ (Moves(t, "failed") \/ Moves(t, "dial"))
          /\ UNCHANGED <<scaledDown, started, redirect, exited, stopped, looped>>
      BY Zenon, <2>2 DEF AlreadyRestored, Moves
    <3> QED BY Zenon, <3>1, ListeningMoves DEF ScaleDownLabels
  <2>3. CASE CapacityAllowed(t)
    <3>1. /\ pc[t] = "capacity" /\ Moves(t, "create")
          /\ UNCHANGED <<scaledDown, started, redirect, exited, stopped, looped>>
      BY Zenon, <2>3 DEF CapacityAllowed, Moves
    <3> QED BY Zenon, <3>1, ListeningMoves DEF ScaleDownLabels
  <2>4. CASE CapacityDenied(t)
    <3>1. /\ pc[t] = "capacity"
          /\ Moves(t, "idle") \/ Moves(t, "dial") \/ Moves(t, "failed")
          /\ UNCHANGED <<scaledDown, started, redirect, exited, stopped, looped>>
      BY Zenon, <2>4 DEF CapacityDenied, Moves
    <3> QED BY Zenon, <3>1, ListeningMoves DEF ScaleDownLabels
  <2>5. CASE StartProcess(t)
    <3>1. /\ pc[t] = "create" /\ Moves(t, "post") /\ ~scaledDown'
          /\ UNCHANGED <<started, redirect, exited, stopped, looped>>
      BY Zenon, <2>5 DEF StartProcess, Moves
    <3> QED BY Zenon, <3>1, ListeningMoves DEF ScaleDownLabels
  <2>6. CASE StartFails(t)
    <3>1. /\ pc[t] \in {"create", "recreate"}
          /\ (Moves(t, "create") \/ Moves(t, "recreate") \/ Moves(t, "failed"))
          /\ UNCHANGED <<scaledDown, started, redirect, exited, stopped, looped>>
      BY Zenon, <2>6 DEF StartFails, Moves
    <3> QED BY Zenon, <3>1, ListeningMoves DEF ScaleDownLabels
  <2>7. CASE PostRestore(t)
    BY Zenon, <2>7, ListeningRestored
  <2>8. CASE RedirectsFail(t)
    <3>1. /\ pc[t] = "post" /\ (Moves(t, "recreate") \/ Moves(t, "failed"))
          /\ UNCHANGED <<scaledDown, started, redirect, exited, stopped, looped>>
      BY Zenon, <2>8 DEF RedirectsFail, Moves
    <3> QED BY Zenon, <3>1, ListeningMoves DEF ScaleDownLabels
  <2>9. CASE RedirectsPanic(t)
    <3>1. /\ pc[t] = "post" /\ Moves(t, "done")
          /\ UNCHANGED <<scaledDown, started, redirect, exited, stopped, looped>>
      BY Zenon, <2>9 DEF RedirectsPanic, Moves
    <3> QED BY Zenon, <3>1, ListeningMoves DEF ScaleDownLabels
  <2> QED
    BY Zenon, <1>4, <2>1, <2>2, <2>3, <2>4, <2>5, <2>6, <2>7, <2>8, <2>9 DEF
       RestoreStep
<1>5. ASSUME NEW t \in Threads, ConnStep(t) PROVE Listening'
  <2>1. CASE ConnRestored(t)
    <3>1. /\ pc[t] = "restored" /\ Moves(t, "dial")
          /\ UNCHANGED <<scaledDown, started, redirect, exited, stopped, looped>>
      BY Zenon, <2>1 DEF ConnRestored, Moves
    <3> QED BY Zenon, <3>1, ListeningMoves DEF ScaleDownLabels
  <2>2. CASE ConnFailed(t)
    <3>1. /\ pc[t] = "failed" /\ Moves(t, "idle") /\ exited'
          /\ UNCHANGED <<scaledDown, started, redirect, stopped, looped>>
      BY Zenon, <2>2 DEF ConnFailed, Moves
    <3> QED BY Zenon, <3>1, ListeningMoves DEF ScaleDownLabels
  <2>3. CASE Dial(t)
    <3>1. /\ pc[t] = "dial" /\ Moves(t, "idle")
          /\ UNCHANGED <<scaledDown, started, redirect, exited, stopped, looped>>
      BY Zenon, <2>3 DEF Dial, Moves
    <3> QED BY Zenon, <3>1, ListeningMoves DEF ScaleDownLabels
  <2>4. CASE DialLoops(t)
    <3>1. /\ pc[t] = "dial" /\ Moves(t, "want")
          /\ UNCHANGED <<scaledDown, started, exited, stopped>>
          /\ looped' = TRUE \/ UNCHANGED <<redirect, looped>>
      BY Zenon, <2>4 DEF DialLoops, Moves
    <3>2. CASE looped' = TRUE
      BY Zenon, <3>1, <3>2, ListeningMoves DEF ScaleDownLabels
    <3>3. CASE UNCHANGED <<redirect, looped>>
      BY Zenon, <3>1, <3>3, ListeningMoves DEF ScaleDownLabels
    <3> QED BY Zenon, <3>1, <3>2, <3>3
  <2> QED
    BY Zenon, <1>5, <2>1, <2>2, <2>3, <2>4 DEF ConnStep
<1>6. ASSUME NEW t \in Threads, ExecStep(t) PROVE Listening'
  <2>1. CASE ExecReadsPhase(t)
    <3>1. /\ pc[t] = "read" /\ (Moves(t, "want") \/ Moves(t, "add"))
          /\ UNCHANGED <<scaledDown, started, redirect, exited, stopped, looped>>
      BY Zenon, <2>1 DEF ExecReadsPhase, Moves
    <3> QED BY Zenon, <3>1, ListeningMoves DEF ScaleDownLabels
  <2>2. CASE ExecRestored(t)
    <3>1. /\ pc[t] = "restored" /\ Moves(t, "add")
          /\ UNCHANGED <<scaledDown, started, redirect, exited, stopped, looped>>
      BY Zenon, <2>2 DEF ExecRestored, Moves
    <3> QED BY Zenon, <3>1, ListeningMoves DEF ScaleDownLabels
  <2>3. CASE ExecFailed(t)
    <3>1. /\ pc[t] = "failed" /\ Moves(t, "add") /\ exited'
          /\ UNCHANGED <<scaledDown, started, redirect, stopped, looped>>
      BY Zenon, <2>3 DEF ExecFailed, Moves
    <3> QED BY Zenon, <3>1, ListeningMoves DEF ScaleDownLabels
  <2>4. CASE ExecAdd(t)
    <3>1. /\ pc[t] = "add" /\ (Moves(t, "added") \/ Moves(t, "idle"))
          /\ UNCHANGED <<scaledDown, started, redirect, exited, stopped, looped>>
      BY Zenon, <2>4 DEF ExecAdd, Moves
    <3> QED BY Zenon, <3>1, ListeningMoves DEF ScaleDownLabels
  <2>5. CASE ExecStart(t)
    <3>1. /\ pc[t] = "added" /\ (Moves(t, "session") \/ Moves(t, "ended"))
          /\ UNCHANGED <<scaledDown, started, redirect, exited, stopped, looped>>
      BY Zenon, <2>5 DEF ExecStart, Moves
    <3> QED BY Zenon, <3>1, ListeningMoves DEF ScaleDownLabels
  <2>6. CASE ExecDelete(t)
    <3>1. /\ pc[t] = "ended" /\ Moves(t, "idle")
          /\ UNCHANGED <<scaledDown, started, redirect, exited, stopped, looped>>
      BY Zenon, <2>6 DEF ExecDelete, Moves
    <3> QED BY Zenon, <3>1, ListeningMoves DEF ScaleDownLabels
  <2> QED
    BY Zenon, <1>6, <2>1, <2>2, <2>3, <2>4, <2>5, <2>6 DEF ExecStep
<1>7. ASSUME NEW t \in Threads, KillStep(t) PROVE Listening'
  <2>1. CASE KillScaledDown(t)
    <3>1. /\ pc[t] = "barrier" /\ Moves(t, "done") /\ exited' /\ stopped'
          /\ UNCHANGED <<scaledDown, started, redirect, looped>>
      BY Zenon, <2>1 DEF KillScaledDown, Moves
    <3> QED BY Zenon, <3>1, ListeningMoves DEF ScaleDownLabels
  <2>2. CASE KillRunning(t)
    <3>1. /\ pc[t] = "barrier" /\ Moves(t, "signal") /\ stopped'
          /\ UNCHANGED <<scaledDown, started, redirect, exited, looped>>
      BY Zenon, <2>2 DEF KillRunning, Moves
    <3> QED BY Zenon, <3>1, ListeningMoves DEF ScaleDownLabels
  <2>3. CASE KillSignal(t)
    <3>1. /\ pc[t] = "signal" /\ Moves(t, "done")
          /\ exited' = TRUE \/ exited' = exited
          /\ UNCHANGED <<scaledDown, started, redirect, stopped, looped>>
      BY Zenon, <2>3 DEF KillSignal, Moves
    <3>2. exited => exited'
      BY Zenon, <3>1
    <3> QED BY Zenon, <3>1, <3>2, ListeningMoves DEF ScaleDownLabels
  <2> QED
    BY Zenon, <1>7, <2>1, <2>2, <2>3 DEF KillStep
<1>8. ASSUME NEW t \in Threads,
            \/ ConnArrives(t) \/ ExecBegin(t) \/ ExecKill(t) \/ ExecExit(t)
            \/ KillBegin(t)
     PROVE  Listening'
  <2>1. CASE ConnArrives(t)
    <3>1. /\ pc[t] = "idle" /\ Moves(t, "want")
          /\ UNCHANGED <<scaledDown, started, redirect, exited, stopped, looped>>
      BY Zenon, <2>1 DEF ConnArrives, Moves
    <3> QED BY Zenon, <3>1, ListeningMoves DEF ScaleDownLabels
  <2>2. CASE ExecBegin(t)
    <3>1. /\ pc[t] = "idle" /\ Moves(t, "read")
          /\ UNCHANGED <<scaledDown, started, redirect, exited, stopped, looped>>
      BY Zenon, <2>2 DEF ExecBegin, Moves
    <3> QED BY Zenon, <3>1, ListeningMoves DEF ScaleDownLabels
  <2>3. CASE ExecKill(t)
    BY Zenon, <2>3, ListeningStill DEF ExecKill
  <2>4. CASE ExecExit(t)
    <3>1. /\ pc[t] = "session" /\ (Moves(t, "ended") \/ Moves(t, "done"))
          /\ UNCHANGED <<scaledDown, started, redirect, exited, stopped, looped>>
      BY Zenon, <2>4 DEF ExecExit, Moves
    <3> QED BY Zenon, <3>1, ListeningMoves DEF ScaleDownLabels
  <2>5. CASE KillBegin(t)
    <3>1. /\ pc[t] = "idle" /\ Moves(t, "barrier")
          /\ UNCHANGED <<scaledDown, started, redirect, exited, stopped, looped>>
      BY Zenon, <2>5 DEF KillBegin, Moves
    <3> QED BY Zenon, <3>1, ListeningMoves DEF ScaleDownLabels
  <2> QED
    BY Zenon, <1>8, <2>1, <2>2, <2>3, <2>4, <2>5
<1>9. CASE ReaperStep
  <2>1. ASSUME NEW p \in Pids, ExitUnknown(p) PROVE Listening'
    BY Zenon, <2>1, ListeningStill DEF ExitUnknown
  <2>2. ASSUME NEW p \in Pids, ExitPrevented(p) PROVE Listening'
    BY Zenon, <2>2, ListeningStill DEF ExitPrevented
  <2>3. ASSUME NEW p \in Pids, ExitReported(p) PROVE Listening'
    BY Zenon, <2>3, ListeningStill DEF ExitReported
  <2> QED
    BY Zenon, <1>9, <2>1, <2>2, <2>3 DEF ReaperStep
<1>10. CASE UNCHANGED vars
  BY Zenon, <1>10, ListeningStill DEF vars
<1> QED
  BY Zenon, <1>1, <1>2, <1>3, <1>4, <1>5, <1>6, <1>7, <1>8, <1>9, <1>10
     DEF Next, Environment, ReaperStep, ThreadStep

\* A container that rests scaled down hands its connections to the activator,
\* for any number of connections and kills and with every fault, as long as
\* nobody execs into it, the timer callbacks do not overlap and loop detection
\* has not disabled the redirects.
THEOREM ReachableCorrect ==
    ASSUME OneCheck, Execs = {} PROVE Spec => []Reachable
<1> DEFINE Inv == /\ MutexHeld /\ RunningMeanwhile
                  /\ RestoresScaledDown /\ OneTurn /\ Listening
<1>1. Init => Inv
  <2> SUFFICES ASSUME Init PROVE Inv
    OBVIOUS
  <2>1. MutexHeld /\ RunningMeanwhile /\ RestoresScaledDown
    BY DEF Init, MutexHeld, RunningMeanwhile, RestoresScaledDown,
           CriticalLabels, ScaleDownLabels
  <2>2. OneTurn
    BY Zenon, ParamsAssumption DEF Init, OneTurn, RestartLabels, Threads
  <2>3. Listening
    BY ParamsAssumption DEF Init, Listening, ScaleDownLabels
  <2> QED
    BY <2>1, <2>2, <2>3
<1>2. TypeInv /\ Inv /\ [Next]_vars => Inv'
  BY MutexStep, RunningStep, RestoresStep, TurnStep, ListeningStep
     DEF TypeInv, TypeOK
<1>3. Inv => Reachable
  BY DEF Listening, Reachable
<1> QED
  BY TypeInvariant, <1>1, <1>2, <1>3, PTL DEF Spec

-----------------------------------------------------------------------------
(***************************************************************************)
(* The exits of a scaled down process are kept from the runtime.           *)
(*                                                                         *)
(* As long as nothing has happened that may end the container, its process *)
(* runs or a scale down has just ended it, after its pid was registered in *)
(* checkpointedPIDs; so no exit that service.running knows can get past    *)
(* preventExit.  An exec next to a connection or to another exec can       *)
(* end a healthy container: its Restore gets ErrAlreadyRestored.           *)
(***************************************************************************)

\* Nobody restores the container between an exec's read of the phase and its
\* Restore: there are no execs, or one exec and no connections.
ExecAlone ==
    \/ Execs = {}
    \/ Conns = {} /\ \A a, b \in Execs : a = b

\* Nothing that sets the processes exited is on its way.
NotEnding ==
    /\ ~exited
    /\ \A t \in Threads : pc[t] \notin {"failed", "signal"}
    /\ \A t \in Execs : pc[t] = "want" => scaledDown

\* The process of Container.process runs, or a scale down has ended it.
ProcessRuns ==
    /\ alive \subseteq {cur}
    /\ alive \cap exits = {}
    /\ cont = cur
    /\ ~scaledDown => alive = {cur} \/ \E t \in Threads : pc[t] = "dumped"
    /\ \A t \in Conns : pc[t] = "restored" => got[t] = cur

\* The pid is in checkpointedPIDs before its exit is there to be handled.
ExitsExpected ==
    /\ exits \cap running \subseteq checkpointedPIDs
    /\ \A t \in Threads : pc[t] \in {"dump", "killing"} => cur \in checkpointedPIDs

Accounted == ~excused => NotEnding /\ ProcessRuns /\ ExitsExpected

\* What Accounted speaks of besides the program counters.
Unmoved == UNCHANGED <<scaledDown, procVars, exited, excused>>

\* The labels that have no part in Accounted.
QuietLabels == {"idle", "check", "barrier", "wantCheckpoint", "prepare", "wantKill", "want",
                "capacity", "create", "recreate", "dial", "done", "read", "add",
                "added", "session", "ended"}

\* A reason to end excuses whatever follows.
LEMMA AccountedEnded == ASSUME excused' PROVE Accounted'
  BY Zenon DEF Accounted

\* A goroutine that is about to set the processes exited has a reason to.
LEMMA EndingExcused ==
    ASSUME Accounted, excused' = excused, NEW t \in Threads,
           pc[t] \in {"failed", "signal"}
    PROVE  Accounted'
<1>1. excused
  BY Zenon DEF Accounted, NotEnding
<1> QED BY Zenon, <1>1, AccountedEnded

\* Only the program counters and the phase concern what may end the container.
LEMMA NotEndingMoves ==
    ASSUME NotEnding, CtlOK, NEW t \in Threads, NEW l, Moves(t, l),
           l \notin {"failed", "signal"},
           l = "want" /\ t \in Execs => scaledDown',
           scaledDown => scaledDown', exited' = exited
    PROVE  NotEnding'
<1>1. \A u \in Threads : pc'[u] = IF u = t THEN l ELSE pc[u]
  BY Zenon, PcMoves
<1>2. \A u \in Execs : u \in Threads
  BY Zenon DEF Threads
<1> QED BY Zenon, <1>1, <1>2 DEF NotEnding

\* A step between quiet labels that leaves the processes and the phase alone.
LEMMA AccountedSame ==
    ASSUME Accounted, CtlOK, NEW t \in Threads, NEW l \in QuietLabels,
           Moves(t, l), Unmoved, pc[t] # "dumped", l = "want" => t \notin Execs
    PROVE  Accounted'
<1>1. \A u \in Threads : pc'[u] = IF u = t THEN l ELSE pc[u]
  BY Zenon, PcMoves
<1>2. l \notin {"failed", "signal", "dump", "killing", "restored"}
  BY DEF QuietLabels
<1>3. \A u \in Conns : u \in Threads
  BY Zenon DEF Threads
<1>4. NotEnding => NotEnding'
  BY Zenon, <1>2, NotEndingMoves DEF Unmoved
<1>5. ProcessRuns => ProcessRuns'
  <2>1. \A u \in Threads : pc[u] = "dumped" => pc'[u] = "dumped"
    BY Zenon, <1>1
  <2>2. \A u \in Conns : pc'[u] = "restored" => pc[u] = "restored"
    BY Zenon, <1>1, <1>2, <1>3
  <2> QED BY Zenon, <2>1, <2>2 DEF ProcessRuns, Unmoved
<1>6. ExitsExpected => ExitsExpected'
  BY Zenon, <1>1, <1>2 DEF ExitsExpected, Unmoved
<1> QED BY Zenon, <1>4, <1>5, <1>6 DEF Accounted, Unmoved

\* A step that moves nobody.
LEMMA AccountedStill ==
    ASSUME Accounted, UNCHANGED pc, Unmoved PROVE Accounted'
  BY Zenon DEF Accounted, NotEnding, ProcessRuns, ExitsExpected, Unmoved

\* Until a scale down or a restore is over the process runs, and its exit is not
\* there.
LEMMA RunsMeanwhile ==
    ASSUME Accounted, ~excused, MutexHeld, RunningMeanwhile, NEW t \in Threads,
           pc[t] \in {"prepare", "dump", "killing", "post", "recreate"}
    PROVE  /\ NotEnding /\ ProcessRuns /\ ExitsExpected
           /\ ~scaledDown /\ alive = {cur} /\ cont = cur /\ cur \notin exits
           /\ \A u \in Threads : pc[u] \in CriticalLabels => u = t
<1>1. NotEnding /\ ProcessRuns /\ ExitsExpected
  BY Zenon DEF Accounted
<1>2. pc[t] \in CriticalLabels /\ pc[t] \in ScaleDownLabels \cup {"post", "recreate"}
  BY DEF CriticalLabels, ScaleDownLabels
<1>3. ~scaledDown
  BY Zenon, <1>2 DEF RunningMeanwhile
<1>4. \A u \in Threads : pc[u] \in CriticalLabels => u = t
  BY Zenon, <1>2 DEF MutexHeld
<1>5. \A u \in Threads : pc[u] # "dumped"
  BY <1>4 DEF CriticalLabels
<1>6. alive = {cur} /\ cont = cur
  BY Zenon, <1>1, <1>3, <1>5 DEF ProcessRuns
<1>7. cur \notin exits
  BY Zenon, <1>1, <1>6 DEF ProcessRuns
<1> QED BY Zenon, <1>1, <1>3, <1>4, <1>6, <1>7

\* The pid is registered (AddCheckpointedPID, in checkpoint and in kill).
LEMMA AccountedRegisters ==
    ASSUME Accounted, CtlOK, NEW t \in Threads, NEW l \in {"dump", "killing"},
           Moves(t, l), pc[t] # "dumped",
           checkpointedPIDs' = checkpointedPIDs \cup {cont},
           UNCHANGED <<scaledDown, cur, cont, got, alive, exits, running, exited,
                       excused>>
    PROVE  Accounted'
<1> SUFFICES ASSUME ~excused PROVE NotEnding' /\ ProcessRuns' /\ ExitsExpected'
  BY Zenon DEF Accounted
<1>1. NotEnding /\ ProcessRuns /\ ExitsExpected
  BY Zenon DEF Accounted
<1>2. \A u \in Threads : pc'[u] = IF u = t THEN l ELSE pc[u]
  BY Zenon, PcMoves
<1>3. NotEnding'
  BY Zenon, <1>1, NotEndingMoves
<1>4. ProcessRuns'
  <2>1. \A u \in Threads : pc[u] = "dumped" => pc'[u] = "dumped"
    BY Zenon, <1>2
  <2>2. \A u \in Conns : pc'[u] = "restored" => pc[u] = "restored"
    BY Zenon, <1>2 DEF Threads
  <2> QED BY Zenon, <1>1, <2>1, <2>2 DEF ProcessRuns
<1>5. ExitsExpected'
  <2>1. cur' \in checkpointedPIDs'
    BY Zenon, <1>1 DEF ProcessRuns
  <2>2. checkpointedPIDs \subseteq checkpointedPIDs'
    BY Zenon
  <2> QED BY Zenon, <1>1, <2>1, <2>2 DEF ExitsExpected
<1> QED BY Zenon, <1>3, <1>4, <1>5

\* The dump or the kill ends the process, whose pid is registered.
LEMMA AccountedKilled ==
    ASSUME Accounted, CtlOK, NEW t \in Threads, pc[t] \in {"dump", "killing"},
           Moves(t, "dumped"), alive' = {}, exits' = exits \cup alive,
           UNCHANGED <<scaledDown, cur, cont, got, running, checkpointedPIDs,
                       exited, excused>>
    PROVE  Accounted'
<1> SUFFICES ASSUME ~excused PROVE NotEnding' /\ ProcessRuns' /\ ExitsExpected'
  BY Zenon DEF Accounted
<1>1. NotEnding /\ ProcessRuns /\ ExitsExpected
  BY Zenon DEF Accounted
<1>2. \A u \in Threads : pc'[u] = IF u = t THEN "dumped" ELSE pc[u]
  BY Zenon, PcMoves
<1>3. NotEnding'
  BY Zenon, <1>1, NotEndingMoves
<1>4. ProcessRuns'
  <2>1. pc'[t] = "dumped"
    BY Zenon, <1>2
  <2>2. \A u \in Conns : pc'[u] = "restored" => pc[u] = "restored"
    BY Zenon, <1>2 DEF Threads
  <2> QED BY Zenon, <1>1, <2>1, <2>2 DEF ProcessRuns
<1>5. ExitsExpected'
  <2>1. cur \in checkpointedPIDs
    BY Zenon, <1>1 DEF ExitsExpected
  <2>2. exits' \cap running' \subseteq checkpointedPIDs'
    BY Zenon, <1>1, <2>1 DEF ExitsExpected, ProcessRuns
  <2> QED BY Zenon, <2>1, <2>2 DEF ExitsExpected
<1> QED BY Zenon, <1>3, <1>4, <1>5

\* The dump fails: the pid is taken back, and the process still runs
\* (resetOnErr).
LEMMA AccountedDumpFails ==
    ASSUME Accounted, CtlOK, MutexHeld, RunningMeanwhile, NEW t \in Threads,
           pc[t] \in {"dump", "prepare"}, Moves(t, "idle"),
           checkpointedPIDs' = checkpointedPIDs \ {cont},
           UNCHANGED <<scaledDown, cur, cont, got, alive, exits, running, exited,
                       excused>>
    PROVE  Accounted'
<1> SUFFICES ASSUME ~excused PROVE NotEnding' /\ ProcessRuns' /\ ExitsExpected'
  BY Zenon DEF Accounted
<1>1. /\ NotEnding /\ ProcessRuns /\ ExitsExpected
      /\ ~scaledDown /\ alive = {cur} /\ cont = cur /\ cur \notin exits
      /\ \A u \in Threads : pc[u] \in CriticalLabels => u = t
  BY Zenon, RunsMeanwhile
<1>2. \A u \in Threads : pc'[u] = IF u = t THEN "idle" ELSE pc[u]
  BY Zenon, PcMoves
<1>3. NotEnding'
  BY Zenon, <1>1, NotEndingMoves
<1>4. ProcessRuns'
  <2>1. \A u \in Conns : pc'[u] = "restored" => pc[u] = "restored"
    BY Zenon, <1>2 DEF Threads
  <2> QED BY Zenon, <1>1, <2>1 DEF ProcessRuns
<1>5. ExitsExpected'
  <2>1. \A u \in Threads : pc'[u] \notin {"dump", "killing"}
    BY Zenon, <1>1, <1>2 DEF CriticalLabels
  <2>2. exits' \cap running' \subseteq checkpointedPIDs'
    BY Zenon, <1>1 DEF ExitsExpected
  <2> QED BY Zenon, <2>1, <2>2 DEF ExitsExpected
<1> QED BY Zenon, <1>3, <1>4, <1>5

\* The phase changes (setPhaseNotify).
LEMMA AccountedScaledDown ==
    ASSUME Accounted, CtlOK, NEW t \in Threads, Moves(t, "idle"), scaledDown',
           UNCHANGED <<procVars, exited, excused>>
    PROVE  Accounted'
<1> SUFFICES ASSUME ~excused PROVE NotEnding' /\ ProcessRuns' /\ ExitsExpected'
  BY Zenon DEF Accounted
<1>1. NotEnding /\ ProcessRuns /\ ExitsExpected
  BY Zenon DEF Accounted
<1>2. \A u \in Threads : pc'[u] = IF u = t THEN "idle" ELSE pc[u]
  BY Zenon, PcMoves
<1>3. NotEnding'
  BY Zenon, <1>1, NotEndingMoves
<1>4. ProcessRuns'
  <2>1. \A u \in Conns : pc'[u] = "restored" => pc[u] = "restored"
    BY Zenon, <1>2 DEF Threads
  <2> QED BY Zenon, <1>1, <2>1 DEF ProcessRuns
<1>5. ExitsExpected'
  BY Zenon, <1>1, <1>2 DEF ExitsExpected
<1> QED BY Zenon, <1>3, <1>4, <1>5

\* A restore starts a process, with a pid whose exit is not there.  Nobody else
\* is between its restore and the next scale down, and no exec waits to restore.
LEMMA AccountedStarts ==
    ASSUME ExecAlone, Accounted, CtlOK, MutexHeld, RestoresScaledDown,
           Execs = {} => OneTurn, NEW t \in Threads, StartProcess(t)
    PROVE  Accounted'
<1> SUFFICES ASSUME ~excused PROVE NotEnding' /\ ProcessRuns' /\ ExitsExpected'
  BY Zenon DEF Accounted, StartProcess
<1>1. NotEnding /\ ProcessRuns /\ ExitsExpected
  BY Zenon DEF Accounted
<1>2. /\ pc[t] = "create" /\ Moves(t, "post") /\ ~scaledDown'
      /\ UNCHANGED <<got, exits, running, checkpointedPIDs, exited>>
  BY Zenon DEF StartProcess, Moves
<1>3. PICK p \in Pids \ exits : cur' = p /\ cont' = p /\ alive' = {p}
  BY Zenon DEF StartProcess
<1>4. \A u \in Threads : pc'[u] = IF u = t THEN "post" ELSE pc[u]
  BY Zenon, <1>2, PcMoves
<1>5. scaledDown
  BY Zenon, <1>2 DEF RestoresScaledDown
<1>6. \A u \in Threads : pc[u] \in CriticalLabels => u = t
  BY Zenon, <1>2 DEF MutexHeld, CriticalLabels
<1>7. t \in Conns \cup Execs
  <2>1. t \notin Checks /\ t \notin Kills
    BY Zenon, <1>2 DEF CtlOK, CheckLabels, KillLabels
  <2> QED BY Zenon, <2>1 DEF Threads
<1>8. \A u \in Execs : pc'[u] # "want"
  BY Zenon, <1>4, <1>7 DEF ExecAlone, Threads
<1>9. \A u \in Conns : pc'[u] # "restored"
  <2>1. CASE Execs = {}
    <3>1. ~exited /\ OneTurn
      BY Zenon, <1>1, <2>1 DEF NotEnding
    <3>2. \A u \in Conns : pc[u] \notin RestartLabels
      BY Zenon, <1>5, <3>1 DEF OneTurn
    <3>3. \A u \in Conns : pc[u] # "restored"
      BY Zenon, <3>2 DEF RestartLabels
    <3> QED BY Zenon, <1>4, <3>3 DEF Threads
  <2>2. CASE Conns = {}
    BY Zenon, <2>2
  <2> QED BY Zenon, <2>1, <2>2 DEF ExecAlone
<1>10. \A u \in Threads : pc'[u] \notin {"dump", "killing"}
  BY Zenon, <1>2, <1>4, <1>6 DEF CriticalLabels
<1>11. NotEnding'
  BY Zenon, <1>1, <1>2, <1>4, <1>8 DEF NotEnding
<1>12. ProcessRuns'
  BY Zenon, <1>2, <1>3, <1>9 DEF ProcessRuns
<1>13. ExitsExpected'
  BY Zenon, <1>1, <1>2, <1>10 DEF ExitsExpected
<1> QED BY Zenon, <1>11, <1>12, <1>13

\* handleStarted puts the pid of the running process into service.running.
LEMMA AccountedPost ==
    ASSUME Accounted, CtlOK, MutexHeld, RunningMeanwhile, NEW t \in Threads,
           pc[t] = "post", NEW l \in {"restored", "recreate"}, Moves(t, l),
           l = "restored" => \A u \in Conns : got'[u] = IF u = t THEN cur ELSE got[u],
           l = "recreate" => got' = got,
           running' = running \cup {cur},
           UNCHANGED <<scaledDown, cur, cont, alive, exits, checkpointedPIDs, exited,
                       excused>>
    PROVE  Accounted'
<1> SUFFICES ASSUME ~excused PROVE NotEnding' /\ ProcessRuns' /\ ExitsExpected'
  BY Zenon DEF Accounted
<1>1. /\ NotEnding /\ ProcessRuns /\ ExitsExpected
      /\ ~scaledDown /\ alive = {cur} /\ cont = cur /\ cur \notin exits
      /\ \A u \in Threads : pc[u] \in CriticalLabels => u = t
  BY Zenon, RunsMeanwhile
<1>2. \A u \in Threads : pc'[u] = IF u = t THEN l ELSE pc[u]
  BY Zenon, PcMoves
<1>3. NotEnding'
  BY Zenon, <1>1, NotEndingMoves
<1>4. ProcessRuns'
  <2>1. ASSUME NEW u \in Conns, pc'[u] = "restored" PROVE got'[u] = cur
    <3>1. u \in Threads
      BY Zenon DEF Threads
    <3>2. CASE u = t
      BY Zenon, <1>2, <2>1, <3>1, <3>2
    <3>3. CASE u # t
      <4>1. pc[u] = "restored"
        BY Zenon, <1>2, <2>1, <3>1, <3>3
      <4>2. got'[u] = got[u]
        BY Zenon, <3>3
      <4> QED BY Zenon, <1>1, <4>1, <4>2 DEF ProcessRuns
    <3> QED BY Zenon, <3>2, <3>3
  <2> QED BY Zenon, <1>1, <2>1 DEF ProcessRuns
<1>5. ExitsExpected'
  <2>1. exits' \cap running' \subseteq checkpointedPIDs'
    BY Zenon, <1>1 DEF ExitsExpected
  <2>2. \A u \in Threads : pc'[u] \in {"dump", "killing"} => pc[u] = pc'[u]
    BY Zenon, <1>2
  <2> QED BY Zenon, <1>1, <2>1, <2>2 DEF ExitsExpected
<1> QED BY Zenon, <1>3, <1>4, <1>5

\* The restoreHandler stores the runc.Container that is still the current one.
LEMMA AccountedStores ==
    ASSUME Accounted, CtlOK, DataOK, NEW t \in Conns, ConnRestored(t)
    PROVE  Accounted'
<1>1. /\ pc[t] = "restored" /\ Moves(t, "dial") /\ cont' = got[t]
      /\ got' = [got EXCEPT ![t] = NoPid]
      /\ UNCHANGED <<scaledDown, cur, alive, exits, running, checkpointedPIDs,
                     exited, excused>>
  BY Zenon DEF ConnRestored, Moves
<1> SUFFICES ASSUME ~excused PROVE NotEnding' /\ ProcessRuns' /\ ExitsExpected'
  BY Zenon, <1>1 DEF Accounted
<1>2. NotEnding /\ ProcessRuns /\ ExitsExpected
  BY Zenon DEF Accounted
<1>3. t \in Threads /\ \A u \in Conns : u \in Threads
  BY Zenon DEF Threads
<1>4. \A u \in Threads : pc'[u] = IF u = t THEN "dial" ELSE pc[u]
  BY Zenon, <1>1, <1>3, PcMoves
<1>5. NotEnding'
  BY Zenon, <1>1, <1>2, <1>3, NotEndingMoves
<1>6. ProcessRuns'
  <2>1. got[t] = cur
    BY Zenon, <1>1, <1>2 DEF ProcessRuns
  <2>2. \A u \in Conns : u # t => got'[u] = got[u]
    BY <1>1 DEF DataOK
  <2>3. \A u \in Conns : pc'[u] = "restored" => u # t /\ pc[u] = "restored"
    BY Zenon, <1>3, <1>4
  <2>4. \A u \in Conns : pc'[u] = "restored" => got'[u] = cur
    BY Zenon, <1>2, <2>2, <2>3 DEF ProcessRuns
  <2>5. \A u \in Threads : pc[u] = "dumped" => pc'[u] = "dumped"
    BY Zenon, <1>1, <1>4
  <2> QED BY Zenon, <1>1, <1>2, <2>1, <2>4, <2>5 DEF ProcessRuns
<1>7. ExitsExpected'
  BY Zenon, <1>1, <1>2, <1>4 DEF ExitsExpected
<1> QED BY Zenon, <1>5, <1>6, <1>7

\* The exit of a scaled down process is taken out, and no other (preventExit).
LEMMA AccountedPrevents ==
    ASSUME Accounted, MutexHeld, RunningMeanwhile, NEW p \in exits,
           exits' = exits \ {p}, running' \in {running, running \ {p}},
           \/ checkpointedPIDs' = checkpointedPIDs
           \/ checkpointedPIDs' = checkpointedPIDs \ {p},
           UNCHANGED <<pc, scaledDown, cur, cont, got, alive, exited, excused>>
    PROVE  Accounted'
<1> SUFFICES ASSUME ~excused PROVE NotEnding' /\ ProcessRuns' /\ ExitsExpected'
  BY Zenon DEF Accounted
<1>1. NotEnding /\ ProcessRuns /\ ExitsExpected
  BY Zenon DEF Accounted
<1>2. NotEnding'
  BY Zenon, <1>1 DEF NotEnding
<1>3. ProcessRuns'
  <2>1. alive' \cap exits' = {}
    BY Zenon, <1>1 DEF ProcessRuns
  <2> QED BY Zenon, <1>1, <2>1 DEF ProcessRuns
<1>4. ExitsExpected'
  <2>1. ASSUME NEW u \in Threads, pc[u] \in {"dump", "killing"}
        PROVE  cur \in checkpointedPIDs'
    <3>1. cur \notin exits
      BY Zenon, <2>1, RunsMeanwhile
    <3>2. cur \in checkpointedPIDs
      BY Zenon, <1>1, <2>1 DEF ExitsExpected
    <3> QED BY Zenon, <3>1, <3>2
  <2>2. exits' \cap running' \subseteq checkpointedPIDs'
    <3>1. exits' \cap running' \subseteq (exits \cap running) \ {p}
      BY Zenon
    <3>2. (exits \cap running) \ {p} \subseteq checkpointedPIDs'
      BY Zenon, <1>1 DEF ExitsExpected
    <3> QED BY Zenon, <3>1, <3>2
  <2> QED BY Zenon, <2>1, <2>2 DEF ExitsExpected
<1> QED BY Zenon, <1>2, <1>3, <1>4

\* An exec goes to restore a container that it has seen scaled down.
LEMMA AccountedReads ==
    ASSUME Accounted, CtlOK, NEW t \in Threads, Moves(t, "want"), Unmoved,
           pc[t] = "read", scaledDown
    PROVE  Accounted'
<1> SUFFICES ASSUME ~excused PROVE NotEnding' /\ ProcessRuns' /\ ExitsExpected'
  BY Zenon DEF Accounted, Unmoved
<1>1. NotEnding /\ ProcessRuns /\ ExitsExpected
  BY Zenon DEF Accounted
<1>2. \A u \in Threads : pc'[u] = IF u = t THEN "want" ELSE pc[u]
  BY Zenon, PcMoves
<1>3. NotEnding'
  BY Zenon, <1>1, NotEndingMoves DEF Unmoved
<1>4. ProcessRuns'
  <2>1. \A u \in Conns : pc'[u] = "restored" => pc[u] = "restored"
    BY Zenon, <1>2 DEF Threads
  <2> QED BY Zenon, <1>1, <2>1 DEF ProcessRuns, Unmoved
<1>5. ExitsExpected'
  BY Zenon, <1>1, <1>2 DEF ExitsExpected, Unmoved
<1> QED BY Zenon, <1>3, <1>4, <1>5

\* Every step that leaves the container without a reason to end keeps its exits
\* accounted for (AddCheckpointedPID before the dump, postRestore, preventExit).
LEMMA AccountedStep ==
    ASSUME ExecAlone
    PROVE  TypeInv /\ MutexHeld /\ RunningMeanwhile /\ RestoresScaledDown
              /\ (Execs = {} => OneTurn) /\ Accounted /\ [Next]_vars
              => Accounted'
<1> SUFFICES ASSUME CtlOK, DataOK, MutexHeld, RunningMeanwhile, RestoresScaledDown,
                    Execs = {} => OneTurn, Accounted, [Next]_vars
             PROVE  Accounted'
  BY Zenon DEF TypeInv, TypeOK
<1>1. CASE InitActivator \/ Traffic \/ Crash \/ Rest
  <2>1. CASE InitActivator
    BY Zenon, <2>1, AccountedStill DEF InitActivator, Unmoved
  <2>2. CASE Traffic
    BY Zenon, <2>2, AccountedStill DEF Traffic, Unmoved
  <2>3. CASE Crash
    BY Zenon, <2>3, AccountedEnded DEF Crash
  <2>4. CASE Rest
    BY Zenon, <2>4, AccountedStill DEF Rest, vars, Unmoved
  <2> QED
    BY Zenon, <1>1, <2>1, <2>2, <2>3, <2>4
<1>2. ASSUME NEW t \in Threads, TimerStep(t) PROVE Accounted'
  <2>1. CASE TimerFires(t)
    <3>1. pc[t] = "idle" /\ Moves(t, "check") /\ Unmoved
      BY Zenon, <2>1 DEF TimerFires, Moves, Unmoved
    <3> QED BY Zenon, <3>1, AccountedSame DEF QuietLabels
  <2>2. CASE CheckNotStarted(t)
    <3>1. pc[t] = "check" /\ Moves(t, "idle") /\ Unmoved
      BY Zenon, <2>2 DEF CheckNotStarted, Moves, Unmoved
    <3> QED BY Zenon, <3>1, AccountedSame DEF QuietLabels
  <2>3. CASE CheckRecentActivity(t)
    <3>1. pc[t] = "check" /\ Moves(t, "idle") /\ Unmoved
      BY Zenon, <2>3 DEF CheckRecentActivity, Moves, Unmoved
    <3> QED BY Zenon, <3>1, AccountedSame DEF QuietLabels
  <2>4. CASE CheckPastDeadline(t)
    <3>1. pc[t] = "check" /\ Moves(t, "idle") /\ Unmoved
      BY Zenon, <2>4 DEF CheckPastDeadline, Moves, Unmoved
    <3> QED BY Zenon, <3>1, AccountedSame DEF QuietLabels
  <2>5. CASE CheckScaleDown(t)
    <3>1. pc[t] = "check" /\ Unmoved /\ (Moves(t, "idle") \/ Moves(t, "wantKill") \/ Moves(t, "wantCheckpoint"))
      BY Zenon, <2>5 DEF CheckScaleDown, Moves, Unmoved
    <3> QED BY Zenon, <3>1, AccountedSame DEF QuietLabels
  <2>6. CASE CheckResetFails(t)
    <3>1. pc[t] = "check" /\ Moves(t, "idle") /\ Unmoved
      BY Zenon, <2>6 DEF CheckResetFails, Moves, Unmoved
    <3> QED BY Zenon, <3>1, AccountedSame DEF QuietLabels
  <2> QED
    BY Zenon, <1>2, <2>1, <2>2, <2>3, <2>4, <2>5, <2>6 DEF TimerStep
<1>3. ASSUME NEW t \in Threads, ScaleDownStep(t) PROVE Accounted'
  <2>1. CASE LockCheckpoint(t)
    <3>1. pc[t] = "wantCheckpoint" /\ Moves(t, "prepare") /\ Unmoved
      BY Zenon, <2>1 DEF LockCheckpoint, Moves, Unmoved
    <3> QED BY Zenon, <3>1, AccountedSame DEF QuietLabels
  <2>2. CASE SnapshotDirFails(t)
    <3>1. pc[t] = "prepare" /\ Moves(t, "idle") /\ Unmoved
      BY Zenon, <2>2 DEF SnapshotDirFails, Moves, Unmoved
    <3> QED BY Zenon, <3>1, AccountedSame DEF QuietLabels
  <2>3. CASE AddCheckpointedPID(t)
    <3>1. /\ pc[t] = "prepare" /\ Moves(t, "dump")
          /\ checkpointedPIDs' = checkpointedPIDs \cup {cont}
          /\ UNCHANGED <<scaledDown, cur, cont, got, alive, exits, running, exited,
                         excused>>
      BY Zenon, <2>3 DEF AddCheckpointedPID, Moves
    <3> QED BY Zenon, <3>1, AccountedRegisters
  <2>4. CASE Dump(t)
    <3>1. /\ pc[t] = "dump" /\ Moves(t, "dumped")
          /\ alive' = {} /\ exits' = exits \cup alive
          /\ UNCHANGED <<scaledDown, cur, cont, got, running, checkpointedPIDs,
                         exited, excused>>
      BY Zenon, <2>4 DEF Dump, Moves
    <3> QED BY Zenon, <3>1, AccountedKilled
  <2>5. CASE DumpFails(t)
    <3>1. /\ pc[t] \in {"dump", "prepare"} /\ Moves(t, "idle")
          /\ checkpointedPIDs' = checkpointedPIDs \ {cont}
          /\ UNCHANGED <<scaledDown, cur, cont, got, alive, exits, running, exited,
                         excused>>
      BY Zenon, <2>5 DEF DumpFails, Moves
    <3> QED BY Zenon, <3>1, AccountedDumpFails
  <2>6. CASE LockKill(t)
    <3>1. /\ pc[t] = "wantKill" /\ Moves(t, "killing")
          /\ checkpointedPIDs' = checkpointedPIDs \cup {cont}
          /\ UNCHANGED <<scaledDown, cur, cont, got, alive, exits, running, exited,
                         excused>>
      BY Zenon, <2>6 DEF LockKill, Moves
    <3> QED BY Zenon, <3>1, AccountedRegisters
  <2>7. CASE ForceDelete(t)
    <3>1. /\ pc[t] = "killing" /\ Moves(t, "dumped")
          /\ alive' = {} /\ exits' = exits \cup alive
          /\ UNCHANGED <<scaledDown, cur, cont, got, running, checkpointedPIDs,
                         exited, excused>>
      BY Zenon, <2>7 DEF ForceDelete, Moves
    <3> QED BY Zenon, <3>1, AccountedKilled
  <2>8. CASE ForceDeleteFails(t)
    <3>1. pc[t] = "killing" /\ Moves(t, "idle") /\ Unmoved
      BY Zenon, <2>8 DEF ForceDeleteFails, Moves, Unmoved
    <3> QED BY Zenon, <3>1, AccountedSame DEF QuietLabels
  <2>9. CASE SetScaledDown(t)
    BY Zenon, <2>9, AccountedScaledDown DEF SetScaledDown, Moves
  <2> QED
    BY Zenon, <1>3, <2>1, <2>2, <2>3, <2>4, <2>5, <2>6, <2>7, <2>8, <2>9 DEF ScaleDownStep
<1>4. ASSUME NEW t \in Threads, RestoreStep(t) PROVE Accounted'
  <2>1. CASE LockRestore(t)
    <3>1. pc[t] = "want" /\ Moves(t, "capacity") /\ Unmoved
      BY Zenon, <2>1 DEF LockRestore, Moves, Unmoved
    <3> QED BY Zenon, <3>1, AccountedSame DEF QuietLabels
  <2>2. CASE AlreadyRestored(t)
    <3>1. pc[t] = "want" /\ ~scaledDown /\ Unmoved
      BY Zenon, <2>2 DEF AlreadyRestored, Unmoved
    <3>2. CASE t \in Execs
      <4>1. excused
        BY Zenon, <3>1, <3>2 DEF Accounted, NotEnding
      <4> QED BY Zenon, <3>1, <4>1, AccountedEnded DEF Unmoved
    <3>3. CASE t \notin Execs
      <4>1. Moves(t, "dial")
        BY Zenon, <2>2, <3>3 DEF AlreadyRestored, Moves
      <4> QED BY Zenon, <3>1, <4>1, AccountedSame DEF QuietLabels
    <3> QED BY Zenon, <3>2, <3>3
  <2>3. CASE CapacityAllowed(t)
    <3>1. pc[t] = "capacity" /\ Moves(t, "create") /\ Unmoved
      BY Zenon, <2>3 DEF CapacityAllowed, Moves, Unmoved
    <3> QED BY Zenon, <3>1, AccountedSame DEF QuietLabels
  <2>4. CASE CapacityDenied(t)
    <3>1. \/ excused'
          \/ /\ pc[t] = "capacity" /\ (Moves(t, "idle") \/ Moves(t, "dial"))
             /\ Unmoved
      BY Zenon, <2>4 DEF CapacityDenied, Moves, Unmoved
    <3> QED BY Zenon, <3>1, AccountedEnded, AccountedSame DEF QuietLabels
  <2>5. CASE StartProcess(t)
    BY Zenon, <2>5, AccountedStarts
  <2>6. CASE StartFails(t)
    <3>1. \/ excused'
          \/ pc[t] = "create" /\ Moves(t, "create") /\ Unmoved
          \/ pc[t] = "recreate" /\ Moves(t, "recreate") /\ Unmoved
      BY Zenon, <2>6 DEF StartFails, Moves, Unmoved
    <3> QED BY Zenon, <3>1, AccountedEnded, AccountedSame DEF QuietLabels
  <2>7. CASE PostRestore(t)
    <3>1. /\ pc[t] = "post" /\ Moves(t, "restored") /\ running' = running \cup {cur}
          /\ got' = [u \in Conns |-> IF u = t THEN cur ELSE got[u]]
          /\ UNCHANGED <<scaledDown, cur, cont, alive, exits, checkpointedPIDs,
                         exited, excused>>
      BY Zenon, <2>7 DEF PostRestore, Moves
    <3>2. \A u \in Conns : got'[u] = IF u = t THEN cur ELSE got[u]
      BY Zenon, <3>1
    <3> QED BY Zenon, <3>1, <3>2, AccountedPost
  <2>8. CASE RedirectsFail(t)
    <3>1. \/ excused'
          \/ /\ pc[t] = "post" /\ Moves(t, "recreate") /\ running' = running \cup {cur}
             /\ UNCHANGED <<scaledDown, cur, cont, got, alive, exits,
                            checkpointedPIDs, exited, excused>>
      BY Zenon, <2>8 DEF RedirectsFail, Moves
    <3> QED BY Zenon, <3>1, AccountedEnded, AccountedPost
  <2>9. CASE RedirectsPanic(t)
    <3>1. pc[t] = "post" /\ Moves(t, "done") /\ Unmoved
      BY Zenon, <2>9 DEF RedirectsPanic, Moves, Unmoved
    <3> QED BY Zenon, <3>1, AccountedSame DEF QuietLabels
  <2> QED
    BY Zenon, <1>4, <2>1, <2>2, <2>3, <2>4, <2>5, <2>6, <2>7, <2>8, <2>9 DEF RestoreStep
<1>5. ASSUME NEW t \in Threads, ConnStep(t) PROVE Accounted'
  <2>1. CASE ConnRestored(t)
    BY Zenon, <2>1, AccountedStores DEF ConnRestored
  <2>2. CASE ConnFailed(t)
    <3>1. pc[t] = "failed" /\ excused' = excused
      BY Zenon, <2>2 DEF ConnFailed
    <3> QED BY Zenon, <3>1, EndingExcused
  <2>3. CASE Dial(t)
    <3>1. pc[t] = "dial" /\ Moves(t, "idle") /\ Unmoved
      BY Zenon, <2>3 DEF Dial, Moves, Unmoved
    <3> QED BY Zenon, <3>1, AccountedSame DEF QuietLabels
  <2>4. CASE DialLoops(t)
    <3>1. pc[t] = "dial" /\ Moves(t, "want") /\ Unmoved
      BY Zenon, <2>4 DEF DialLoops, Moves, Unmoved
    <3>2. t \notin Execs
      BY Zenon, <3>1 DEF CtlOK, ExecLabels, RestoreLabels
    <3> QED BY Zenon, <3>1, <3>2, AccountedSame DEF QuietLabels
  <2> QED
    BY Zenon, <1>5, <2>1, <2>2, <2>3, <2>4 DEF ConnStep
<1>6. ASSUME NEW t \in Threads, ExecStep(t) PROVE Accounted'
  <2>1. CASE ExecReadsPhase(t)
    <3>1. pc[t] = "read" /\ Unmoved
      BY Zenon, <2>1 DEF ExecReadsPhase, Unmoved
    <3>2. CASE scaledDown
      <4>1. Moves(t, "want")
        BY Zenon, <2>1, <3>2 DEF ExecReadsPhase, Moves
      <4> QED BY Zenon, <3>1, <3>2, <4>1, AccountedReads
    <3>3. CASE ~scaledDown
      <4>1. Moves(t, "add")
        BY Zenon, <2>1, <3>3 DEF ExecReadsPhase, Moves
      <4> QED BY Zenon, <3>1, <4>1, AccountedSame DEF QuietLabels
    <3> QED BY Zenon, <3>2, <3>3
  <2>2. CASE ExecRestored(t)
    <3>1. pc[t] = "restored" /\ Moves(t, "add") /\ Unmoved
      BY Zenon, <2>2 DEF ExecRestored, Moves, Unmoved
    <3> QED BY Zenon, <3>1, AccountedSame DEF QuietLabels
  <2>3. CASE ExecFailed(t)
    <3>1. pc[t] = "failed" /\ excused' = excused
      BY Zenon, <2>3 DEF ExecFailed
    <3> QED BY Zenon, <3>1, EndingExcused
  <2>4. CASE ExecAdd(t)
    <3>1. pc[t] = "add" /\ Unmoved /\ (Moves(t, "added") \/ Moves(t, "idle"))
      BY Zenon, <2>4 DEF ExecAdd, Moves, Unmoved
    <3> QED BY Zenon, <3>1, AccountedSame DEF QuietLabels
  <2>5. CASE ExecStart(t)
    <3>1. pc[t] = "added" /\ Unmoved /\ (Moves(t, "session") \/ Moves(t, "ended"))
      BY Zenon, <2>5 DEF ExecStart, Moves, Unmoved
    <3> QED BY Zenon, <3>1, AccountedSame DEF QuietLabels
  <2>6. CASE ExecDelete(t)
    <3>1. pc[t] = "ended" /\ Moves(t, "idle") /\ Unmoved
      BY Zenon, <2>6 DEF ExecDelete, Moves, Unmoved
    <3> QED BY Zenon, <3>1, AccountedSame DEF QuietLabels
  <2> QED
    BY Zenon, <1>6, <2>1, <2>2, <2>3, <2>4, <2>5, <2>6 DEF ExecStep
<1>7. ASSUME NEW t \in Threads, KillStep(t) PROVE Accounted'
  <2>1. CASE KillScaledDown(t)
    BY Zenon, <2>1, AccountedEnded DEF KillScaledDown
  <2>2. CASE KillRunning(t)
    BY Zenon, <2>2, AccountedEnded DEF KillRunning
  <2>3. CASE KillSignal(t)
    <3>1. pc[t] = "signal" /\ excused' = excused
      BY Zenon, <2>3 DEF KillSignal
    <3> QED BY Zenon, <3>1, EndingExcused
  <2> QED
    BY Zenon, <1>7, <2>1, <2>2, <2>3 DEF KillStep
<1>8. ASSUME NEW t \in Threads,
            \/ ConnArrives(t) \/ ExecBegin(t) \/ ExecKill(t) \/ ExecExit(t)
            \/ KillBegin(t)
     PROVE  Accounted'
  <2>1. CASE ConnArrives(t)
    <3>1. pc[t] = "idle" /\ Moves(t, "want") /\ Unmoved /\ t \notin Execs
      BY Zenon, <2>1, ThreadsAssumption DEF ConnArrives, Moves, Unmoved
    <3> QED BY Zenon, <3>1, AccountedSame DEF QuietLabels
  <2>2. CASE ExecBegin(t)
    <3>1. pc[t] = "idle" /\ Moves(t, "read") /\ Unmoved
      BY Zenon, <2>2 DEF ExecBegin, Moves, Unmoved
    <3> QED BY Zenon, <3>1, AccountedSame DEF QuietLabels
  <2>3. CASE ExecKill(t)
    BY Zenon, <2>3, AccountedStill DEF ExecKill, Unmoved
  <2>4. CASE ExecExit(t)
    <3>1. pc[t] = "session" /\ Unmoved /\ (Moves(t, "ended") \/ Moves(t, "done"))
      BY Zenon, <2>4 DEF ExecExit, Moves, Unmoved
    <3> QED BY Zenon, <3>1, AccountedSame DEF QuietLabels
  <2>5. CASE KillBegin(t)
    <3>1. pc[t] = "idle" /\ Moves(t, "barrier") /\ Unmoved
      BY Zenon, <2>5 DEF KillBegin, Moves, Unmoved
    <3> QED BY Zenon, <3>1, AccountedSame DEF QuietLabels
  <2> QED
    BY Zenon, <1>8, <2>1, <2>2, <2>3, <2>4, <2>5
<1>9. CASE ReaperStep
  <2>1. ASSUME NEW p \in Pids, ExitUnknown(p) PROVE Accounted'
    <3>1. /\ p \in exits /\ exits' = exits \ {p}
          /\ UNCHANGED <<pc, scaledDown, cur, cont, got, alive, running,
                         checkpointedPIDs, exited, excused>>
      BY Zenon, <2>1 DEF ExitUnknown
    <3> QED BY Zenon, <3>1, AccountedPrevents
  <2>2. ASSUME NEW p \in Pids, ExitPrevented(p) PROVE Accounted'
    <3>1. /\ p \in exits /\ exits' = exits \ {p} /\ running' = running \ {p}
          /\ \/ checkpointedPIDs' = checkpointedPIDs
             \/ checkpointedPIDs' = checkpointedPIDs \ {p}
          /\ UNCHANGED <<pc, scaledDown, cur, cont, got, alive, exited, excused>>
      BY Zenon, <2>2 DEF ExitPrevented
    <3> QED BY Zenon, <3>1, AccountedPrevents
  <2>3. ASSUME NEW p \in Pids, ExitReported(p) PROVE Accounted'
    <3>1. /\ p \in exits \cap running /\ p \notin checkpointedPIDs
          /\ excused' = excused
      BY Zenon, <2>3 DEF ExitReported
    <3>2. excused
      BY Zenon, <3>1 DEF Accounted, ExitsExpected
    <3> QED BY Zenon, <3>1, <3>2, AccountedEnded
  <2> QED
    BY Zenon, <1>9, <2>1, <2>2, <2>3 DEF ReaperStep
<1>10. CASE UNCHANGED vars
  BY Zenon, <1>10, AccountedStill DEF vars, Unmoved
<1> QED
  BY Zenon, <1>1, <1>2, <1>3, <1>4, <1>5, <1>6, <1>7, <1>8, <1>9, <1>10
     DEF Next, Environment, ReaperStep, ThreadStep

\* The initial process is set exited only after the application exited by
\* itself, a Kill was requested, capacity was refused or both attempts of a
\* restore failed, for any number of connections and kills and with every fault:
\* the exit of a scaled down process never reaches the runtime (preventExit).
THEOREM ExitHasCauseCorrect ==
    ASSUME OneCheck, ExecAlone PROVE Spec => []ExitHasCause
<1> DEFINE Inv == /\ MutexHeld /\ RunningMeanwhile /\ RestoresScaledDown
                  /\ Execs = {} => OneTurn
                  /\ Accounted
<1>1. Init => Inv
  <2> SUFFICES ASSUME Init PROVE Inv
    OBVIOUS
  <2>1. MutexHeld /\ RunningMeanwhile /\ RestoresScaledDown
    BY DEF Init, MutexHeld, RunningMeanwhile, RestoresScaledDown,
           CriticalLabels, ScaleDownLabels
  <2>2. OneTurn
    BY Zenon, ParamsAssumption DEF Init, OneTurn, RestartLabels, Threads
  <2>3. NotEnding /\ ExitsExpected
    BY DEF Init, NotEnding, ExitsExpected, Threads
  <2>4. ProcessRuns
    BY ParamsAssumption DEF Init, ProcessRuns, Threads
  <2> QED
    BY Zenon, <2>1, <2>2, <2>3, <2>4 DEF Accounted
<1>2. TypeInv /\ Inv /\ [Next]_vars => Inv'
  BY Zenon, MutexStep, RunningStep, RestoresStep, TurnStep, AccountedStep
     DEF TypeInv, TypeOK
<1>3. Inv => ExitHasCause
  BY Zenon DEF Accounted, NotEnding, ExitHasCause
<1> QED
  BY TypeInvariant, <1>1, <1>2, <1>3, PTL DEF Spec

\* Until a restore has failed, a container whose checkpointing is disabled was
\* last scaled down by a kill.
Survives ==
    noCheckpoint /\ ~restoreOff =>
        /\ scaledDown => mode = "kill"
        /\ \A t \in Threads :
              /\ pc[t] = "dumped" => mode = "kill"
              /\ pc[t] \notin {"wantCheckpoint", "prepare", "dump"}

\* A checkpoint that is under way, or has just ended.
CheckpointLabels == {"dumped", "wantCheckpoint", "prepare", "dump"}

\* Checkpointing is enabled, or was disabled by a failed restore.
LEMMA SurvivesOff == ASSUME ~noCheckpoint' \/ restoreOff' PROVE Survives'
  BY Zenon DEF Survives

\* A step that moves nobody.
LEMMA SurvivesStill ==
    ASSUME Survives, UNCHANGED <<pc, scaledDown, mode, noCheckpoint, restoreOff>>
    PROVE  Survives'
  BY Zenon DEF Survives

\* A step that neither checkpoints nor disables checkpointing.
LEMMA SurvivesMoves ==
    ASSUME Survives, CtlOK, NEW t \in Threads, NEW l, Moves(t, l),
           l \notin CheckpointLabels, noCheckpoint' => noCheckpoint,
           restoreOff => restoreOff', scaledDown' => scaledDown, mode' = mode
    PROVE  Survives'
<1>1. \A u \in Threads : pc'[u] = IF u = t THEN l ELSE pc[u]
  BY Zenon, PcMoves
<1>2. l # "dumped" /\ l \notin {"wantCheckpoint", "prepare", "dump"}
  BY Zenon DEF CheckpointLabels
<1>3. ASSUME NEW u \in Threads
      PROVE  /\ pc'[u] = "dumped" => pc[u] = "dumped"
             /\ pc'[u] \in {"wantCheckpoint", "prepare", "dump"}
                   => pc[u] \in {"wantCheckpoint", "prepare", "dump"}
  <2>1. CASE u = t
    BY Zenon, <1>1, <1>2, <2>1
  <2>2. CASE u # t
    BY Zenon, <1>1, <2>2
  <2> QED BY Zenon, <2>1, <2>2
<1> QED BY Zenon, <1>3 DEF Survives

\* Only a callback is between checkpoint and its end, and while it is no other
\* goroutine is.
LEMMA CheckpointByCheck ==
    ASSUME CtlOK, NEW t \in Threads, pc[t] \in CheckpointLabels \cup {"check", "killing"}
    PROVE  t \in Checks
<1>1. pc[t] \notin ConnLabels /\ pc[t] \notin ExecLabels /\ pc[t] \notin KillLabels
  BY DEF CheckpointLabels, ConnLabels, ExecLabels, KillLabels, RestoreLabels
<1> QED BY Zenon, <1>1 DEF CtlOK, Threads

\* A scale down that has failed was the only one, and the container runs.
LEMMA FailedAlone ==
    ASSUME OneCheck, CtlOK, NEW t \in Threads, ~scaledDown, scaledDown' = scaledDown,
           pc[t] \in CheckpointLabels \cup {"check", "killing"}, Moves(t, "idle")
    PROVE  Survives'
<1>1. t \in Checks
  BY Zenon, CheckpointByCheck
<1>2. \A u \in Threads : pc'[u] = IF u = t THEN "idle" ELSE pc[u]
  BY Zenon, PcMoves
<1>3. \A u \in Threads : u # t => pc[u] \notin CheckpointLabels
  BY Zenon, <1>1, CheckpointByCheck DEF OneCheck
<1>4. \A u \in Threads : pc'[u] \notin CheckpointLabels
  BY Zenon, <1>2, <1>3 DEF CheckpointLabels
<1>5. \A u \in Threads :
         pc'[u] # "dumped" /\ pc'[u] \notin {"wantCheckpoint", "prepare", "dump"}
  BY Zenon, <1>4 DEF CheckpointLabels
<1> QED BY Zenon, <1>5 DEF Survives

\* Every step keeps it: scaleDownCheck disables checkpointing after its scale
\* down has failed, with the container running, and Restore after a failed
\* restore.
LEMMA SurvivesStep ==
    ASSUME OneCheck
    PROVE  TypeInv /\ MutexHeld /\ RunningMeanwhile /\ Survives /\ [Next]_vars
              => Survives'
<1> SUFFICES ASSUME CtlOK, RunningMeanwhile, Survives, [Next]_vars
             PROVE  Survives'
  BY Zenon DEF TypeInv, TypeOK
<1>1. CASE InitActivator \/ Traffic \/ Crash \/ Rest
  <2>1. CASE InitActivator
    BY Zenon, <2>1, SurvivesStill DEF InitActivator
  <2>2. CASE Traffic
    BY Zenon, <2>2, SurvivesStill DEF Traffic
  <2>3. CASE Crash
    BY Zenon, <2>3, SurvivesStill DEF Crash
  <2>4. CASE Rest
    BY Zenon, <2>4, SurvivesStill DEF Rest, vars
  <2> QED
    BY Zenon, <1>1, <2>1, <2>2, <2>3, <2>4
<1>2. ASSUME NEW t \in Threads, TimerStep(t) PROVE Survives'
  <2>1. CASE TimerFires(t)
    <3>1. /\ Moves(t, "check")
          /\ UNCHANGED <<scaledDown, mode, noCheckpoint, restoreOff>>
      BY Zenon, <2>1 DEF TimerFires, Moves
    <3> QED BY Zenon, <3>1, SurvivesMoves DEF CheckpointLabels
  <2>2. CASE CheckNotStarted(t)
    <3>1. /\ Moves(t, "idle")
          /\ UNCHANGED <<scaledDown, mode, noCheckpoint, restoreOff>>
      BY Zenon, <2>2 DEF CheckNotStarted, Moves
    <3> QED BY Zenon, <3>1, SurvivesMoves DEF CheckpointLabels
  <2>3. CASE CheckRecentActivity(t)
    <3>1. /\ Moves(t, "idle") /\ UNCHANGED <<scaledDown, mode, restoreOff>>
          /\ noCheckpoint' = FALSE \/ noCheckpoint' = noCheckpoint
      BY Zenon, <2>3 DEF CheckRecentActivity, Moves
    <3>2. CASE noCheckpoint' = FALSE
      BY Zenon, <3>2, SurvivesOff
    <3>3. CASE noCheckpoint' = noCheckpoint
      BY Zenon, <3>1, <3>3, SurvivesMoves DEF CheckpointLabels
    <3> QED BY Zenon, <3>1, <3>2, <3>3
  <2>4. CASE CheckPastDeadline(t)
    <3>1. /\ Moves(t, "idle")
          /\ UNCHANGED <<scaledDown, mode, noCheckpoint, restoreOff>>
      BY Zenon, <2>4 DEF CheckPastDeadline, Moves
    <3> QED BY Zenon, <3>1, SurvivesMoves DEF CheckpointLabels
  <2>5. CASE CheckScaleDown(t)
    <3>1. /\ \/ Moves(t, "idle") \/ Moves(t, "wantKill")
             \/ ~noCheckpoint /\ Moves(t, "wantCheckpoint")
          /\ UNCHANGED <<scaledDown, mode, noCheckpoint, restoreOff>>
      BY Zenon, <2>5 DEF CheckScaleDown, Moves
    <3> QED BY Zenon, <3>1, SurvivesMoves, SurvivesOff DEF CheckpointLabels
  <2>6. CASE CheckResetFails(t)
    <3>1. /\ pc[t] \in CheckpointLabels \cup {"check", "killing"}
          /\ Moves(t, "idle") /\ ~scaledDown /\ scaledDown' = scaledDown
      BY Zenon, <2>6 DEF CheckResetFails, Moves
    <3> QED BY Zenon, <3>1, FailedAlone
  <2> QED
    BY Zenon, <1>2, <2>1, <2>2, <2>3, <2>4, <2>5, <2>6 DEF TimerStep
<1>3. ASSUME NEW t \in Threads, ScaleDownStep(t) PROVE Survives'
  <2>1. CASE LockCheckpoint(t)
    <3>1. pc[t] = "wantCheckpoint" /\ UNCHANGED <<noCheckpoint, restoreOff>>
      BY Zenon, <2>1 DEF LockCheckpoint
    <3>2. ~noCheckpoint \/ restoreOff
      BY Zenon, <3>1 DEF Survives
    <3> QED BY Zenon, <3>1, <3>2, SurvivesOff
  <2>2. CASE SnapshotDirFails(t)
    <3>1. /\ pc[t] = "prepare" /\ Moves(t, "idle")
          /\ scaledDown' = scaledDown
      BY Zenon, <2>2 DEF SnapshotDirFails, Moves
    <3>2. ~scaledDown
      BY Zenon, <3>1 DEF RunningMeanwhile, ScaleDownLabels
    <3>3. pc[t] \in CheckpointLabels \cup {"check", "killing"}
      BY Zenon, <3>1 DEF CheckpointLabels
    <3> QED BY Zenon, <3>1, <3>2, <3>3, FailedAlone
  <2>3. CASE AddCheckpointedPID(t)
    <3>1. pc[t] = "prepare" /\ UNCHANGED <<noCheckpoint, restoreOff>>
      BY Zenon, <2>3 DEF AddCheckpointedPID
    <3>2. ~noCheckpoint \/ restoreOff
      BY Zenon, <3>1 DEF Survives
    <3> QED BY Zenon, <3>1, <3>2, SurvivesOff
  <2>4. CASE Dump(t)
    <3>1. pc[t] = "dump" /\ UNCHANGED <<noCheckpoint, restoreOff>>
      BY Zenon, <2>4 DEF Dump
    <3>2. ~noCheckpoint \/ restoreOff
      BY Zenon, <3>1 DEF Survives
    <3> QED BY Zenon, <3>1, <3>2, SurvivesOff
  <2>5. CASE DumpFails(t)
    <3>1. /\ pc[t] \in {"dump", "prepare"} /\ Moves(t, "idle")
          /\ scaledDown' = scaledDown
      BY Zenon, <2>5 DEF DumpFails, Moves
    <3>2. ~scaledDown
      BY Zenon, <3>1 DEF RunningMeanwhile, ScaleDownLabels
    <3>3. pc[t] \in CheckpointLabels \cup {"check", "killing"}
      BY Zenon, <3>1 DEF CheckpointLabels
    <3> QED BY Zenon, <3>1, <3>2, <3>3, FailedAlone
  <2>6. CASE LockKill(t)
    <3>1. /\ Moves(t, "killing")
          /\ UNCHANGED <<scaledDown, mode, noCheckpoint, restoreOff>>
      BY Zenon, <2>6 DEF LockKill, Moves
    <3> QED BY Zenon, <3>1, SurvivesMoves DEF CheckpointLabels
  <2>7. CASE ForceDelete(t)
    <3>1. /\ Moves(t, "dumped") /\ mode' = "kill"
          /\ UNCHANGED <<noCheckpoint, restoreOff>>
      BY Zenon, <2>7 DEF ForceDelete, Moves
    <3>2. \A u \in Threads : pc'[u] = IF u = t THEN "dumped" ELSE pc[u]
      BY Zenon, <3>1, PcMoves
    <3> QED BY Zenon, <3>1, <3>2 DEF Survives
  <2>8. CASE ForceDeleteFails(t)
    <3>1. /\ pc[t] = "killing" /\ Moves(t, "idle")
          /\ scaledDown' = scaledDown
      BY Zenon, <2>8 DEF ForceDeleteFails, Moves
    <3>2. ~scaledDown
      BY Zenon, <3>1 DEF RunningMeanwhile, ScaleDownLabels
    <3>3. pc[t] \in CheckpointLabels \cup {"check", "killing"}
      BY Zenon, <3>1 DEF CheckpointLabels
    <3> QED BY Zenon, <3>1, <3>2, <3>3, FailedAlone
  <2>9. CASE SetScaledDown(t)
    <3>1. /\ pc[t] = "dumped" /\ Moves(t, "idle")
          /\ UNCHANGED <<mode, noCheckpoint, restoreOff>>
      BY Zenon, <2>9 DEF SetScaledDown, Moves
    <3>2. \A u \in Threads : pc'[u] = IF u = t THEN "idle" ELSE pc[u]
      BY Zenon, <3>1, PcMoves
    <3> QED BY Zenon, <3>1, <3>2 DEF Survives
  <2> QED
    BY Zenon, <1>3, <2>1, <2>2, <2>3, <2>4, <2>5, <2>6, <2>7, <2>8, <2>9 DEF
       ScaleDownStep
<1>4. ASSUME NEW t \in Threads, RestoreStep(t) PROVE Survives'
  <2>1. CASE LockRestore(t)
    <3>1. /\ Moves(t, "capacity")
          /\ UNCHANGED <<scaledDown, mode, noCheckpoint, restoreOff>>
      BY Zenon, <2>1 DEF LockRestore, Moves
    <3> QED BY Zenon, <3>1, SurvivesMoves DEF CheckpointLabels
  <2>2. CASE AlreadyRestored(t)
    <3>1. /\ (Moves(t, "failed") \/ Moves(t, "dial"))
          /\ UNCHANGED <<scaledDown, mode, noCheckpoint, restoreOff>>
      BY Zenon, <2>2 DEF AlreadyRestored, Moves
    <3> QED BY Zenon, <3>1, SurvivesMoves DEF CheckpointLabels
  <2>3. CASE CapacityAllowed(t)
    <3>1. /\ Moves(t, "create")
          /\ UNCHANGED <<scaledDown, mode, noCheckpoint, restoreOff>>
      BY Zenon, <2>3 DEF CapacityAllowed, Moves
    <3> QED BY Zenon, <3>1, SurvivesMoves DEF CheckpointLabels
  <2>4. CASE CapacityDenied(t)
    <3>1. /\ Moves(t, "idle") \/ Moves(t, "dial") \/ Moves(t, "failed")
          /\ UNCHANGED <<scaledDown, mode, noCheckpoint, restoreOff>>
      BY Zenon, <2>4 DEF CapacityDenied, Moves
    <3> QED BY Zenon, <3>1, SurvivesMoves DEF CheckpointLabels
  <2>5. CASE StartProcess(t)
    <3>1. /\ Moves(t, "post") /\ ~scaledDown'
          /\ UNCHANGED <<mode, noCheckpoint, restoreOff>>
      BY Zenon, <2>5 DEF StartProcess, Moves
    <3> QED BY Zenon, <3>1, SurvivesMoves DEF CheckpointLabels
  <2>6. CASE StartFails(t)
    <3>1. \/ restoreOff'
          \/ /\ noCheckpoint /\ Moves(t, "failed")
             /\ UNCHANGED <<scaledDown, mode, restoreOff>>
      BY Zenon, <2>6 DEF StartFails, Moves
    <3>2. CASE restoreOff'
      BY Zenon, <3>2, SurvivesOff
    <3>3. CASE /\ noCheckpoint /\ Moves(t, "failed")
               /\ UNCHANGED <<scaledDown, mode, restoreOff>>
      BY Zenon, <3>3, SurvivesMoves DEF CheckpointLabels
    <3> QED BY Zenon, <3>1, <3>2, <3>3
  <2>7. CASE PostRestore(t)
    <3>1. /\ Moves(t, "restored")
          /\ UNCHANGED <<scaledDown, mode, noCheckpoint, restoreOff>>
      BY Zenon, <2>7 DEF PostRestore, Moves
    <3> QED BY Zenon, <3>1, SurvivesMoves DEF CheckpointLabels
  <2>8. CASE RedirectsFail(t)
    <3>1. \/ restoreOff'
          \/ /\ noCheckpoint /\ Moves(t, "failed")
             /\ UNCHANGED <<scaledDown, mode, restoreOff>>
      BY Zenon, <2>8 DEF RedirectsFail, Moves
    <3>2. CASE restoreOff'
      BY Zenon, <3>2, SurvivesOff
    <3>3. CASE /\ noCheckpoint /\ Moves(t, "failed")
               /\ UNCHANGED <<scaledDown, mode, restoreOff>>
      BY Zenon, <3>3, SurvivesMoves DEF CheckpointLabels
    <3> QED BY Zenon, <3>1, <3>2, <3>3
  <2>9. CASE RedirectsPanic(t)
    <3>1. /\ Moves(t, "done")
          /\ UNCHANGED <<scaledDown, mode, noCheckpoint, restoreOff>>
      BY Zenon, <2>9 DEF RedirectsPanic, Moves
    <3> QED BY Zenon, <3>1, SurvivesMoves DEF CheckpointLabels
  <2> QED
    BY Zenon, <1>4, <2>1, <2>2, <2>3, <2>4, <2>5, <2>6, <2>7, <2>8, <2>9 DEF
       RestoreStep
<1>5. ASSUME NEW t \in Threads, ConnStep(t) PROVE Survives'
  <2>1. CASE ConnRestored(t)
    <3>1. /\ Moves(t, "dial")
          /\ UNCHANGED <<scaledDown, mode, noCheckpoint, restoreOff>>
      BY Zenon, <2>1 DEF ConnRestored, Moves
    <3> QED BY Zenon, <3>1, SurvivesMoves DEF CheckpointLabels
  <2>2. CASE ConnFailed(t)
    <3>1. /\ Moves(t, "idle")
          /\ UNCHANGED <<scaledDown, mode, noCheckpoint, restoreOff>>
      BY Zenon, <2>2 DEF ConnFailed, Moves
    <3> QED BY Zenon, <3>1, SurvivesMoves DEF CheckpointLabels
  <2>3. CASE Dial(t)
    <3>1. /\ Moves(t, "idle")
          /\ UNCHANGED <<scaledDown, mode, noCheckpoint, restoreOff>>
      BY Zenon, <2>3 DEF Dial, Moves
    <3> QED BY Zenon, <3>1, SurvivesMoves DEF CheckpointLabels
  <2>4. CASE DialLoops(t)
    <3>1. /\ Moves(t, "want")
          /\ UNCHANGED <<scaledDown, mode, noCheckpoint, restoreOff>>
      BY Zenon, <2>4 DEF DialLoops, Moves
    <3> QED BY Zenon, <3>1, SurvivesMoves DEF CheckpointLabels
  <2> QED
    BY Zenon, <1>5, <2>1, <2>2, <2>3, <2>4 DEF ConnStep
<1>6. ASSUME NEW t \in Threads, ExecStep(t) PROVE Survives'
  <2>1. CASE ExecReadsPhase(t)
    <3>1. /\ (Moves(t, "want") \/ Moves(t, "add"))
          /\ UNCHANGED <<scaledDown, mode, noCheckpoint, restoreOff>>
      BY Zenon, <2>1 DEF ExecReadsPhase, Moves
    <3> QED BY Zenon, <3>1, SurvivesMoves DEF CheckpointLabels
  <2>2. CASE ExecRestored(t)
    <3>1. /\ Moves(t, "add")
          /\ UNCHANGED <<scaledDown, mode, noCheckpoint, restoreOff>>
      BY Zenon, <2>2 DEF ExecRestored, Moves
    <3> QED BY Zenon, <3>1, SurvivesMoves DEF CheckpointLabels
  <2>3. CASE ExecFailed(t)
    <3>1. /\ Moves(t, "add")
          /\ UNCHANGED <<scaledDown, mode, noCheckpoint, restoreOff>>
      BY Zenon, <2>3 DEF ExecFailed, Moves
    <3> QED BY Zenon, <3>1, SurvivesMoves DEF CheckpointLabels
  <2>4. CASE ExecAdd(t)
    <3>1. /\ (Moves(t, "added") \/ Moves(t, "idle"))
          /\ UNCHANGED <<scaledDown, mode, noCheckpoint, restoreOff>>
      BY Zenon, <2>4 DEF ExecAdd, Moves
    <3> QED BY Zenon, <3>1, SurvivesMoves DEF CheckpointLabels
  <2>5. CASE ExecStart(t)
    <3>1. /\ (Moves(t, "session") \/ Moves(t, "ended"))
          /\ UNCHANGED <<scaledDown, mode, noCheckpoint, restoreOff>>
      BY Zenon, <2>5 DEF ExecStart, Moves
    <3> QED BY Zenon, <3>1, SurvivesMoves DEF CheckpointLabels
  <2>6. CASE ExecDelete(t)
    <3>1. /\ Moves(t, "idle")
          /\ UNCHANGED <<scaledDown, mode, noCheckpoint, restoreOff>>
      BY Zenon, <2>6 DEF ExecDelete, Moves
    <3> QED BY Zenon, <3>1, SurvivesMoves DEF CheckpointLabels
  <2> QED
    BY Zenon, <1>6, <2>1, <2>2, <2>3, <2>4, <2>5, <2>6 DEF ExecStep
<1>7. ASSUME NEW t \in Threads, KillStep(t) PROVE Survives'
  <2>1. CASE KillScaledDown(t)
    <3>1. /\ Moves(t, "done")
          /\ UNCHANGED <<scaledDown, mode, noCheckpoint, restoreOff>>
      BY Zenon, <2>1 DEF KillScaledDown, Moves
    <3> QED BY Zenon, <3>1, SurvivesMoves DEF CheckpointLabels
  <2>2. CASE KillRunning(t)
    <3>1. /\ Moves(t, "signal")
          /\ UNCHANGED <<scaledDown, mode, noCheckpoint, restoreOff>>
      BY Zenon, <2>2 DEF KillRunning, Moves
    <3> QED BY Zenon, <3>1, SurvivesMoves DEF CheckpointLabels
  <2>3. CASE KillSignal(t)
    <3>1. /\ Moves(t, "done")
          /\ UNCHANGED <<scaledDown, mode, noCheckpoint, restoreOff>>
      BY Zenon, <2>3 DEF KillSignal, Moves
    <3> QED BY Zenon, <3>1, SurvivesMoves DEF CheckpointLabels
  <2> QED
    BY Zenon, <1>7, <2>1, <2>2, <2>3 DEF KillStep
<1>8. ASSUME NEW t \in Threads,
            \/ ConnArrives(t) \/ ExecBegin(t) \/ ExecKill(t) \/ ExecExit(t)
            \/ KillBegin(t)
     PROVE  Survives'
  <2>1. CASE ConnArrives(t)
    <3>1. /\ Moves(t, "want")
          /\ UNCHANGED <<scaledDown, mode, noCheckpoint, restoreOff>>
      BY Zenon, <2>1 DEF ConnArrives, Moves
    <3> QED BY Zenon, <3>1, SurvivesMoves DEF CheckpointLabels
  <2>2. CASE ExecBegin(t)
    <3>1. /\ Moves(t, "read")
          /\ UNCHANGED <<scaledDown, mode, noCheckpoint, restoreOff>>
      BY Zenon, <2>2 DEF ExecBegin, Moves
    <3> QED BY Zenon, <3>1, SurvivesMoves DEF CheckpointLabels
  <2>3. CASE ExecKill(t)
    BY Zenon, <2>3, SurvivesStill DEF ExecKill
  <2>4. CASE ExecExit(t)
    <3>1. /\ (Moves(t, "ended") \/ Moves(t, "done"))
          /\ UNCHANGED <<scaledDown, mode, noCheckpoint, restoreOff>>
      BY Zenon, <2>4 DEF ExecExit, Moves
    <3> QED BY Zenon, <3>1, SurvivesMoves DEF CheckpointLabels
  <2>5. CASE KillBegin(t)
    <3>1. /\ Moves(t, "barrier")
          /\ UNCHANGED <<scaledDown, mode, noCheckpoint, restoreOff>>
      BY Zenon, <2>5 DEF KillBegin, Moves
    <3> QED BY Zenon, <3>1, SurvivesMoves DEF CheckpointLabels
  <2> QED
    BY Zenon, <1>8, <2>1, <2>2, <2>3, <2>4, <2>5
<1>9. CASE ReaperStep
  <2>1. ASSUME NEW p \in Pids, ExitUnknown(p) PROVE Survives'
    BY Zenon, <2>1, SurvivesStill DEF ExitUnknown
  <2>2. ASSUME NEW p \in Pids, ExitPrevented(p) PROVE Survives'
    BY Zenon, <2>2, SurvivesStill DEF ExitPrevented
  <2>3. ASSUME NEW p \in Pids, ExitReported(p) PROVE Survives'
    BY Zenon, <2>3, SurvivesStill DEF ExitReported
  <2> QED
    BY Zenon, <1>9, <2>1, <2>2, <2>3 DEF ReaperStep
<1>10. CASE UNCHANGED vars
  BY Zenon, <1>10, SurvivesStill DEF vars
<1> QED
  BY Zenon, <1>1, <1>2, <1>3, <1>4, <1>5, <1>6, <1>7, <1>8, <1>9, <1>10
     DEF Next, Environment, ReaperStep, ThreadStep

\* A step that starts a process where there was none.
StartsFromImage ==
    (alive = {} /\ alive' # {} /\ mode = "ckpt")
        => (image = "full" /\ ~noCheckpoint) \/ restoreOff

\* A step that starts nothing.
LEMMA StartsNothing == ASSUME alive' = alive \/ alive' = {} PROVE StartsFromImage
  BY Zenon DEF StartsFromImage

\* Only restore starts a process, from the image of a checkpointed container.
LEMMA OnlyRestoreStarts ==
    ASSUME TypeInv, RestoresScaledDown, Survives, [Next]_vars
    PROVE  StartsFromImage
<1>1. CASE InitActivator \/ Traffic \/ Crash \/ Rest
  <2>1. CASE InitActivator
    BY Zenon, <2>1, StartsNothing DEF InitActivator
  <2>2. CASE Traffic
    BY Zenon, <2>2, StartsNothing DEF Traffic
  <2>3. CASE Crash
    BY Zenon, <2>3, StartsNothing DEF Crash
  <2>4. CASE Rest
    BY Zenon, <2>4, StartsNothing DEF Rest, vars
  <2> QED
    BY Zenon, <1>1, <2>1, <2>2, <2>3, <2>4
<1>2. ASSUME NEW t \in Threads, TimerStep(t) PROVE StartsFromImage
  <2>1. CASE TimerFires(t)
    BY Zenon, <2>1, StartsNothing DEF TimerFires
  <2>2. CASE CheckNotStarted(t)
    BY Zenon, <2>2, StartsNothing DEF CheckNotStarted
  <2>3. CASE CheckRecentActivity(t)
    BY Zenon, <2>3, StartsNothing DEF CheckRecentActivity
  <2>4. CASE CheckPastDeadline(t)
    BY Zenon, <2>4, StartsNothing DEF CheckPastDeadline
  <2>5. CASE CheckScaleDown(t)
    BY Zenon, <2>5, StartsNothing DEF CheckScaleDown
  <2>6. CASE CheckResetFails(t)
    BY Zenon, <2>6, StartsNothing DEF CheckResetFails
  <2> QED
    BY Zenon, <1>2, <2>1, <2>2, <2>3, <2>4, <2>5, <2>6 DEF TimerStep
<1>3. ASSUME NEW t \in Threads, ScaleDownStep(t) PROVE StartsFromImage
  <2>1. CASE LockCheckpoint(t)
    BY Zenon, <2>1, StartsNothing DEF LockCheckpoint
  <2>2. CASE SnapshotDirFails(t)
    BY Zenon, <2>2, StartsNothing DEF SnapshotDirFails
  <2>3. CASE AddCheckpointedPID(t)
    BY Zenon, <2>3, StartsNothing DEF AddCheckpointedPID
  <2>4. CASE Dump(t)
    BY Zenon, <2>4, StartsNothing DEF Dump
  <2>5. CASE DumpFails(t)
    BY Zenon, <2>5, StartsNothing DEF DumpFails
  <2>6. CASE LockKill(t)
    BY Zenon, <2>6, StartsNothing DEF LockKill
  <2>7. CASE ForceDelete(t)
    BY Zenon, <2>7, StartsNothing DEF ForceDelete
  <2>8. CASE ForceDeleteFails(t)
    BY Zenon, <2>8, StartsNothing DEF ForceDeleteFails
  <2>9. CASE SetScaledDown(t)
    BY Zenon, <2>9, StartsNothing DEF SetScaledDown
  <2> QED
    BY Zenon, <1>3, <2>1, <2>2, <2>3, <2>4, <2>5, <2>6, <2>7, <2>8, <2>9 DEF
       ScaleDownStep
<1>4. ASSUME NEW t \in Threads, RestoreStep(t) PROVE StartsFromImage
  <2>1. CASE LockRestore(t)
    BY Zenon, <2>1, StartsNothing DEF LockRestore
  <2>2. CASE AlreadyRestored(t)
    BY Zenon, <2>2, StartsNothing DEF AlreadyRestored
  <2>3. CASE CapacityAllowed(t)
    BY Zenon, <2>3, StartsNothing DEF CapacityAllowed
  <2>4. CASE CapacityDenied(t)
    BY Zenon, <2>4, StartsNothing DEF CapacityDenied
  <2>5. CASE StartProcess(t)
    <3>1. pc[t] = "create" /\ (noCheckpoint \/ image = "full")
      BY Zenon, <2>5 DEF StartProcess
    <3>2. scaledDown
      BY Zenon, <3>1 DEF RestoresScaledDown
    <3>3. noCheckpoint /\ ~restoreOff => mode = "kill"
      BY Zenon, <3>2 DEF Survives
    <3> QED BY Zenon, <3>1, <3>3 DEF StartsFromImage
  <2>6. CASE StartFails(t)
    BY Zenon, <2>6, StartsNothing DEF StartFails
  <2>7. CASE PostRestore(t)
    BY Zenon, <2>7, StartsNothing DEF PostRestore
  <2>8. CASE RedirectsFail(t)
    BY Zenon, <2>8, StartsNothing DEF RedirectsFail
  <2>9. CASE RedirectsPanic(t)
    BY Zenon, <2>9, StartsNothing DEF RedirectsPanic
  <2> QED
    BY Zenon, <1>4, <2>1, <2>2, <2>3, <2>4, <2>5, <2>6, <2>7, <2>8, <2>9 DEF
       RestoreStep
<1>5. ASSUME NEW t \in Threads, ConnStep(t) PROVE StartsFromImage
  <2>1. CASE ConnRestored(t)
    BY Zenon, <2>1, StartsNothing DEF ConnRestored
  <2>2. CASE ConnFailed(t)
    BY Zenon, <2>2, StartsNothing DEF ConnFailed
  <2>3. CASE Dial(t)
    BY Zenon, <2>3, StartsNothing DEF Dial
  <2>4. CASE DialLoops(t)
    BY Zenon, <2>4, StartsNothing DEF DialLoops
  <2> QED
    BY Zenon, <1>5, <2>1, <2>2, <2>3, <2>4 DEF ConnStep
<1>6. ASSUME NEW t \in Threads, ExecStep(t) PROVE StartsFromImage
  <2>1. CASE ExecReadsPhase(t)
    BY Zenon, <2>1, StartsNothing DEF ExecReadsPhase
  <2>2. CASE ExecRestored(t)
    BY Zenon, <2>2, StartsNothing DEF ExecRestored
  <2>3. CASE ExecFailed(t)
    BY Zenon, <2>3, StartsNothing DEF ExecFailed
  <2>4. CASE ExecAdd(t)
    BY Zenon, <2>4, StartsNothing DEF ExecAdd
  <2>5. CASE ExecStart(t)
    BY Zenon, <2>5, StartsNothing DEF ExecStart
  <2>6. CASE ExecDelete(t)
    BY Zenon, <2>6, StartsNothing DEF ExecDelete
  <2> QED
    BY Zenon, <1>6, <2>1, <2>2, <2>3, <2>4, <2>5, <2>6 DEF ExecStep
<1>7. ASSUME NEW t \in Threads, KillStep(t) PROVE StartsFromImage
  <2>1. CASE KillScaledDown(t)
    BY Zenon, <2>1, StartsNothing DEF KillScaledDown
  <2>2. CASE KillRunning(t)
    BY Zenon, <2>2, StartsNothing DEF KillRunning
  <2>3. CASE KillSignal(t)
    BY Zenon, <2>3, StartsNothing DEF KillSignal
  <2> QED
    BY Zenon, <1>7, <2>1, <2>2, <2>3 DEF KillStep
<1>8. ASSUME NEW t \in Threads,
            \/ ConnArrives(t) \/ ExecBegin(t) \/ ExecKill(t) \/ ExecExit(t)
            \/ KillBegin(t)
     PROVE  StartsFromImage
  <2>1. CASE ConnArrives(t)
    BY Zenon, <2>1, StartsNothing DEF ConnArrives
  <2>2. CASE ExecBegin(t)
    BY Zenon, <2>2, StartsNothing DEF ExecBegin
  <2>3. CASE ExecKill(t)
    BY Zenon, <2>3, StartsNothing DEF ExecKill
  <2>4. CASE ExecExit(t)
    BY Zenon, <2>4, StartsNothing DEF ExecExit
  <2>5. CASE KillBegin(t)
    BY Zenon, <2>5, StartsNothing DEF KillBegin
  <2> QED
    BY Zenon, <1>8, <2>1, <2>2, <2>3, <2>4, <2>5
<1>9. CASE ReaperStep
  <2>1. ASSUME NEW p \in Pids, ExitUnknown(p) PROVE StartsFromImage
    BY Zenon, <2>1, StartsNothing DEF ExitUnknown
  <2>2. ASSUME NEW p \in Pids, ExitPrevented(p) PROVE StartsFromImage
    BY Zenon, <2>2, StartsNothing DEF ExitPrevented
  <2>3. ASSUME NEW p \in Pids, ExitReported(p) PROVE StartsFromImage
    BY Zenon, <2>3, StartsNothing DEF ExitReported
  <2> QED
    BY Zenon, <1>9, <2>1, <2>2, <2>3 DEF ReaperStep
<1>10. CASE UNCHANGED vars
  BY Zenon, <1>10, StartsNothing DEF vars
<1> QED
  BY Zenon, <1>1, <1>2, <1>3, <1>4, <1>5, <1>6, <1>7, <1>8, <1>9, <1>10
     DEF Next, Environment, ReaperStep, ThreadStep

\* A container that was checkpointed comes back from its image, for any number
\* of connections, execs and kills and with every fault: it is started from
\* scratch only after a restore has failed (restore, scaleDownCheck).
THEOREM StateSurvivesCorrect == ASSUME OneCheck PROVE Spec => StateSurvives
<1> DEFINE Inv == MutexHeld /\ RunningMeanwhile /\ RestoresScaledDown /\ Survives
<1>1. Init => Inv
  BY DEF Init, MutexHeld, RunningMeanwhile, RestoresScaledDown, Survives,
         CriticalLabels, ScaleDownLabels
<1>2. TypeInv /\ Inv /\ [Next]_vars => Inv'
  BY Zenon, MutexStep, RunningStep, RestoresStep, SurvivesStep
     DEF TypeInv, TypeOK
<1>3. TypeInv /\ Inv /\ [Next]_vars => [StartsFromImage]_vars
  BY Zenon, OnlyRestoreStarts
<1>4. [][StartsFromImage]_vars => StateSurvives
  BY PTL DEF StateSurvives, StartsFromImage
<1> QED
  BY TypeInvariant, <1>1, <1>2, <1>3, <1>4, PTL DEF Spec

=============================================================================
