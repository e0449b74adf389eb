--------------------------- MODULE StatusPipeline ---------------------------
(***************************************************************************)
(* How a container's phase reaches its pod object: the shim puts a status  *)
(* into a channel (shim/container.go, shim/task/shim.go), a subscriber of  *)
(* the manager takes it out (manager/status.go) and lets the handlers set  *)
(* labels and requests (pod_labeller.go, pod_scaler.go), which it writes   *)
(* in two updates, while the kubelet writes the same object.  The pod      *)
(* controller does the same for the target of a migration it has claimed.  *)
(*                                                                         *)
(* The shim also reports failed checkpoints and restores, which label and  *)
(* scale nothing, but take room in the channel and are written as well.    *)
(*                                                                         *)
(* One shim with one container; shims do not share anything.  The pod      *)
(* object is under optimistic locking: an update with a copy that is older *)
(* than the last write is a conflict.  The manager reads from a cache,     *)
(* which fails until it is started and may lag behind.                     *)
(***************************************************************************)
EXTENDS Integers, Sequences, FiniteSets

CONSTANTS
    EventsCap,      \* capacity of the shim's channel zeropodEvents
    RetrySteps,     \* attempts of RetryOnConflict
    Scalings,       \* bound: scale downs and reports of a failure
    Mishaps         \* bound: crashes and failed requests

ASSUME PipelineAssumption ==
    /\ EventsCap \in Nat \ {0}
    /\ RetrySteps \in Nat \ {0}
    /\ Scalings \in Nat
    /\ Mishaps \in Nat

VARIABLES
    phase,      \* of the container; "none": the shim does not run
    events,     \* the shim's channel
    streams,    \* SubscribeStatus calls in the shim whose manager is gone
    mgr,        \* the manager: StartSubscribers in three steps
    cache,      \* its client's cache is started
    target,     \* the pod is the target of a migration that is not claimed yet
    work,       \* handlePod of the subscriber and of the pod controller
    pod,        \* the object: label, annotation, requests
    actual,     \* what the kubelet has made of the requests
    current,    \* the callers of handlePod whose copy is current
    lost,       \* history: the last phase that was sent is lost
    overtaken,  \* history: the controller wrote after the container had started
    scalings, mishaps

shimVars == <<phase, events, streams, scalings>>
podVars  == <<pod, actual, current>>
histVars == <<lost, overtaken>>
vars == <<shimVars, mgr, cache, target, work, podVars, histVars, mishaps>>

Callers == {"subscriber", "controller"}
sub == work["subscriber"]

\* "FAILED" stands for CHECKPOINT_FAILED and RESTORE_FAILED.
Phases == {"RUNNING", "SCALED_DOWN"}
Statuses == Phases \cup {"FAILED"}
Requests == {"initial", "scaled down"}

\* What handlePod of a caller holds, and the object.
Jobs == [at : {"off", "idle", "get", "update", "resize"},
         status : Statuses, tries : 0..RetrySteps,
         annotation : {"none"} \cup Requests, requests : Requests]
Pods == [label : {"none"} \cup Phases,
         annotation : {"none"} \cup Requests, requests : Requests]

\* Goroutines without a status.
Off == [at |-> "off", status |-> "RUNNING", tries |-> 0,
        annotation |-> "none", requests |-> "initial"]
Idle == [Off EXCEPT !.at = "idle"]

\* There is only news of failures in the channel q.
NoPhase(q) == \A i \in 1..Len(q) : q[i] = "FAILED"

Mishap == mishaps < Mishaps /\ mishaps' = mishaps + 1

-----------------------------------------------------------------------------
(* The shim. *)

\* sendEvent: an event that finds the channel full is discarded.
SendEvent(status) ==
    /\ UNCHANGED overtaken
    /\ IF Len(events) < EventsCap
       THEN events' = Append(events, status) /\ lost' = FALSE
       ELSE UNCHANGED events /\ lost' = TRUE

Subscriber(w) == work' = [work EXCEPT !["subscriber"] = w]

\* The shim listens on its socket, the container starts or, when it was
\* migrated, stays scaled down.  A manager that watches for sockets subscribes,
\* if it can dial it in time.
ShimStarts ==
    /\ phase = "none"
    /\ phase' \in IF target = "no" THEN {"RUNNING"} ELSE Phases
    /\ SendEvent(phase')
    /\ \/ /\ IF mgr = "watching" THEN Subscriber(Idle) ELSE UNCHANGED work
          /\ UNCHANGED mishaps
       \/ Mishap /\ UNCHANGED work
    /\ UNCHANGED <<streams, mgr, cache, target, podVars, scalings>>

\* setPhaseNotify at the end of a checkpoint and of a restore.
SetPhaseNotify ==
    /\ \/ /\ phase = "RUNNING"
          /\ scalings < Scalings
          /\ scalings' = scalings + 1
          /\ phase' = "SCALED_DOWN"
       \/ /\ phase = "SCALED_DOWN"
          /\ phase' = "RUNNING"
          /\ UNCHANGED scalings
    /\ SendEvent(phase')
    /\ UNCHANGED <<streams, mgr, cache, target, work, podVars, mishaps>>

\* sendFailEvent: a dump or a restore has failed.  The phase is the same.
SendFailEvent ==
    /\ phase # "none"
    /\ scalings < Scalings
    /\ scalings' = scalings + 1
    /\ Len(events) < EventsCap
    /\ events' = Append(events, "FAILED")
    /\ UNCHANGED <<phase, streams, mgr, cache, target, work, podVars, histVars,
                   mishaps>>

\* SubscribeStatus for a manager that is gone: until it sees that, it takes
\* statuses from the channel and fails to send them.
StaleStream ==
    /\ streams > 0
    /\ \/ /\ events # <<>>
          /\ events' = Tail(events)
          /\ lost' = (\/ lost
                      \/ Head(events) \in Phases /\ NoPhase(Tail(events)))
          /\ UNCHANGED streams
       \/ /\ streams' = streams - 1
          /\ UNCHANGED <<events, lost>>
    /\ UNCHANGED <<phase, scalings, mgr, cache, target, work, podVars, overtaken, mishaps>>

-----------------------------------------------------------------------------
(* The callers of handlePod. *)

\* The subscriber: receive and onStatus.
Receives ==
    /\ sub.at = "idle"
    /\ events # <<>>
    /\ Subscriber([Idle EXCEPT !.at = "get", !.status = Head(events),
                              !.tries = RetrySteps])
    /\ events' = Tail(events)
    /\ UNCHANGED <<phase, streams, scalings, mgr, cache, target, podVars, histVars,
                   mishaps>>

\* The controller has claimed a migration for the pending pod, whose container
\* will not be started: updatePodResources.
Claims ==
    /\ target = "unclaimed"
    /\ cache
    /\ target' = "claimed"
    /\ work' = [work EXCEPT !["controller"] =
                   [Idle EXCEPT !.at = "get", !.status = "SCALED_DOWN",
                                !.tries = RetrySteps]]
    /\ UNCHANGED <<shimVars, mgr, cache, podVars, histVars, mishaps>>

-----------------------------------------------------------------------------
(* handlePod. *)

SetAnnotations_Always == pod.requests

\* SetAnnotations: the requests that the pod was created with, recorded once.
SetAnnotations ==
    IF pod.annotation = "none" THEN pod.requests ELSE pod.annotation

\* isUpToDate and newRequests: the containers are left as they are unless the
\* phase has changed.
NewRequests(initial, now, status) ==
    CASE status = "RUNNING"     -> initial
      [] status = "SCALED_DOWN" -> "scaled down"
      [] OTHER                  -> now

\* The scaler's change of the containers.
ReconcileContainerResources(status) ==
    NewRequests(SetAnnotations, pod.requests, status)

\* The labeller's change.
SetLabel(object, status) ==
    IF status \in Phases THEN [object EXCEPT !.label = status] ELSE object

\* Get, of a copy that may be old, then the labeller and the scaler change it.
Handle(h) ==
    /\ work[h].at = "get"
    /\ cache
    /\ work' = [work EXCEPT ![h] =
          [@ EXCEPT !.at = "update", !.annotation = SetAnnotations,
                    !.requests = ReconcileContainerResources(work[h].status)]]
    /\ current' \in {current \ {h}, current \cup {h}}
    /\ UNCHANGED <<shimVars, mgr, cache, target, pod, actual, histVars, mishaps>>

\* The object is written with h's copy.
Writes(h, new) ==
    /\ pod' = new
    /\ current' = {h}

\* The first update writes everything but the containers.
Update(h) ==
    /\ work[h].at = "update"
    /\ h \in current
    /\ Writes(h, [SetLabel(pod, work[h].status) EXCEPT
                     !.annotation = work[h].annotation])
    /\ work' = [work EXCEPT ![h].at = "resize"]
    /\ UNCHANGED <<shimVars, mgr, cache, target, actual, histVars, mishaps>>

Done(h) == IF h = "subscriber" THEN Idle ELSE Off

Resize_NoLock(h) ==
    /\ work[h].at = "resize"
    /\ Writes(h, [pod EXCEPT !.requests = work[h].requests])
    /\ work' = [work EXCEPT ![h] = Done(h)]
    /\ overtaken' = IF work[h].status \in Phases
                    THEN h = "controller" /\ phase # "none" ELSE overtaken
    /\ UNCHANGED <<shimVars, mgr, cache, target, actual, lost, mishaps>>

\* The second one writes the containers: resize, or Update without it.
Resize(h) ==
    /\ work[h].at = "resize"
    /\ h \in current
    /\ Writes(h, [pod EXCEPT !.requests = work[h].requests])
    /\ work' = [work EXCEPT ![h] = Done(h)]
    /\ overtaken' = IF work[h].status \in Phases
                    THEN h = "controller" /\ phase # "none" ELSE overtaken
    /\ UNCHANGED <<shimVars, mgr, cache, target, actual, lost, mishaps>>

\* The status is forgotten.  A phase is lost when no later one is in the
\* channel.
GiveUp(h) ==
    /\ work' = [work EXCEPT ![h] = Done(h)]
    /\ lost' = (\/ lost \/ h = "controller"
                \/ work[h].status \in Phases /\ NoPhase(events))

Conflict_SameCopy(h) ==
    /\ work[h].at \in {"update", "resize"}
    /\ h \notin current
    /\ UNCHANGED vars

\* A conflict: the whole attempt is made again, but not for ever.
Conflict(h) ==
    /\ work[h].at \in {"update", "resize"}
    /\ h \notin current
    /\ IF work[h].tries > 1
         THEN /\ work' = [work EXCEPT ![h] =
                    [Idle EXCEPT !.at = "get", !.status = work[h].status,
                                 !.tries = work[h].tries - 1]]
              /\ UNCHANGED lost
         ELSE GiveUp(h)
    /\ UNCHANGED <<shimVars, mgr, cache, target, podVars, overtaken, mishaps>>

\* A status that is received before mgr.Start cannot be handled.
CacheNotStarted(h) ==
    /\ work[h].at = "get"
    /\ ~cache
    /\ GiveUp(h)
    /\ UNCHANGED <<shimVars, mgr, cache, target, podVars, overtaken, mishaps>>

\* Any other error, one of the event creator included, ends the attempt.
HandlePodFails(h) ==
    /\ work[h].at \in {"get", "update", "resize"}
    /\ Mishap
    /\ GiveUp(h)
    /\ UNCHANGED <<shimVars, mgr, cache, target, podVars, overtaken>>

-----------------------------------------------------------------------------
(* The kubelet and the manager's process. *)

KubeletResizes ==
    /\ phase # "none"
    /\ actual # pod.requests
    /\ actual' = pod.requests
    /\ current' = {}
    /\ UNCHANGED <<shimVars, mgr, cache, target, work, pod, histVars, mishaps>>

ManagerCrashes ==
    /\ mgr # "down"
    /\ Mishap
    /\ mgr' = "down"
    /\ cache' = FALSE
    /\ streams' = IF sub.at = "off" THEN streams ELSE streams + 1
    /\ work' = [h \in Callers |-> Off]
    /\ lost' = (\/ lost
                \/ /\ sub.at \notin {"off", "idle"} /\ sub.status \in Phases
                   /\ NoPhase(events)
                \/ work["controller"].at # "off")
    /\ UNCHANGED <<phase, events, scalings, target, podVars, overtaken>>

\* StartSubscribers: the sockets that exist are subscribed to.
ManagerLists ==
    /\ mgr = "down"
    /\ mgr' = "listed"
    /\ Subscriber(IF phase = "none" THEN Off ELSE Idle)
    /\ UNCHANGED <<shimVars, cache, target, podVars, histVars, mishaps>>

\* watchForShims: a socket that was created in between is not seen.
ManagerWatches ==
    /\ mgr = "listed"
    /\ mgr' = "watching"
    /\ UNCHANGED <<shimVars, cache, target, work, podVars, histVars, mishaps>>

\* mgr.Start, while the subscribers already run.
CacheStarts ==
    /\ mgr # "down"
    /\ ~cache
    /\ cache' = TRUE
    /\ UNCHANGED <<shimVars, mgr, target, work, podVars, histVars, mishaps>>

-----------------------------------------------------------------------------
(* The specification. *)

Init ==
    /\ phase = "none"
    /\ events = <<>>
    /\ streams = 0
    /\ mgr = "down"
    /\ cache = FALSE
    /\ target \in {"no", "unclaimed"}
    /\ work = [h \in Callers |-> Off]
    /\ pod = [label |-> "none", annotation |-> "none", requests |-> "initial"]
    /\ actual = "initial"
    /\ current = {}
    /\ lost = FALSE
    /\ overtaken = FALSE
    /\ scalings = 0
    /\ mishaps = 0

HandlePod(h) == Handle(h) \/ Update(h) \/ Resize(h) \/ Conflict(h) \/ CacheNotStarted(h)
SubscriberStep == Receives \/ HandlePod("subscriber")
ManagerStep == ManagerLists \/ ManagerWatches \/ CacheStarts

Next ==
    \/ ShimStarts \/ SetPhaseNotify \/ SendFailEvent \/ StaleStream
    \/ SubscriberStep
    \/ Claims \/ HandlePod("controller")
    \/ \E h \in Callers : HandlePodFails(h)
    \/ KubeletResizes
    \/ ManagerCrashes \/ ManagerStep

Spec == Init /\ [][Next]_vars

\* The goroutines of shim and manager run, and a crashed manager is started
\* again.
FairSpec ==
    /\ Spec
    /\ WF_vars(SubscriberStep)
    /\ WF_vars(HandlePod("controller"))
    /\ WF_vars(ManagerStep)

-----------------------------------------------------------------------------
(* Properties. *)

\* Every variable has its type, and a subscriber belongs to a manager.
TypeOK ==
    /\ phase \in Phases \cup {"none"}
    /\ events \in Seq(Statuses) /\ Len(events) <= EventsCap
    /\ streams \in 0..Mishaps
    /\ mgr \in {"down", "listed", "watching"}
    /\ target \in {"no", "unclaimed", "claimed"}
    /\ work \in [Callers -> Jobs]
    /\ pod \in Pods
    /\ actual \in Requests
    /\ current \in SUBSET Callers
    /\ lost \in BOOLEAN
    /\ overtaken \in BOOLEAN
    /\ cache \in BOOLEAN
    /\ mgr = "down" => \A h \in Callers : work[h].at = "off"

\* The requests that the pod was created with are never forgotten: the object
\* carries them before it is scaled down, whatever fails between the two
\* updates of handlePod, and they are not taken from scaled-down requests.
InitialKept ==
    /\ TypeOK
    /\ pod.annotation # "scaled down"
    /\ pod.requests = "scaled down" => pod.annotation = "initial"

Applied(status) ==
    /\ pod.label = status
    /\ pod.requests = IF status = "RUNNING" THEN "initial" ELSE "scaled down"

\* When the subscriber has nothing to do and the last status was not lost, the
\* object shows the container's phase: no status overtakes a later one, but
\* for the one of the controller.
InSync ==
    (/\ sub.at = "idle" /\ events = <<>> /\ phase # "none"
     /\ work["controller"].at = "off"
     /\ ~lost /\ ~overtaken) => Applied(phase)

\* A subscribed shim's last status is applied, unless it is lost or overtaken
\* or the manager crashes: the retries end.
Settles ==
    (sub.at # "off") ~>
        \/ sub.at = "off" \/ lost \/ overtaken
        \/ sub.at = "idle" /\ Applied(phase)
=============================================================================
