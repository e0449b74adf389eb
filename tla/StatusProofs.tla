---------------------------- MODULE StatusProofs ----------------------------
(***************************************************************************)
(* Proofs about the status pipeline: the requests that a pod was created   *)
(* with are never forgotten, and the object shows the container's phase    *)
(* when nothing is left to do.                                             *)
(***************************************************************************)
EXTENDS StatusPipeline, TLAPS

USE DEF shimVars, podVars, histVars, Mishap, Subscriber

-----------------------------------------------------------------------------
(* The invariants. *)

\* The conjuncts of TypeOK, apart from the bounds: of Boolean-valued variables,
\* of the channel, of the callers and the object, and of the rest.  A cache is
\* started by a manager, and the controller is not told of failures.
Flags == lost \in BOOLEAN /\ overtaken \in BOOLEAN /\ cache \in BOOLEAN
Channel ==
    /\ phase \in Phases \cup {"none"}
    /\ events \in Seq(Statuses)
    /\ Len(events) <= EventsCap
Data ==
    /\ work \in [Callers -> Jobs]
    /\ pod \in Pods
    /\ actual \in Requests
    /\ current \in SUBSET Callers
Places ==
    /\ mgr \in {"down", "listed", "watching"}
    /\ target \in {"no", "unclaimed", "claimed"}
    /\ work["controller"].status # "FAILED"
    /\ mgr = "down" => ~cache /\ \A h \in Callers : work[h].at = "off"

\* Every stream without a manager comes from a crash.
Counts ==
    /\ mishaps \in 0..Mishaps
    /\ scalings \in 0..Scalings
    /\ streams \in 0..mishaps

Typed == Flags /\ Channel /\ Data /\ Places /\ Counts

\* What a caller of handlePod has made of its copy, and that the annotation is
\* written before the containers are.  A failure leaves them as they are in
\* the copy.
Prepared ==
    \A h \in Callers :
        /\ work[h].at \in {"update", "resize"} =>
              /\ work[h].annotation = "initial"
              /\ work[h].status \in Phases \/ h \in current =>
                    work[h].requests =
                        NewRequests("initial", pod.requests, work[h].status)
        /\ work[h].at = "resize" => pod.annotation = "initial"

\* The annotation is the initial one as soon as it is needed.
Annotated ==
    /\ pod.annotation # "scaled down"
    /\ pod.requests = "scaled down" => pod.annotation = "initial"

\* The last phase in the channel q is p, if there is one.
EndsWith(q, p) ==
    \A i \in 1..Len(q) :
        q[i] # "FAILED" /\ (\A j \in 1..Len(q) : j > i => q[j] = "FAILED")
            => q[i] = p

\* The last phase that was sent is on its way: in the channel, ...
InChannel == phase # "none" /\ ~lost => EndsWith(events, phase)

\* ... with the subscriber, ...
WithSubscriber ==
    (/\ phase # "none" /\ ~lost /\ NoPhase(events)
     /\ sub.at \in {"get", "update", "resize"} /\ sub.status # "FAILED")
        => sub.status = phase

\* ... or in the object.
InObject ==
    (/\ phase # "none" /\ ~lost /\ NoPhase(events)
     /\ sub.at \in {"off", "idle"} \/ sub.status = "FAILED"
     /\ work["controller"].at = "off" /\ ~overtaken) => Applied(phase)

\* Nobody writes between the two updates of a caller whose copy stays current.
Labelled ==
    (sub.at = "resize" /\ "subscriber" \in current /\ sub.status # "FAILED")
        => pod.label = sub.status

Kept == Typed /\ Prepared /\ Annotated
IInv == Kept /\ InChannel /\ WithSubscriber /\ InObject /\ Labelled

-----------------------------------------------------------------------------
(* Types. *)

\* The records that handlePod makes are Jobs.
LEMMA JobsClosed ==
    /\ Off \in Jobs /\ Idle \in Jobs
    /\ \A s \in Statuses, n \in 0..RetrySteps :
          [Idle EXCEPT !.at = "get", !.status = s, !.tries = n] \in Jobs
    /\ \A j \in Jobs :
          /\ j.status \in Statuses /\ j.tries \in 0..RetrySteps
          /\ j.at \in {"off", "idle", "get", "update", "resize"}
          /\ [j EXCEPT !.at = "resize"] \in Jobs
    /\ \A j \in Jobs, a \in Requests, r \in Requests :
          [j EXCEPT !.at = "update", !.annotation = a, !.requests = r] \in Jobs
<1>1. Off \in Jobs /\ Idle \in Jobs
  <2>1. 0 \in 0..RetrySteps
    BY PipelineAssumption
  <2>2. Off \in Jobs
    BY <2>1 DEF Jobs, Phases, Statuses, Requests, Off
  <2> QED
    BY <2>2 DEF Jobs, Idle
<1>2. \A s \in Statuses, n \in 0..RetrySteps :
          [Idle EXCEPT !.at = "get", !.status = s, !.tries = n] \in Jobs
  BY Zenon, <1>1 DEF Jobs
<1>3. \A j \in Jobs :
          /\ j.status \in Statuses /\ j.tries \in 0..RetrySteps
          /\ j.at \in {"off", "idle", "get", "update", "resize"}
          /\ [j EXCEPT !.at = "resize"] \in Jobs
  BY DEF Jobs
<1>4. \A j \in Jobs, a \in Requests, r \in Requests :
          [j EXCEPT !.at = "update", !.annotation = a, !.requests = r] \in Jobs
  BY Zenon DEF Jobs
<1> QED
  BY Zenon, <1>1, <1>2, <1>3, <1>4

\* What Handle computes are requests.
LEMMA HandledType ==
    ASSUME Data, NEW h \in Callers
    PROVE  /\ SetAnnotations \in Requests
           /\ ReconcileContainerResources(work[h].status) \in Requests
  BY Zenon DEF Data, Pods, SetAnnotations, ReconcileContainerResources, NewRequests,
         Requests

\* The counter of attempts stays in its range.
LEMMA Attempts ==
    /\ RetrySteps \in 0..RetrySteps
    /\ \A n \in 0..RetrySteps : n > 1 => n - 1 \in 0..RetrySteps
  BY PipelineAssumption

\* A conflict starts the attempt of h again, with the same status.
LEMMA Retried ==
    ASSUME Data, NEW h \in Callers, Conflict(h), work[h].tries > 1
    PROVE  /\ work'[h].at = "get" /\ work'[h].status = work[h].status
           /\ \A g \in Callers \ {h} : work'[g] = work[g]
           /\ UNCHANGED lost
<1> DEFINE again(n) == [Idle EXCEPT !.at = "get", !.status = work[h].status,
                                    !.tries = n]
<1>1. \A n : again(n).at = "get" /\ again(n).status = work[h].status
  BY DEF Idle, Off
<1>2. work' = [work EXCEPT ![h] = again(work[h].tries - 1)] /\ UNCHANGED lost
  BY DEF Conflict
<1> QED
  BY <1>1, <1>2 DEF Data

\* What is taken from the channel is a status.
LEMMA TakenType ==
    ASSUME Channel, events # <<>>
    PROVE  /\ Head(events) \in Statuses
           /\ Tail(events) \in Seq(Statuses)
           /\ Len(Tail(events)) <= EventsCap
  BY PipelineAssumption DEF Channel

\* Appending a status keeps the channel's type and bound.
LEMMA SendEventType ==
    ASSUME Channel, NEW s \in Statuses, SendEvent(s)
    PROVE  events' \in Seq(Statuses) /\ Len(events') <= EventsCap
  BY PipelineAssumption DEF Channel, SendEvent

\* Each step assigns a truth value to a flag or leaves it alone.
LEMMA FlagsStep ==
    Flags /\ [Next]_vars => Flags'
<1> SUFFICES ASSUME Flags, [Next]_vars PROVE Flags'
  OBVIOUS
<1> USE DEF Flags
<1>1. CASE ShimStarts \/ SetPhaseNotify \/ SendFailEvent \/ StaleStream
  BY Zenon, <1>1 DEF ShimStarts, SendEvent, SetPhaseNotify, SendFailEvent,
       StaleStream
<1>2. CASE Receives \/ Claims \/ KubeletResizes \/ ManagerCrashes \/
     ManagerLists \/ ManagerWatches \/ CacheStarts
  BY Zenon, <1>2 DEF Receives, Claims, KubeletResizes, ManagerCrashes, ManagerLists,
       ManagerWatches, CacheStarts
<1>3. ASSUME NEW h \in Callers, Handle(h) \/ Update(h) \/ Resize(h) \/
     Conflict(h) \/ CacheNotStarted(h) \/ HandlePodFails(h) PROVE Flags'
  BY Zenon, <1>3 DEF Handle, Update, Writes, SetLabel, Resize, Done, Conflict,
       GiveUp, CacheNotStarted, HandlePodFails
<1>4. CASE UNCHANGED vars
  BY <1>4 DEF vars
<1> QED
  BY <1>1, <1>2, <1>3, <1>4 DEF Next, SubscriberStep, HandlePod, ManagerStep,
       Callers

\* Only SendEvent, StaleStream and the subscriber touch the channel.
LEMMA ChannelStep ==
    Channel /\ [Next]_vars => Channel'
<1> SUFFICES ASSUME Channel, [Next]_vars PROVE Channel'
  OBVIOUS
<1> USE DEF Channel
<1>1. CASE ShimStarts
  <2>1. phase' \in Phases
    BY <1>1 DEF ShimStarts, Phases
  <2> QED
    BY <1>1, <2>1, SendEventType DEF ShimStarts, Statuses
<1>2. CASE SetPhaseNotify
  <2>1. phase' \in Phases
    BY <1>2 DEF SetPhaseNotify, Phases
  <2> QED
    BY <1>2, <2>1, SendEventType DEF SetPhaseNotify, Statuses
<1>3. CASE StaleStream \/ Receives
  <2>1. CASE events' = Tail(events) /\ events # <<>>
    BY <1>3, <2>1, TakenType DEF StaleStream, Receives
  <2>2. CASE events' = events
    BY <1>3, <2>2 DEF StaleStream, Receives
  <2> QED
    BY <1>3, <2>1, <2>2 DEF StaleStream, Receives
<1>4. CASE Claims \/ KubeletResizes \/ ManagerCrashes \/ ManagerLists \/
     ManagerWatches \/ CacheStarts
  BY Zenon, <1>4 DEF Claims, KubeletResizes, ManagerCrashes, ManagerLists,
       ManagerWatches, CacheStarts
<1>5. ASSUME NEW h \in Callers, Handle(h) \/ Update(h) \/ Resize(h) \/
     Conflict(h) \/ CacheNotStarted(h) \/ HandlePodFails(h) PROVE Channel'
  BY <1>5 DEF Handle, Update, Writes, SetLabel, Resize, Done, Conflict,
       GiveUp, CacheNotStarted, HandlePodFails
<1>6. CASE UNCHANGED vars
  BY <1>6 DEF vars
<1>7. CASE SendFailEvent
  BY PipelineAssumption, <1>7 DEF SendFailEvent, Statuses
<1> QED
  BY <1>1, <1>2, <1>3, <1>4, <1>5, <1>6, <1>7 DEF Next, SubscriberStep,
       HandlePod, ManagerStep, Callers

\* The copies of the callers and the object keep their types.
LEMMA DataStep ==
    Data /\ Channel /\ [Next]_vars => Data'
<1> SUFFICES ASSUME Data, Channel, [Next]_vars PROVE Data'
  BY Zenon
<1> USE JobsClosed DEF Data
<1>1. CASE ShimStarts
  BY ZenonT(30), <1>1 DEF ShimStarts, SendEvent, Callers
<1>2. CASE Receives
  <2>1. Head(events) \in Statuses /\ RetrySteps \in 0..RetrySteps
    BY ZenonT(30), <1>2, TakenType, Attempts DEF Receives
  <2> QED
    BY ZenonT(30), <1>2, <2>1 DEF Receives, Callers
<1>3. CASE Claims
  <2>1. "SCALED_DOWN" \in Statuses /\ RetrySteps \in 0..RetrySteps
    BY ZenonT(30), Attempts DEF Phases, Statuses
  <2> QED
    BY ZenonT(30), <1>3, <2>1 DEF Claims, Callers
<1>4. ASSUME NEW h \in Callers, Handle(h) PROVE Data'
  BY ZenonT(30), <1>4, HandledType DEF Handle
<1>5. ASSUME NEW h \in Callers, Update(h) PROVE Data'
  <2>1. work' \in [Callers -> Jobs]
    BY Zenon, <1>5 DEF Update
  <2>2. pod' \in Pods
    BY ZenonT(30), <1>5 DEF Update, Writes, SetLabel, Pods, Jobs
  <2> QED
    BY ZenonT(30), <1>5, <2>1, <2>2 DEF Update, Writes
<1>6. ASSUME NEW h \in Callers, Resize(h) PROVE Data'
  <2>1. work' \in [Callers -> Jobs]
    BY Zenon, <1>6 DEF Resize, Done
  <2>2. pod' \in Pods
    BY ZenonT(30), <1>6 DEF Resize, Writes, Pods, Jobs
  <2> QED
    BY ZenonT(30), <1>6, <2>1, <2>2 DEF Resize, Writes
<1>7. ASSUME NEW h \in Callers, Conflict(h) PROVE Data'
  <2>1. work[h] \in Jobs
    BY ZenonT(30), <1>7
  <2>2. /\ work[h].status \in Statuses
        /\ work[h].tries > 1 => work[h].tries - 1 \in 0..RetrySteps
    BY ZenonT(30), <2>1, Attempts
  <2>3. CASE work[h].tries > 1
    BY ZenonT(30), <1>7, <2>2, <2>3 DEF Conflict
  <2>4. CASE ~(work[h].tries > 1)
    BY Zenon, <1>7, <2>4 DEF Conflict, GiveUp, Done
  <2> QED
    BY ZenonT(30), <2>3, <2>4
<1>8. ASSUME NEW h \in Callers, CacheNotStarted(h) \/ HandlePodFails(h) PROVE
     Data'
  BY ZenonT(30), <1>8 DEF CacheNotStarted, GiveUp, Done, HandlePodFails
<1>9. CASE KubeletResizes
  BY ZenonT(30), <1>9 DEF KubeletResizes, Pods
<1>10. CASE ManagerCrashes
  BY ZenonT(30), <1>10 DEF ManagerCrashes
<1>11. CASE ManagerLists
  BY ZenonT(30), <1>11 DEF ManagerLists, Callers
<1>12. CASE SetPhaseNotify \/ SendFailEvent \/ StaleStream \/ ManagerWatches
     \/ CacheStarts
  BY ZenonT(30), <1>12 DEF SetPhaseNotify, SendEvent, SendFailEvent, StaleStream,
       ManagerWatches, CacheStarts
<1>13. CASE UNCHANGED vars
  BY Zenon, <1>13 DEF vars
<1> QED
  BY Zenon, <1>1, <1>2, <1>3, <1>4, <1>5, <1>6, <1>7, <1>8, <1>9, <1>10, <1>11,
       <1>12, <1>13 DEF Next, SubscriberStep, HandlePod, ManagerStep, Callers

\* Nothing is handled without a manager.
LEMMA PlacesStep ==
    Places /\ Data /\ [Next]_vars => Places'
<1> SUFFICES ASSUME Places, Data, [Next]_vars PROVE Places'
  OBVIOUS
<1> USE DEF Places, Callers, Data
<1>1. CASE ShimStarts
  BY <1>1 DEF ShimStarts, SendEvent
<1>2. CASE Receives
  BY <1>2 DEF Receives, sub
<1>3. CASE Claims
  BY <1>3 DEF Claims
<1>4. ASSUME NEW h \in Callers, Handle(h) \/ Update(h) PROVE Places'
  <2>1. mgr # "down" /\ UNCHANGED <<mgr, target>>
    BY Zenon, <1>4 DEF Handle, Update
  <2>2. work'["controller"].status = work["controller"].status
    <3>1. CASE Handle(h)
      BY <3>1 DEF Handle, Jobs
    <3>2. CASE Update(h)
      BY <3>2 DEF Update, Jobs
    <3> QED
      BY Zenon, <1>4, <3>1, <3>2
  <2> QED
    BY Zenon, <2>1, <2>2
<1>9. ASSUME NEW h \in Callers, Resize(h) PROVE Places'
  BY Zenon, <1>9 DEF Resize, Done, Off, Idle
<1>10. ASSUME NEW h \in Callers, Conflict(h) \/ CacheNotStarted(h) \/
     HandlePodFails(h) PROVE Places'
  <2>1. CASE Conflict(h) /\ work[h].tries > 1
    BY Zenon, <2>1, Retried DEF Conflict
  <2>2. CASE GiveUp(h)
    <3>1. mgr # "down" /\ UNCHANGED <<mgr, target>>
      BY Zenon, <1>10 DEF Conflict, CacheNotStarted, HandlePodFails
    <3>2. work'["controller"].status # "FAILED"
      BY Zenon, <2>2 DEF GiveUp, Done, Off, Idle
    <3> QED
      BY Zenon, <3>1, <3>2
  <2> QED
    BY Zenon, <1>10, <2>1, <2>2 DEF Conflict, CacheNotStarted, HandlePodFails
<1>5. CASE ManagerCrashes
  BY <1>5 DEF ManagerCrashes, Off
<1>6. CASE ManagerLists
  BY <1>6 DEF ManagerLists
<1>7. CASE SetPhaseNotify \/ SendFailEvent \/ StaleStream \/ KubeletResizes \/
     ManagerWatches \/ CacheStarts
  <2>1. UNCHANGED <<work, target>>
    BY Zenon, <1>7 DEF SetPhaseNotify, SendFailEvent, StaleStream,
       KubeletResizes, ManagerWatches, CacheStarts
  <2>2. \/ mgr' = mgr /\ cache' = cache
        \/ mgr' = "watching"
        \/ mgr # "down" /\ mgr' = mgr
    BY Zenon, <1>7 DEF SetPhaseNotify, SendFailEvent, StaleStream,
       KubeletResizes, ManagerWatches, CacheStarts
  <2> QED
    BY <2>1, <2>2
<1>8. CASE UNCHANGED vars
  BY <1>8 DEF vars
<1> QED
  BY <1>1, <1>2, <1>3, <1>4, <1>5, <1>6, <1>7, <1>8, <1>9,
       <1>10 DEF Next, SubscriberStep, HandlePod, ManagerStep, Callers

\* A stream without a manager is left by a crash only.
LEMMA CountsStep ==
    Counts /\ [Next]_vars => Counts'
<1> SUFFICES ASSUME Counts, [Next]_vars PROVE Counts'
  OBVIOUS
<1> USE PipelineAssumption DEF Counts
<1>1. CASE ShimStarts
  BY <1>1 DEF ShimStarts, SendEvent
<1>2. CASE SetPhaseNotify \/ SendFailEvent
  BY <1>2 DEF SetPhaseNotify, SendEvent, SendFailEvent
<1>3. CASE StaleStream
  <2>1. scalings' = scalings /\ mishaps' = mishaps
    BY Zenon, <1>3 DEF StaleStream
  <2>2. streams > 0 /\ (streams' = streams \/ streams' = streams - 1)
    BY Zenon, <1>3 DEF StaleStream
  <2> QED
    BY <2>1, <2>2
<1>4. CASE ManagerCrashes
  BY <1>4 DEF ManagerCrashes
<1>5. CASE Receives \/ Claims \/ KubeletResizes \/ ManagerLists \/
     ManagerWatches \/ CacheStarts
  BY <1>5 DEF Receives, Claims, KubeletResizes, ManagerLists, ManagerWatches,
       CacheStarts
<1>6. ASSUME NEW h \in Callers, Handle(h) \/ Update(h) \/ Resize(h) \/
     Conflict(h) \/ CacheNotStarted(h) \/ HandlePodFails(h) PROVE Counts'
  <2>1. CASE UNCHANGED <<streams, scalings, mishaps>>
    BY <2>1
  <2>2. CASE Mishap /\ UNCHANGED <<streams, scalings>>
    BY <2>2 DEF Mishap
  <2> QED
    BY Zenon, <1>6, <2>1, <2>2 DEF Handle, Update, Resize, Conflict,
       CacheNotStarted, HandlePodFails, shimVars
<1>7. CASE UNCHANGED vars
  BY <1>7 DEF vars
<1> QED
  BY <1>1, <1>2, <1>3, <1>4, <1>5, <1>6, <1>7 DEF Next, SubscriberStep,
       HandlePod, ManagerStep, Callers

-----------------------------------------------------------------------------
(* The initial requests. *)

\* The scaler's annotation is always the initial one: it is taken from the
\* containers only while they are not scaled down.
LEMMA AnnotationInitial ==
    ASSUME Data, Annotated
    PROVE  SetAnnotations = "initial"
  BY Zenon DEF Data, Annotated, Pods, Requests, SetAnnotations

\* A phase settles the requests whatever they are now.
LEMMA PhaseRequests ==
    ASSUME NEW s \in Phases, NEW x, NEW y
    PROVE  NewRequests("initial", x, s) = NewRequests("initial", y, s)
  BY DEF NewRequests, Phases

\* A caller that is done holds nothing.
LEMMA DoneHoldsNothing ==
    ASSUME Data, Prepared, NEW h \in Callers,
           work' = [work EXCEPT ![h] = Done(h)],
           pod'.annotation = pod.annotation,
           \/ pod' = pod /\ current' = current
           \/ current' = {h}
    PROVE  Prepared'
<1> SUFFICES ASSUME NEW g \in Callers, g # h,
                    work'[g].at \in {"update", "resize"}
             PROVE  /\ work'[g].annotation = "initial"
                    /\ work'[g].status \in Phases \/ g \in current' =>
                          work'[g].requests =
                             NewRequests("initial", pod'.requests, work'[g].status)
                    /\ work'[g].at = "resize" => pod'.annotation = "initial"
  <2>1. work'[h].at \in {"off", "idle"}
    BY Zenon DEF Data, Done, Off, Idle
  <2> QED
    BY Zenon, <2>1 DEF Prepared
<1>1. work'[g] = work[g]
  BY Zenon DEF Data
<1>2. CASE pod' = pod /\ current' = current
  BY Zenon, <1>1, <1>2 DEF Prepared
<1>3. CASE current' = {h}
  <2>1. g \notin current'
    BY Zenon, <1>3
  <2>2. work[g].status \in Phases =>
           work[g].requests = NewRequests("initial", pod'.requests, work[g].status)
    <3> SUFFICES ASSUME work[g].status \in Phases
                 PROVE  work[g].requests =
                           NewRequests("initial", pod'.requests, work[g].status)
      OBVIOUS
    <3>1. work[g].requests = NewRequests("initial", pod.requests, work[g].status)
      BY Zenon, <1>1 DEF Prepared
    <3> QED
      BY <3>1, PhaseRequests
  <2> QED
    BY Zenon, <1>1, <2>1, <2>2 DEF Prepared
<1> QED
  BY <1>2, <1>3

\* The copies are prepared with the initial requests, and the annotation is
\* written first.
LEMMA PreparedStep ==
    Data /\ Annotated /\ Prepared /\ [Next]_vars => Prepared'
<1> SUFFICES ASSUME Data, Annotated, Prepared, [Next]_vars PROVE Prepared'
  OBVIOUS
<1> USE DEF Data, Prepared, Callers
<1>1. CASE ShimStarts
  BY <1>1 DEF ShimStarts, SendEvent, Off, Idle
<1>2. CASE Receives
  BY <1>2 DEF Receives, Off, Idle
<1>3. CASE Claims
  BY <1>3 DEF Claims, Off, Idle
<1>4. ASSUME NEW h \in Callers, Handle(h) PROVE Prepared'
  BY <1>4, AnnotationInitial DEF Handle, ReconcileContainerResources
<1>5. ASSUME NEW h \in Callers, Update(h) PROVE Prepared'
  BY <1>5 DEF Update, Writes, SetLabel, Pods, Jobs
<1>6. ASSUME NEW h \in Callers, Resize(h) PROVE Prepared'
  <2>1. /\ work' = [work EXCEPT ![h] = Done(h)] /\ current' = {h}
        /\ pod'.annotation = pod.annotation
    BY Zenon, <1>6 DEF Resize, Writes, Pods
  <2> QED
    BY Zenon, <1>6, <2>1, DoneHoldsNothing
<1>7. ASSUME NEW h \in Callers, Conflict(h) PROVE Prepared'
  <2>1. CASE work[h].tries > 1
    BY ZenonT(30), <1>7, <2>1, Retried DEF Conflict
  <2>2. CASE ~(work[h].tries > 1)
    BY Zenon, <1>7, <2>2, DoneHoldsNothing DEF Conflict, GiveUp, podVars
  <2> QED
    BY <2>1, <2>2
<1>8. ASSUME NEW h \in Callers, CacheNotStarted(h) \/ HandlePodFails(h) PROVE
     Prepared'
  BY Zenon, <1>8, DoneHoldsNothing DEF CacheNotStarted, GiveUp, HandlePodFails,
       podVars
<1>9. CASE ManagerCrashes
  BY <1>9 DEF ManagerCrashes, Off, Idle
<1>10. CASE ManagerLists
  BY <1>10 DEF ManagerLists, Off, Idle
<1>11. CASE SetPhaseNotify \/ SendFailEvent \/ StaleStream \/ KubeletResizes \/
     ManagerWatches \/ CacheStarts
  BY <1>11 DEF SetPhaseNotify, SendEvent, SendFailEvent, StaleStream,
       KubeletResizes, ManagerWatches, CacheStarts
<1>12. CASE UNCHANGED vars
  BY <1>12 DEF vars
<1> QED
  BY <1>1, <1>2, <1>3, <1>4, <1>5, <1>6, <1>7, <1>8, <1>9, <1>10, <1>11,
       <1>12 DEF Next, SubscriberStep, HandlePod, ManagerStep, Callers

\* The containers are scaled down in an object that has the annotation.
LEMMA AnnotatedStep ==
    Data /\ Annotated /\ Prepared /\ [Next]_vars => Annotated'
<1> SUFFICES ASSUME Data, Annotated, Prepared, [Next]_vars PROVE Annotated'
  OBVIOUS
<1> USE DEF Annotated
<1>1. ASSUME NEW h \in Callers, Update(h) PROVE Annotated'
  BY Zenon, <1>1 DEF Update, Writes, SetLabel, Prepared, Data, Pods
<1>2. ASSUME NEW h \in Callers, Resize(h) PROVE Annotated'
  BY Zenon, <1>2 DEF Resize, Writes, Done, Prepared, Data, Pods
<1>3. ASSUME NEW h \in Callers, Handle(h) \/ Conflict(h) \/
     CacheNotStarted(h) \/ HandlePodFails(h) PROVE Annotated'
  BY Zenon, <1>3 DEF Handle, Conflict, GiveUp, Done, CacheNotStarted, HandlePodFails
<1>4. CASE ShimStarts \/ Receives \/ Claims \/ ManagerCrashes \/ ManagerLists
     \/ SetPhaseNotify \/ SendFailEvent \/ StaleStream \/ KubeletResizes \/
     ManagerWatches \/ CacheStarts
  BY Zenon, <1>4 DEF ShimStarts, SendEvent, Receives, Claims, ManagerCrashes,
       ManagerLists, SetPhaseNotify, SendFailEvent, StaleStream, KubeletResizes,
       ManagerWatches, CacheStarts
<1>5. CASE UNCHANGED vars
  BY Zenon, <1>5 DEF vars
<1> QED
  BY Zenon, <1>1, <1>2, <1>3, <1>4, <1>5 DEF Next, SubscriberStep, HandlePod,
       ManagerStep, Callers

-----------------------------------------------------------------------------
(* The last status. *)

\* The end of the channel after an event was sent: it has it or it is lost.
LEMMA Sent ==
    ASSUME Channel, NEW s \in Phases, SendEvent(s), ~lost'
    PROVE  ~NoPhase(events') /\ EndsWith(events', s)
<1>1. events' = Append(events, s) /\ s # "FAILED"
  BY DEF SendEvent, Phases
<1>2. /\ events \in Seq(Statuses) /\ Len(events) \in Nat
      /\ Len(events') = Len(events) + 1 /\ events'[Len(events) + 1] = s
  BY <1>1 DEF Channel, Statuses
<1> QED
  BY <1>1, <1>2 DEF NoPhase, EndsWith

\* A failure hides no phase.
LEMMA FailureSent ==
    ASSUME Channel, SendFailEvent
    PROVE  /\ NoPhase(events') => NoPhase(events)
           /\ \A p : EndsWith(events, p) => EndsWith(events', p)
<1>1. events' = Append(events, "FAILED")
  BY DEF SendFailEvent
<1>2. /\ events \in Seq(Statuses) /\ Len(events) \in Nat
      /\ Len(events') = Len(events) + 1 /\ events'[Len(events) + 1] = "FAILED"
      /\ \A i \in 1..Len(events) : events'[i] = events[i]
  BY <1>1 DEF Channel, Statuses
<1>3. NoPhase(events') => NoPhase(events)
  BY <1>2 DEF NoPhase
<1>4. ASSUME NEW p, EndsWith(events, p) PROVE EndsWith(events', p)
  <2> SUFFICES ASSUME NEW i \in 1..Len(events'), events'[i] # "FAILED",
                      \A j \in 1..Len(events') : j > i => events'[j] = "FAILED"
               PROVE  events'[i] = p
    BY DEF EndsWith
  <2>1. i \in 1..Len(events) /\ events'[i] = events[i]
    BY <1>2
  <2>2. \A j \in 1..Len(events) : j > i => events[j] = "FAILED"
    BY <1>2
  <2> QED
    BY <1>4, <2>1, <2>2 DEF EndsWith
<1> QED
  BY Zenon, <1>3, <1>4

\* Taking the first status leaves the last phase where it is, or takes it.
LEMMA Taken ==
    ASSUME Channel, events # <<>>
    PROVE  /\ NoPhase(Tail(events)) /\ Head(events) = "FAILED" => NoPhase(events)
           /\ \A p : EndsWith(events, p) =>
                 /\ EndsWith(Tail(events), p)
                 /\ NoPhase(Tail(events)) /\ Head(events) # "FAILED"
                       => Head(events) = p
<1> DEFINE n == Len(events)
           rest == Tail(events)
<1>1. events \in Seq(Statuses) /\ rest \in Seq(Statuses)
  BY TakenType DEF Channel
<1>2. /\ n \in Nat /\ n > 0 /\ Len(rest) = n - 1 /\ Head(events) = events[1]
      /\ \A i \in 1..(n - 1) : rest[i] = events[i + 1]
  BY <1>1
<1> HIDE DEF n, rest
<1>3. ASSUME NoPhase(rest), Head(events) = "FAILED" PROVE NoPhase(events)
  <2> SUFFICES ASSUME NEW i \in 1..n PROVE events[i] = "FAILED"
    BY DEF NoPhase, n
  <2>1. CASE i = 1
    BY <1>2, <1>3, <2>1
  <2>2. CASE i # 1
    <3>1. i - 1 \in 1..(n - 1) /\ (i - 1) + 1 = i
      BY <1>2, <2>2
    <3> QED
      BY <1>2, <1>3, <3>1 DEF NoPhase
  <2> QED
    BY <2>1, <2>2
<1>4. ASSUME NEW p, EndsWith(events, p) PROVE EndsWith(rest, p)
  <2> SUFFICES ASSUME NEW i \in 1..Len(rest), rest[i] # "FAILED",
                      \A j \in 1..Len(rest) : j > i => rest[j] = "FAILED"
               PROVE  rest[i] = p
    BY DEF EndsWith
  <2>1. i + 1 \in 1..n /\ rest[i] = events[i + 1]
    BY <1>2
  <2>2. ASSUME NEW j \in 1..n, j > i + 1 PROVE events[j] = "FAILED"
    <3>1. j - 1 \in 1..Len(rest) /\ j - 1 > i /\ (j - 1) + 1 = j
      BY <1>2, <2>2
    <3> QED
      BY <1>2, <3>1
  <2> QED
    BY <1>4, <2>1, <2>2 DEF EndsWith, n
<1>5. ASSUME NEW p, EndsWith(events, p), NoPhase(rest), Head(events) # "FAILED"
      PROVE  Head(events) = p
  <2>1. ASSUME NEW j \in 1..n, j > 1 PROVE events[j] = "FAILED"
    <3>1. j - 1 \in 1..Len(rest) /\ (j - 1) + 1 = j
      BY <1>2, <2>1
    <3> QED
      BY <1>2, <1>5, <3>1 DEF NoPhase
  <2> QED
    BY <1>2, <1>5, <2>1 DEF EndsWith, n
<1> QED
  BY Zenon, <1>3, <1>4, <1>5 DEF rest

\* What a stream without a manager takes away.
LEMMA StreamTakes ==
    ASSUME Channel, StaleStream
    PROVE  \/ events' = events /\ lost' = lost
           \/ /\ events # <<>> /\ events' = Tail(events)
              /\ ~lost' => ~lost
              /\ ~lost' /\ Head(events) # "FAILED" => ~NoPhase(events')
<1>1. \/ UNCHANGED <<events, lost>>
      \/ /\ events # <<>> /\ events' = Tail(events)
         /\ lost' = (\/ lost
                     \/ Head(events) \in Phases /\ NoPhase(Tail(events)))
  BY Zenon DEF StaleStream
<1>2. CASE UNCHANGED <<events, lost>>
  BY Zenon, <1>2
<1>3. CASE /\ events # <<>> /\ events' = Tail(events)
           /\ lost' = (\/ lost
                       \/ Head(events) \in Phases /\ NoPhase(Tail(events)))
  <2>1. Head(events) \in Phases \/ Head(events) = "FAILED"
    BY Zenon, <1>3, TakenType DEF Statuses
  <2>2. ~lost' => ~lost /\ ~(Head(events) \in Phases /\ NoPhase(Tail(events)))
    BY Zenon, <1>3
  <2> QED
    BY Zenon, <1>3, <2>1, <2>2
<1> QED
  BY Zenon, <1>1, <1>2, <1>3

\* A caller that gives its status up without loss is the subscriber, and has
\* news of a failure or a later phase waiting for it.
LEMMA GivenUp ==
    ASSUME Data, NEW h \in Callers, GiveUp(h), ~lost'
    PROVE  /\ ~lost /\ h = "subscriber"
           /\ work[h].status = "FAILED" \/ ~NoPhase(events)
<1>1. work[h].status \in Statuses
  BY JobsClosed DEF Data
<1>2. ~lost /\ h # "controller" /\ ~(work[h].status \in Phases /\ NoPhase(events))
  BY Zenon DEF GiveUp
<1> QED
  BY Zenon, <1>1, <1>2 DEF Statuses, Callers

\* A new phase of the container is sent at once.
LEMMA NewPhase ==
    ASSUME Channel, ShimStarts \/ SetPhaseNotify
    PROVE  phase' \in Phases /\ SendEvent(phase')
  BY DEF ShimStarts, SetPhaseNotify, Phases

\* The status at the end of the channel is the phase, unless it was lost.
LEMMA InChannelStep ==
    Channel /\ InChannel /\ [Next]_vars => InChannel'
<1> SUFFICES ASSUME Channel, InChannel, [Next]_vars PROVE InChannel'
  OBVIOUS
<1> USE DEF InChannel
<1>1. CASE ShimStarts \/ SetPhaseNotify
  <2> QED
    BY <1>1, NewPhase, Sent
<1>2. CASE StaleStream
  <2>1. phase' = phase /\ UNCHANGED <<work, pod, overtaken>>
    BY Zenon, <1>2 DEF StaleStream, podVars
  <2>2. CASE events' = events /\ lost' = lost
    BY Zenon, <2>1, <2>2
  <2>3. CASE /\ events # <<>> /\ events' = Tail(events)
             /\ ~lost' => ~lost
             /\ ~lost' /\ Head(events) # "FAILED" => ~NoPhase(events')
    BY Zenon, <2>1, <2>3, Taken
  <2> QED
    BY Zenon, <1>2, <2>2, <2>3, StreamTakes
<1>3. CASE Receives
  BY <1>3, Taken DEF Receives
<1>4. CASE Claims \/ KubeletResizes \/ ManagerCrashes \/ ManagerLists \/
     ManagerWatches \/ CacheStarts
  BY Zenon, <1>4 DEF Claims, KubeletResizes, ManagerCrashes, ManagerLists,
       ManagerWatches, CacheStarts
<1>5. ASSUME NEW h \in Callers, Handle(h) \/ Update(h) \/ Resize(h) \/
     Conflict(h) \/ CacheNotStarted(h) \/ HandlePodFails(h) PROVE InChannel'
  BY Zenon, <1>5 DEF Handle, Update, Writes, SetLabel, Resize, Done, Conflict,
       GiveUp, CacheNotStarted, HandlePodFails
<1>6. CASE UNCHANGED vars
  BY <1>6 DEF vars
<1>7. CASE SendFailEvent
  BY Zenon, <1>7, FailureSent DEF SendFailEvent, podVars, histVars
<1> QED
  BY <1>1, <1>2, <1>3, <1>4, <1>5, <1>6, <1>7 DEF Next, SubscriberStep,
       HandlePod, ManagerStep, Callers

\* What the subscriber took last is the phase, when nothing is in the channel.
LEMMA WithSubscriberStep ==
    Channel /\ Data /\ InChannel /\ WithSubscriber /\ [Next]_vars =>
         WithSubscriber'
<1> SUFFICES ASSUME Channel, Data, InChannel, WithSubscriber, [Next]_vars
     PROVE WithSubscriber'
  OBVIOUS
<1> USE DEF WithSubscriber, sub, Data, Callers
<1>1. CASE ShimStarts \/ SetPhaseNotify
  <2> QED
    BY <1>1, NewPhase, Sent
<1>2. CASE StaleStream
  <2>1. phase' = phase /\ UNCHANGED <<work, pod, overtaken>>
    BY Zenon, <1>2 DEF StaleStream, podVars
  <2>2. CASE events' = events /\ lost' = lost
    BY Zenon, <2>1, <2>2
  <2>3. CASE /\ events # <<>> /\ events' = Tail(events)
             /\ ~lost' => ~lost
             /\ ~lost' /\ Head(events) # "FAILED" => ~NoPhase(events')
    BY Zenon, <2>1, <2>3, Taken
  <2> QED
    BY Zenon, <1>2, <2>2, <2>3, StreamTakes
<1>3. CASE Receives
  BY <1>3, Taken DEF Receives, InChannel, Off, Idle
<1>4. CASE Claims
  BY <1>4 DEF Claims
<1>5. ASSUME NEW h \in Callers, Handle(h) PROVE WithSubscriber'
  BY <1>5 DEF Handle, Jobs
<1>6. ASSUME NEW h \in Callers, Update(h) PROVE WithSubscriber'
  BY <1>6 DEF Update, Writes, SetLabel, Jobs
<1>7. ASSUME NEW h \in Callers, Resize(h) PROVE WithSubscriber'
  BY <1>7 DEF Resize, Writes, Done, Off, Idle, Jobs
<1>8. ASSUME NEW h \in Callers, Conflict(h) PROVE WithSubscriber'
  <2>1. CASE work[h].tries > 1
    <3>1. phase' = phase /\ events' = events /\ lost' = lost
      BY <1>8, <2>1, Retried DEF Conflict
    <3>2. \/ sub.at' = sub.at /\ sub.status' = sub.status
          \/ sub.at \in {"update", "resize"} /\ sub.status' = sub.status
      BY Zenon, <1>8, <2>1, Retried DEF Conflict
    <3> QED
      BY <3>1, <3>2
  <2>2. CASE ~(work[h].tries > 1)
    BY Zenon, <1>8, <2>2 DEF Conflict, GiveUp, Done, Off, Idle
  <2> QED
    BY <2>1, <2>2
<1>9. ASSUME NEW h \in Callers, CacheNotStarted(h) \/ HandlePodFails(h) PROVE
     WithSubscriber'
  BY Zenon, <1>9 DEF CacheNotStarted, GiveUp, Done, HandlePodFails, Off, Idle
<1>10. CASE ManagerCrashes
  BY <1>10 DEF ManagerCrashes, Off, Idle
<1>11. CASE ManagerLists
  BY <1>11 DEF ManagerLists, Off, Idle
<1>12. CASE KubeletResizes \/ ManagerWatches \/ CacheStarts
  BY <1>12 DEF KubeletResizes, ManagerWatches, CacheStarts
<1>13. CASE UNCHANGED vars
  BY <1>13 DEF vars
<1>14. CASE SendFailEvent
  BY Zenon, <1>14, FailureSent DEF SendFailEvent, podVars, histVars
<1> QED
  BY <1>1, <1>2, <1>3, <1>4, <1>5, <1>6, <1>7, <1>8, <1>9, <1>10, <1>11,
       <1>12, <1>13, <1>14 DEF Next, SubscriberStep, HandlePod, ManagerStep, Callers

\* Another write makes the subscriber's copy old.
LEMMA LabelledStep ==
    Data /\ Labelled /\ [Next]_vars => Labelled'
<1> SUFFICES ASSUME Data, Labelled, [Next]_vars PROVE Labelled'
  OBVIOUS
<1> USE DEF Labelled, sub, Data, Callers
<1>1. CASE ShimStarts
  BY <1>1 DEF ShimStarts, SendEvent, Off, Idle
<1>2. CASE Receives
  BY <1>2 DEF Receives, Off, Idle
<1>3. CASE Claims
  BY <1>3 DEF Claims
<1>4. ASSUME NEW h \in Callers, Handle(h) PROVE Labelled'
  BY <1>4 DEF Handle, Jobs
<1>5. ASSUME NEW h \in Callers, Update(h) PROVE Labelled'
  <2>1. CASE h = "controller"
    BY Zenon, <1>5, <2>1 DEF Update, Writes
  <2>2. CASE h = "subscriber" /\ work[h].status # "FAILED"
    <3>1. work[h].status \in Phases
      BY Zenon, <2>2, JobsClosed DEF Statuses
    <3>2. pod'.label = work[h].status
      BY Zenon, <1>5, <3>1 DEF Update, Writes, SetLabel, Pods
    <3>3. work'[h].status = work[h].status
      BY Zenon, <1>5 DEF Update, Jobs
    <3> QED
      BY Zenon, <2>2, <3>2, <3>3
  <2>3. CASE h = "subscriber" /\ work[h].status = "FAILED"
    BY Zenon, <1>5, <2>3 DEF Update, Jobs
  <2> QED
    BY Zenon, <2>1, <2>2, <2>3
<1>6. ASSUME NEW h \in Callers, Resize(h) PROVE Labelled'
  BY <1>6 DEF Resize, Writes, Done, Off, Idle
<1>7. ASSUME NEW h \in Callers, Conflict(h) PROVE Labelled'
  <2>1. CASE work[h].tries > 1
    BY <1>7, <2>1, Retried DEF Conflict
  <2>2. CASE ~(work[h].tries > 1)
    BY <1>7, <2>2 DEF Conflict, GiveUp, Done, Off, Idle
  <2> QED
    BY <2>1, <2>2
<1>8. ASSUME NEW h \in Callers, CacheNotStarted(h) \/ HandlePodFails(h) PROVE
     Labelled'
  BY <1>8 DEF CacheNotStarted, GiveUp, Done, HandlePodFails, Off, Idle
<1>9. CASE ManagerCrashes
  BY <1>9 DEF ManagerCrashes, Off, Idle
<1>10. CASE ManagerLists
  BY <1>10 DEF ManagerLists, Off, Idle
<1>11. CASE SetPhaseNotify \/ SendFailEvent \/ StaleStream \/ KubeletResizes \/
     ManagerWatches \/ CacheStarts
  BY <1>11 DEF SetPhaseNotify, SendEvent, SendFailEvent, StaleStream,
       KubeletResizes, ManagerWatches, CacheStarts
<1>12. CASE UNCHANGED vars
  BY <1>12 DEF vars
<1> QED
  BY <1>1, <1>2, <1>3, <1>4, <1>5, <1>6, <1>7, <1>8, <1>9, <1>10, <1>11,
       <1>12 DEF Next, SubscriberStep, HandlePod, ManagerStep, Callers

\* A caller that is done has written the phase, or it is a controller that has
\* overtaken it, or a later status is on its way.
LEMMA InObjectStep ==
    Channel /\ Data /\ Places /\ Prepared /\ WithSubscriber /\ Labelled /\
         InObject /\ [Next]_vars => InObject'
<1> SUFFICES ASSUME Channel, Data, Places, Prepared, WithSubscriber,
     Labelled, InObject, [Next]_vars PROVE InObject'
  OBVIOUS
<1> USE DEF InObject, Applied, sub, Data, Callers
<1>1. CASE ShimStarts \/ SetPhaseNotify
  <2> QED
    BY Zenon, <1>1, NewPhase, Sent
<1>2. CASE StaleStream
  <2>1. phase' = phase /\ UNCHANGED <<work, pod, overtaken>>
    BY Zenon, <1>2 DEF StaleStream, podVars
  <2>2. CASE events' = events /\ lost' = lost
    BY Zenon, <2>1, <2>2
  <2>3. CASE /\ events # <<>> /\ events' = Tail(events)
             /\ ~lost' => ~lost
             /\ ~lost' /\ Head(events) # "FAILED" => ~NoPhase(events')
    BY Zenon, <2>1, <2>3, Taken
  <2> QED
    BY Zenon, <1>2, <2>2, <2>3, StreamTakes
<1>3. CASE Receives
  <2>1. /\ work["subscriber"]' = [Idle EXCEPT !.at = "get",
                                 !.status = Head(events), !.tries = RetrySteps]
        /\ work["controller"]' = work["controller"]
    BY Zenon, <1>3 DEF Receives, Subscriber
  <2>2. work["subscriber"].at' = "get" /\ work["subscriber"].status' = Head(events)
    BY Zenon, <2>1 DEF Idle, Off
  <2>3. /\ work["subscriber"].at = "idle" /\ events # <<>>
        /\ events' = Tail(events) /\ UNCHANGED <<phase, pod, lost, overtaken>>
    BY Zenon, <1>3 DEF Receives, podVars, histVars
  <2> QED
    BY Zenon, <2>1, <2>2, <2>3, Taken
<1>4. CASE Claims
  BY Zenon, <1>4 DEF Claims, Off, Idle
<1>5. ASSUME NEW h \in Callers, Handle(h) PROVE InObject'
  BY Zenon, <1>5 DEF Handle, Jobs
<1>6. ASSUME NEW h \in Callers, Update(h) PROVE InObject'
  <2>1. /\ UNCHANGED <<phase, events, lost, overtaken>>
        /\ work' = [work EXCEPT ![h].at = "resize"]
        /\ pod' = [SetLabel(pod, work[h].status) EXCEPT
                       !.annotation = work[h].annotation]
        /\ work[h].at = "update"
    BY Zenon, <1>6 DEF Update, Writes, shimVars, histVars
  <2>2. CASE h = "controller"
    BY Zenon, <2>1, <2>2 DEF Jobs
  <2>3. CASE h = "subscriber" /\ work[h].status = "FAILED"
    <3>1. pod'.label = pod.label /\ pod'.requests = pod.requests
      BY Zenon, <2>1, <2>3 DEF SetLabel, Phases, Pods
    <3> QED
      BY Zenon, <2>1, <2>3, <3>1 DEF Jobs
  <2>4. CASE h = "subscriber" /\ work[h].status # "FAILED"
    BY Zenon, <2>1, <2>4 DEF Jobs
  <2> QED
    BY Zenon, <2>2, <2>3, <2>4
<1>7. ASSUME NEW h \in Callers, Resize(h) PROVE InObject'
  <2>1. /\ UNCHANGED <<phase, events, lost>>
        /\ work' = [work EXCEPT ![h] = Done(h)]
        /\ pod' = [pod EXCEPT !.requests = work[h].requests]
        /\ work[h].at = "resize" /\ h \in current
    BY Zenon, <1>7 DEF Resize, Writes, shimVars
  <2>2. pod'.label = pod.label /\ pod'.requests = work[h].requests
    BY Zenon, <2>1 DEF Pods
  <2>3. work[h].requests = NewRequests("initial", pod.requests, work[h].status)
    BY Zenon, <2>1 DEF Prepared
  <2>4. work[h].status \in Statuses
    BY Zenon, JobsClosed
  <2>5. CASE h = "controller"
    <3>1. work[h].status \in Phases
      BY Zenon, <2>4, <2>5 DEF Places, Statuses
    <3>2. phase # "none" => overtaken'
      BY Zenon, <1>7, <2>5, <3>1 DEF Resize
    <3> QED
      BY Zenon, <2>1, <3>2
  <2>6. CASE h = "subscriber" /\ work[h].status = "FAILED"
    <3>1. overtaken' = overtaken
      BY Zenon, <1>7, <2>6 DEF Resize, Phases
    <3>2. pod'.requests = pod.requests
      BY Zenon, <2>2, <2>3, <2>6 DEF NewRequests
    <3> QED
      BY Zenon, <2>1, <2>2, <2>6, <3>1, <3>2
  <2>7. CASE h = "subscriber" /\ work[h].status # "FAILED"
    <3>1. pod.label = work[h].status
      BY Zenon, <2>1, <2>7 DEF Labelled
    <3>2. phase # "none" /\ ~lost /\ NoPhase(events) => work[h].status = phase
      BY Zenon, <2>1, <2>7 DEF WithSubscriber
    <3>3. /\ work[h].status = "RUNNING" => pod'.requests = "initial"
          /\ work[h].status = "SCALED_DOWN" => pod'.requests = "scaled down"
      BY Zenon, <2>2, <2>3 DEF NewRequests
    <3>4. work[h].status = "RUNNING" \/ work[h].status = "SCALED_DOWN"
      BY Zenon, <2>4, <2>7 DEF Statuses, Phases
    <3> QED
      BY Zenon, <2>1, <2>2, <3>1, <3>2, <3>3, <3>4
  <2> QED
    BY Zenon, <2>5, <2>6, <2>7
<1>8. ASSUME NEW h \in Callers, Conflict(h) PROVE InObject'
  <2>1. CASE work[h].tries > 1
    BY Zenon, <1>8, <2>1, Retried DEF Conflict
  <2>2. CASE ~(work[h].tries > 1)
    <3>1. GiveUp(h) /\ UNCHANGED <<phase, events, pod, overtaken>>
      BY Zenon, <1>8, <2>2 DEF Conflict, shimVars, podVars
    <3>2. work[h].at \in {"update", "resize"}
      BY Zenon, <1>8 DEF Conflict
    <3> QED
      BY Zenon, <3>1, <3>2, GivenUp DEF GiveUp
  <2> QED
    BY Zenon, <2>1, <2>2
<1>9. ASSUME NEW h \in Callers, CacheNotStarted(h) \/ HandlePodFails(h) PROVE
     InObject'
  <2>1. GiveUp(h) /\ UNCHANGED <<phase, events, pod, overtaken>>
    BY Zenon, <1>9 DEF CacheNotStarted, HandlePodFails, shimVars, podVars
  <2> QED
    BY Zenon, <2>1, GivenUp DEF GiveUp
<1>10. CASE ManagerCrashes
  <2>1. /\ UNCHANGED <<phase, events, pod, overtaken>>
        /\ ~lost' => /\ ~lost /\ work["controller"].at = "off"
                     /\ ~(/\ sub.at \notin {"off", "idle"}
                          /\ sub.status \in Phases /\ NoPhase(events))
    BY Zenon, <1>10 DEF ManagerCrashes, podVars
  <2>2. sub.status \in Phases \/ sub.status = "FAILED"
    BY Zenon, JobsClosed DEF Statuses
  <2> QED
    BY Zenon, <2>1, <2>2
<1>11. CASE ManagerLists
  BY Zenon, <1>11 DEF ManagerLists, Places, Off, Idle
<1>12. CASE KubeletResizes \/ ManagerWatches \/ CacheStarts
  BY Zenon, <1>12 DEF KubeletResizes, ManagerWatches, CacheStarts
<1>13. CASE UNCHANGED vars
  BY Zenon, <1>13 DEF vars
<1>14. CASE SendFailEvent
  BY Zenon, <1>14, FailureSent DEF SendFailEvent, podVars, histVars
<1> QED
  BY Zenon, <1>1, <1>2, <1>3, <1>4, <1>5, <1>6, <1>7, <1>8, <1>9, <1>10, <1>11,
       <1>12, <1>13, <1>14 DEF Next, SubscriberStep, HandlePod, ManagerStep, Callers

-----------------------------------------------------------------------------
(* The theorems. *)

\* TypeOK is what Typed says, but for the bound of the streams.
LEMMA TypedCorrect ==
    Typed => TypeOK
<1>1. Counts => streams \in 0..Mishaps
  BY PipelineAssumption DEF Counts
<1> QED
  BY <1>1 DEF Typed, TypeOK, Flags, Channel, Data, Places

\* No shim and no manager run at first, and the object is as it was created.
LEMMA InitIInv == Init => IInv
<1> SUFFICES ASSUME Init PROVE IInv
  OBVIOUS
<1> USE DEF Init
<1>0. Flags
  BY Zenon DEF Flags
<1>1. Channel
  BY PipelineAssumption DEF Channel
<1>2. Data
  BY Zenon, JobsClosed DEF Data, Pods, Phases, Requests
<1>3. Places /\ Counts
  BY PipelineAssumption DEF Places, Counts, Off, Callers
<1>4. Prepared /\ Annotated
  BY DEF Prepared, Annotated, Off
<1>5. InChannel /\ WithSubscriber /\ InObject
  BY DEF InChannel, WithSubscriber, InObject
<1>6. Labelled
  BY DEF Labelled, sub, Off, Callers
<1> QED
  BY <1>0, <1>1, <1>2, <1>3, <1>4, <1>5, <1>6 DEF IInv, Kept, Typed

\* Every step of shim, manager, controller and kubelet keeps the invariant.
LEMMA IInvStep == IInv /\ [Next]_vars => IInv'
  BY FlagsStep, ChannelStep, DataStep, PlacesStep, CountsStep, PreparedStep,
     AnnotatedStep, InChannelStep, WithSubscriberStep, InObjectStep,
     LabelledStep DEF IInv, Kept, Typed

\* The requests that a pod was created with are in its annotation before
\* handlePod scales the containers down, whatever fails, conflicts or crashes
\* in between.
THEOREM InitialKeptCorrect == Spec => []InitialKept
<1>1. IInv => InitialKept
  BY Zenon, TypedCorrect DEF IInv, Kept, InitialKept, Annotated
<1> QED
  BY <1>1, InitIInv, IInvStep, PTL DEF Spec

\* When the subscriber waits on an empty channel and the controller is done,
\* label and requests of the object are those of the container's phase, unless
\* the last status was lost or the controller wrote after it.
THEOREM InSyncCorrect == Spec => []InSync
<1>1. IInv => InSync
  BY DEF IInv, InSync, InObject, NoPhase
<1> QED
  BY <1>1, InitIInv, IInvStep, PTL DEF Spec
=============================================================================
