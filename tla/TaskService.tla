---------------------------- MODULE TaskService ----------------------------
(***************************************************************************)
(* The task service of the shim (shim/task): how the exits that the reaper *)
(* delivers reach containerd.  service publishes them, after the start of  *)
(* the same process and the one of the init process last; wrapper sits in  *)
(* front and keeps back the exits that a checkpoint has caused.            *)
(*                                                                         *)
(* One zeropod container with its init process and some exec sessions.     *)
(* A restore makes a new runc.Container with a new init process, so both   *)
(* are numbered; the maps of service have one entry per runc.Container.    *)
(***************************************************************************)
EXTENDS Integers, Sequences, FiniteSets

CONSTANTS
    Execs,      \* exec sessions
    Restores,   \* bound: how often the container is restored
    Faults,     \* the operations that may fail; "kill": a scale down by killing,
                \* as it follows a failed dump, meets a process that has
                \* exited, or fails
    NoChan,     \* no entry in execCountSubscribers
    NoExit      \* an exit loop that waits for the next exit

Inits == 0..Restores        \* the runc.Containers and their init processes
Procs == Inits \cup Execs

ASSUME TaskAssumption ==
    /\ Restores \in Nat
    /\ IsFiniteSet(Execs)
    /\ Execs \cap Inits = {}
    /\ NoExit \notin [p : Procs, known : BOOLEAN]
                        \cup [p : Procs, step : {"handle", "count"}]
    /\ Faults \subseteq {"start", "dump", "kill"}

VARIABLES
    call,           \* how far Create, Start, Exec or a restore is per process
    life,           \* the process itself
    home,           \* the runc.Container of an exec session
    containers,     \* service.containers: the runc.Container in use
    running,        \* service.running
    early,          \* exits that a subscription of preStart has collected
    runningExecs,   \* service.runningExecs
    subscribers,    \* service.execCountSubscribers: the channel's content
    initExit,       \* service.containerInitExit
    exitChan,       \* wrapper.exitChan: exits from the reaper
    ec,             \* service.ec: exits that wrapper passes on
    wrapperExit,    \* the exit in wrapper.processExits, and what it found
    serviceExit,    \* the exit in service.processExits, and what it found
    waiters,        \* goroutines of handleInitExit, by runc.Container
    scaledDown,     \* Container.scaledDown
    checkpointed,   \* Container.checkpointedPIDs
    timer,          \* scaleDownTimer is pending
    down,           \* where the scale-down callback is
    started,        \* history: processes whose start was published
    published,      \* history: how often the exit of a process was published
    swallowed       \* history: exits that wrapper kept back

callVars == <<call, life, home>>
mapVars  == <<containers, running, early>>
execVars == <<runningExecs, subscribers, initExit, waiters>>
loopVars == <<exitChan, ec, wrapperExit, serviceExit>>
downVars == <<scaledDown, checkpointed, timer, down>>
histVars == <<started, published, swallowed>>
vars == <<callVars, mapVars, execVars, loopVars, downVars, histVars>>

CallLabels == {"none", "creating", "created", "start", "exec", "added",
               "unknown", "sent", "count", "up", "failed", "deleted", "restored"}

-----------------------------------------------------------------------------
(* preStart, handleStarted and the exits that come early. *)

\* The calls between preStart and handleStarted hold a subscription.
Subscribed(p) == call[p] \in {"creating", "start", "sent"}

\* Container.Container: a restore sets it before postRestore sets containers.
Current ==
    IF \E c \in Inits : call[c] = "restored"
    THEN CHOOSE c \in Inits : call[c] = "restored"
    ELSE containers

Goto(p, from, to) == call[p] = from /\ call' = [call EXCEPT ![p] = to]

\* The process p of the call is known to processExits from now on.
AddRunning(p) ==
    /\ running' = running \cup {p}
    /\ UNCHANGED <<early, published>>

Publish(p) == published' = [published EXCEPT ![p] = @ + 1]

HandleStarted_LosesEarly(p, from, up, counting) ==
    /\ Goto(p, from, up)
    /\ running' = running \cup {p}
    /\ early' = early \ {p}
    /\ UNCHANGED published

\* handleStarted: an exit that came early is published at once, else the
\* process is running.  The exit of an exec session is still to be counted.
HandleStarted(p, from, up, counting) ==
    \/ /\ p \notin early
       /\ Goto(p, from, up)
       /\ AddRunning(p)
    \/ /\ p \in early
       /\ Goto(p, from, counting)
       /\ Publish(p)
       /\ early' = early \ {p}
       /\ UNCHANGED running

\* An exec session less; the goroutine of handleInitExit is told.
CountDown(c) ==
    /\ runningExecs' = [runningExecs EXCEPT ![c] = @ - 1]
    /\ subscribers' =
          IF subscribers[c] = NoChan THEN subscribers
          ELSE [subscribers EXCEPT
                   ![c].buf = Append(@, runningExecs[c] - 1)]

-----------------------------------------------------------------------------
(* Create and Start of the container, Exec, Start and Delete of a session. *)

\* preStart, and runc creates the init process, which waits to be started.
Create ==
    /\ Goto(0, "none", "creating")
    /\ life' = [life EXCEPT ![0] = "alive"]
    /\ UNCHANGED <<home, mapVars, execVars, loopVars, downVars, histVars>>

\* The event TaskCreate is sent, handleStarted called.
Created ==
    /\ HandleStarted(0, "creating", "created", "created")
    /\ UNCHANGED <<life, home, containers, execVars, loopVars, downVars,
                   started, swallowed>>

\* The container's own Start: its exit counts as early again.
StartInit ==
    /\ Goto(0, "created", "start")
    /\ running' = running \ {0}
    /\ UNCHANGED <<life, home, containers, early, execVars, loopVars, downVars,
                   histVars>>

\* Exec of the wrapper: the scale down is cancelled, and a container that is
\* scaled down is restored first.
Exec(e) ==
    /\ Goto(e, "none", "exec")
    /\ call[0] = "up"
    /\ timer' = FALSE
    /\ UNCHANGED <<life, home, mapVars, execVars, loopVars, scaledDown,
                   checkpointed, down, histVars>>

\* Exec of the service adds the session to the runc.Container in use.
ExecAdded(e) ==
    /\ Goto(e, "exec", "added")
    /\ ~scaledDown
    /\ home' = [home EXCEPT ![e] = containers]
    /\ UNCHANGED <<life, mapVars, execVars, loopVars, downVars, histVars>>

StartExec_Unguarded(e) ==
    /\ Goto(e, "added", IF home[e] = containers THEN "start" ELSE "unknown")
    /\ home' = [home EXCEPT ![e] = containers]
    /\ runningExecs' = [runningExecs EXCEPT ![containers] = @ + 1]
    /\ UNCHANGED <<life, mapVars, subscribers, initExit, waiters, loopVars,
                   downVars, histVars>>

\* Start of a session counts it, unless the init process has exited.  A
\* runc.Container that has replaced the one of Exec does not know the session.
StartExec(e) ==
    /\ ~initExit[containers]
    /\ Goto(e, "added", IF home[e] = containers THEN "start" ELSE "unknown")
    /\ home' = [home EXCEPT ![e] = containers]
    /\ runningExecs' = [runningExecs EXCEPT ![containers] = @ + 1]
    /\ UNCHANGED <<life, mapVars, subscribers, initExit, waiters, loopVars,
                   downVars, histVars>>

StartRefused(e) ==
    /\ initExit[containers]
    /\ Goto(e, "added", "failed")
    /\ UNCHANGED <<life, home, mapVars, execVars, loopVars, downVars, histVars>>

\* The init process lets the application run, the session's process starts;
\* the start is published.
ProcessStarts(p) ==
    /\ Goto(p, "start", "sent")
    /\ life[IF p \in Execs THEN Current ELSE p] = "alive"
    /\ life' = [life EXCEPT ![p] = "alive"]
    /\ started' = started \cup {p}
    /\ UNCHANGED <<home, mapVars, execVars, loopVars, downVars, published,
                   swallowed>>

ExecFails_KeepsCount(e) ==
    /\ \/ Goto(e, "unknown", "failed")
       \/ /\ life[Current] # "alive" \/ "start" \in Faults
          /\ Goto(e, "start", "failed")
    /\ UNCHANGED <<life, home, mapVars, execVars, loopVars, downVars, histVars>>

\* A session cannot be started: it is counted down again.
ExecFails(e) ==
    /\ \/ Goto(e, "unknown", "failed")
       \/ /\ life[Current] # "alive" \/ "start" \in Faults
          /\ Goto(e, "start", "failed")
    /\ CountDown(home[e])
    /\ UNCHANGED <<life, home, mapVars, initExit, waiters, loopVars, downVars,
                   histVars>>

\* The init process cannot be started.
InitFails ==
    /\ life[0] # "alive" \/ "start" \in Faults
    /\ HandleStarted(0, "start", "failed", "failed")
    /\ UNCHANGED <<life, home, containers, execVars, loopVars, downVars,
                   started, swallowed>>

\* handleStarted after the start was published.  The wrapper then registers
\* the container and schedules its scale down.
Started(p) ==
    /\ HandleStarted(p, "sent", "up", IF p \in Execs THEN "count" ELSE "up")
    /\ timer' = (timer \/ p = 0)
    /\ UNCHANGED <<life, home, containers, execVars, loopVars, scaledDown,
                   checkpointed, down, started, swallowed>>

\* The rest of handleProcessExit, called by handleStarted.
StartedCounts(e) ==
    /\ Goto(e, "count", "up")
    /\ CountDown(home[e])
    /\ UNCHANGED <<life, home, mapVars, initExit, waiters, loopVars, downVars,
                   histVars>>

Delete_IgnoresOthers(e) ==
    /\ \/ published[e] > 0 /\ Goto(e, "up", "deleted")
       \/ Goto(e, "failed", "deleted")
    /\ timer' = TRUE
    /\ UNCHANGED <<life, home, mapVars, execVars, loopVars, scaledDown,
                   checkpointed, down, histVars>>

\* Delete of a session that has ended: the scale down is scheduled again when
\* no session is running in the container.
Delete(e) ==
    /\ \/ published[e] > 0 /\ Goto(e, "up", "deleted")
       \/ Goto(e, "failed", "deleted")
    /\ timer' = (timer \/ runningExecs[Current] = 0)
    /\ UNCHANGED <<life, home, mapVars, execVars, loopVars, scaledDown,
                   checkpointed, down, histVars>>

-----------------------------------------------------------------------------
(* Processes exit, are checkpointed and restored. *)

Reaped(p) == exitChan' = Append(exitChan, p)

Dies(p) ==
    /\ life[p] = "alive"
    /\ life' = [life EXCEPT ![p] = "dead"]
    /\ Reaped(p)
    /\ UNCHANGED <<call, home, mapVars, execVars, ec, wrapperExit, serviceExit,
                   downVars, histVars>>

\* The callback of the timer registers the pid before it dumps.  It holds
\* CheckpointRestore, which a restore has until postRestore is over.
TimerFires ==
    /\ timer
    /\ down = "idle"
    /\ ~scaledDown
    /\ \A c \in Inits : call[c] # "restored"
    /\ timer' = FALSE
    /\ down' = "dump"
    /\ checkpointed' = checkpointed \cup {Current}
    /\ UNCHANGED <<callVars, mapVars, execVars, loopVars, scaledDown, histVars>>

\* The dump kills the init process, and with it those of all sessions.  So does
\* kill, which succeeds for a process that has exited too.
Dump ==
    LET killed == {p \in Procs : life[p] = "alive"} IN
    /\ down = "dump"
    /\ life[Current] = "alive" \/ "kill" \in Faults
    /\ life' = [p \in Procs |-> IF p \in killed THEN "dead" ELSE life[p]]
    /\ \E order \in [1..Cardinality(killed) -> killed] :
          /\ \A p \in killed : \E k \in DOMAIN order : order[k] = p
          /\ exitChan' = exitChan \o order
    /\ down' = "phase"
    /\ UNCHANGED <<call, home, mapVars, execVars, ec, wrapperExit, serviceExit,
                   scaledDown, checkpointed, timer, histVars>>

\* resetOnErr; kill has no such thing.  scaleDownCheck starts the timer again.
DumpFails ==
    /\ down = "dump"
    /\ life[Current] # "alive" \/ Faults \cap {"dump", "kill"} # {}
    /\ down' = "idle"
    /\ checkpointed' \in {checkpointed \ {Current}}
          \cup (IF "kill" \in Faults THEN {checkpointed} ELSE {})
    /\ timer' = TRUE
    /\ UNCHANGED <<callVars, mapVars, execVars, loopVars, scaledDown, histVars>>

ScaledDown ==
    /\ down = "phase"
    /\ down' = "idle"
    /\ scaledDown' = TRUE
    /\ UNCHANGED <<callVars, mapVars, execVars, loopVars, checkpointed, timer,
                   histVars>>

\* A restore: preRestore gives its subscription up before the process starts.
Restored ==
    LET c == containers + 1 IN
    /\ scaledDown
    /\ c \in Inits
    /\ Goto(c, "none", "restored")
    /\ life' = [life EXCEPT ![c] = "alive"]
    /\ scaledDown' = FALSE
    /\ UNCHANGED <<home, mapVars, execVars, loopVars, checkpointed, timer,
                   down, histVars>>

\* postRestore: the new runc.Container takes the place of the old one.  The
\* restore of a connection then schedules the next scale down.
PostRestore(c) ==
    /\ Goto(c, "restored", "up")
    /\ containers' = c
    /\ running' = running \cup {c}
    /\ timer' \in {timer, TRUE}
    /\ UNCHANGED <<life, home, early, execVars, loopVars, scaledDown,
                   checkpointed, down, histVars>>

-----------------------------------------------------------------------------
(* wrapper.processExits and service.processExits. *)

\* The wrapper looks the process up.
WrapperTakes ==
    /\ wrapperExit = NoExit
    /\ exitChan # <<>>
    /\ wrapperExit' = [p |-> Head(exitChan), known |-> Head(exitChan) \in running]
    /\ exitChan' = Tail(exitChan)
    /\ UNCHANGED <<callVars, mapVars, execVars, ec, serviceExit, downVars,
                   histVars>>

Container(p) == IF p \in Execs THEN home[p] ELSE p

\* preventExit: the container is scaled down, or a dump has killed p.
Prevented(p) == scaledDown \/ p \in checkpointed

\* A prevented exit: the process and the counters of its runc.Container go.
PreventExit ==
    LET p == wrapperExit.p  c == Container(p) IN
    /\ wrapperExit # NoExit
    /\ wrapperExit.known /\ Prevented(p)
    /\ checkpointed' = IF scaledDown THEN checkpointed ELSE checkpointed \ {p}
    /\ running' = running \ {p}
    /\ subscribers' = [subscribers EXCEPT ![c] = NoChan]
    /\ runningExecs' = [runningExecs EXCEPT ![c] = 0]
    /\ swallowed' = swallowed \cup {p}
    /\ wrapperExit' = NoExit
    /\ UNCHANGED <<callVars, containers, early, initExit, waiters, exitChan,
                   ec, serviceExit, scaledDown, timer, down, started,
                   published>>

PassOn ==
    /\ wrapperExit # NoExit
    /\ ~(wrapperExit.known /\ Prevented(wrapperExit.p))
    /\ ec' = Append(ec, wrapperExit.p)
    /\ wrapperExit' = NoExit
    /\ UNCHANGED <<callVars, mapVars, execVars, exitChan, serviceExit,
                   downVars, histVars>>

\* The service tells the calls that are starting a process, and takes the
\* process out of running; no session starts after an exit of the init process.
ServiceTakes ==
    LET p == Head(ec) IN
    /\ serviceExit = NoExit
    /\ ec # <<>>
    /\ ec' = Tail(ec)
    /\ early' = IF Subscribed(p) THEN early \cup {p} ELSE early
    /\ running' = running \ {p}
    /\ initExit' = IF p \in running \cap Inits THEN [initExit EXCEPT ![p] = TRUE]
                   ELSE initExit
    /\ serviceExit' = IF p \in running THEN [p |-> p, step |-> "handle"]
                      ELSE NoExit
    /\ UNCHANGED <<callVars, containers, runningExecs, subscribers, waiters,
                   exitChan, wrapperExit, downVars, histVars>>

Handling(p, step) ==
    /\ serviceExit # NoExit
    /\ serviceExit.p = p
    /\ serviceExit.step = step

HandleInitExit_DoesNotWait(c) ==
    /\ Handling(c, "handle")
    /\ Publish(c)
    /\ serviceExit' = NoExit
    /\ UNCHANGED <<callVars, mapVars, execVars, exitChan, ec, wrapperExit,
                   downVars, started, swallowed>>

\* handleInitExit kills the sessions.  When some are counted, a goroutine waits
\* for the last one to be counted down; the channel has a place for each.
HandleInitExit(c) ==
    LET sessions == {e \in Execs : home[e] = c /\ life[e] = "alive"} IN
    /\ Handling(c, "handle")
    /\ serviceExit' = NoExit
    /\ life' = [p \in Procs |-> IF p \in sessions THEN "dead" ELSE life[p]]
    /\ \E order \in [1..Cardinality(sessions) -> sessions] :
          /\ \A e \in sessions : \E k \in DOMAIN order : order[k] = e
          /\ exitChan' = exitChan \o order
    /\ IF runningExecs[c] = 0
         THEN Publish(c) /\ UNCHANGED <<subscribers, waiters>>
         ELSE /\ subscribers' = [subscribers EXCEPT
                     ![c] = [buf |-> <<>>, cap |-> runningExecs[c]]]
              /\ waiters' = waiters \cup {c}
              /\ UNCHANGED published
    /\ UNCHANGED <<call, home, mapVars, runningExecs, initExit, ec,
                   wrapperExit, downVars, started, swallowed>>

\* handleProcessExit of a session: published first, counted after it.
HandleProcessExit(e) ==
    \/ /\ Handling(e, "handle")
       /\ Publish(e)
       /\ serviceExit' = [serviceExit EXCEPT !.step = "count"]
       /\ UNCHANGED <<callVars, mapVars, execVars, exitChan, ec, wrapperExit,
                      downVars, started, swallowed>>
    \/ /\ Handling(e, "count")
       /\ CountDown(home[e])
       /\ serviceExit' = NoExit
       /\ UNCHANGED <<callVars, mapVars, initExit, waiters, exitChan, ec,
                      wrapperExit, downVars, histVars>>

\* The goroutine that waits receives a count; at zero it publishes the exit of
\* the init process and removes the entries of the container.
Waiter(c) ==
    /\ c \in waiters
    /\ subscribers[c] # NoChan
    /\ subscribers[c].buf # <<>>
    /\ IF Head(subscribers[c].buf) = 0
         THEN /\ Publish(c)
              /\ waiters' = waiters \ {c}
              /\ subscribers' = [subscribers EXCEPT ![c] = NoChan]
              /\ runningExecs' = [runningExecs EXCEPT ![c] = 0]
         ELSE /\ subscribers' = [subscribers EXCEPT ![c].buf = Tail(@)]
              /\ UNCHANGED <<published, waiters, runningExecs>>
    /\ UNCHANGED <<callVars, mapVars, initExit, loopVars, downVars, started,
                   swallowed>>

-----------------------------------------------------------------------------
(* The specification. *)

Init ==
    /\ call = [p \in Procs |-> "none"]
    /\ life = [p \in Procs |-> "none"]
    /\ home = [e \in Execs |-> 0]
    /\ containers = 0
    /\ running = {}
    /\ early = {}
    /\ runningExecs = [c \in Inits |-> 0]
    /\ subscribers = [c \in Inits |-> NoChan]
    /\ initExit = [c \in Inits |-> FALSE]
    /\ exitChan = <<>>
    /\ ec = <<>>
    /\ wrapperExit = NoExit
    /\ serviceExit = NoExit
    /\ waiters = {}
    /\ scaledDown = FALSE
    /\ checkpointed = {}
    /\ timer = FALSE
    /\ down = "idle"
    /\ started = {}
    /\ published = [p \in Procs |-> 0]
    /\ swallowed = {}

CallStep(p) ==
    \/ p = 0 /\ (Created \/ StartInit \/ InitFails)
    \/ p \in Execs /\ (\/ ExecAdded(p) \/ StartExec(p) \/ StartRefused(p)
                      \/ ExecFails(p) \/ StartedCounts(p))
    \/ p \in Inits /\ PostRestore(p)
    \/ ProcessStarts(p)
    \/ Started(p)

WrapperStep == WrapperTakes \/ PreventExit \/ PassOn

ServiceStep ==
    \/ ServiceTakes
    \/ \E c \in Inits : HandleInitExit(c)
    \/ \E e \in Execs : HandleProcessExit(e)

Next ==
    \/ Create
    \/ \E e \in Execs : Exec(e) \/ Delete(e)
    \/ \E p \in Procs : CallStep(p) \/ Dies(p)
    \/ TimerFires \/ Dump \/ DumpFails \/ ScaledDown \/ Restored
    \/ WrapperStep
    \/ ServiceStep
    \/ \E c \in Inits : Waiter(c)

Spec == Init /\ [][Next]_vars

\* The goroutines run; nothing is assumed of processes, clients and timer.
FairSpec ==
    /\ Spec
    /\ \A p \in Procs : WF_vars(CallStep(p))
    /\ WF_vars(WrapperStep)
    /\ WF_vars(ServiceStep)
    /\ \A c \in Inits : WF_vars(Waiter(c))
    /\ WF_vars(Dump \/ DumpFails \/ ScaledDown)

-----------------------------------------------------------------------------
(* Properties. *)

\* Every variable has its type, and a process is in running only between
\* handleStarted and the handling of its exit.
TypeOK ==
    /\ call \in [Procs -> CallLabels]
    /\ life \in [Procs -> {"none", "alive", "dead"}]
    /\ home \in [Execs -> Inits]
    /\ containers \in Inits
    /\ running \in SUBSET Procs
    /\ early \in SUBSET Procs
    /\ runningExecs \in [Inits -> Int]
    /\ \A c \in Inits :
          subscribers[c] # NoChan =>
              subscribers[c].buf \in Seq(Int) /\ subscribers[c].cap \in Nat
    /\ initExit \in [Inits -> BOOLEAN]
    /\ exitChan \in Seq(Procs)
    /\ ec \in Seq(Procs)
    /\ waiters \in SUBSET Inits
    /\ scaledDown \in BOOLEAN
    /\ checkpointed \in SUBSET Inits
    /\ timer \in BOOLEAN
    /\ down \in {"idle", "dump", "phase"}
    /\ started \in SUBSET Procs
    /\ published \in [Procs -> 0..2]
    /\ swallowed \in SUBSET Procs
    /\ \A p \in early : Subscribed(p)

\* Exits are published in order: each once, although a Start that waits for
\* early exits and processExits may both come to handle it, and after the start
\* of the same process; and, what handleInitExit promises, for a given
\* container the exit of the init process last.
ExitOrder ==
    /\ TypeOK
    /\ \A p \in Procs : published[p] <= 1
    /\ \A e \in Execs : published[e] = 1 => e \in started
    /\ \A c \in Inits, e \in Execs :
          (published[c] = 1 /\ home[e] = c /\ e \in started) =>
              published[e] = 1 \/ e \in swallowed

\* The sends on the channel of handleInitExit, made with lifecycleMu held, find
\* room: its capacity is the number of sessions counted when it was made.
Room ==
    \A c \in Inits :
        subscribers[c] # NoChan =>
            /\ subscribers[c].cap > 0
            /\ Len(subscribers[c].buf) <= subscribers[c].cap

\* runningExecs is the number of the sessions between their Start and the
\* counting of their exit, unless the wrapper dropped the counter.
CountExact ==
    \A c \in Inits :
        ({c} \cup {e \in Execs : home[e] = c}) \cap swallowed = {} =>
            runningExecs[c] = Cardinality(
                {e \in Execs : home[e] = c /\
                    \/ call[e] \in {"start", "unknown", "sent", "count"}
                    \/ /\ call[e] \in {"up", "deleted"} /\ e \in started
                       /\ published[e] = 0 \/ Handling(e, "count")})

\* Delete schedules no scale down while another session is running.
SessionsKeepAwake ==
    [][\A e \in Execs :
          (call[e] \in {"up", "failed"} /\ call'[e] = "deleted" /\ ~timer
             /\ timer') =>
              \A f \in Execs \ {e} :
                  ~(call[f] = "up" /\ life[f] = "alive" /\ home[f] = Current
                      /\ life[Current] = "alive")]_vars

\* The processes that have exited after their start was published and whose
\* exit is neither published nor kept back.
Unreported ==
    {p \in started : life[p] = "dead" /\ published[p] = 0 /\ p \notin swallowed}

\* Every exit is published in the end, except those that the wrapper keeps
\* back; the one of a restored process when postRestore came before its exit
\* is handled.
ExitPublished ==
    /\ (Unreported # {}) ~> (Unreported = {})
    /\ \A c \in Inits \ {0} :
          (c \in running /\ \E k \in DOMAIN exitChan : exitChan[k] = c) ~>
              (published[c] = 1 \/ c \in swallowed)
=============================================================================
