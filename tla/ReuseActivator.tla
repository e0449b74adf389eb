--------------------------- MODULE ReuseActivator ---------------------------
(***************************************************************************)
(* The SO_REUSEPORT activator (activator/reuse): per listening port of the *)
(* application a reuseport group whose eBPF program sends a connection to  *)
(* the app, the probe or the wake listener; the goroutines that poll the   *)
(* wake listeners; wake, registerListeners and ForwardToTarget; and Reset, *)
(* called by the scale-down callback before it dumps the application.      *)
(*                                                                         *)
(* The container is reduced to what the activator sees of it: the phase,   *)
(* the CheckpointRestore mutex, and whether the application listens.  The  *)
(* kernel moves the pending connections of a listener that closes to the   *)
(* listener the program then selects.                                      *)
(***************************************************************************)
EXTENDS Naturals, FiniteSets

CONSTANTS
    Keys,       \* listenerKey: the ports of the application
    Conns,      \* connections
    MayProbe,   \* those that may come from the address of the kubelet
    Watchers,   \* bound: goroutines of watchWake at the same time
    Faults,     \* the operations that may fail
    Prompt,     \* TRUE: a wake-up that can run ends before the next Reset
    Timer,      \* the goroutine of the scale-down timer
    NoThread    \* nobody: a free mutex, a slot without a listener

FaultNames == {"capacity", "restore", "slow", "register", "listen", "dump"}

ASSUME ConnsAssumption ==
    /\ Keys # {}
    /\ MayProbe \subseteq Conns

ASSUME WatchersAssumption ==
    /\ NoThread \notin Watchers \cup {Timer}
    /\ Timer \notin Watchers
    /\ IsFiniteSet(Watchers)
    /\ IsFiniteSet(Keys)
    /\ Cardinality(Keys) <= Cardinality(Watchers)

ASSUME SwitchesAssumption ==
    /\ Faults \subseteq FaultNames
    /\ Prompt \in BOOLEAN

VARIABLES
    group,          \* Activator.listeners with the sockets of its eBPF maps
    register,       \* holder of Activator.register
    registeredWake, \* Activator.registeredWake
    pc,             \* where each watchWake goroutine is
    found,          \* the pid its restore hook has returned is still alive
    down,           \* where the scale-down callback is
    todo,           \* keys that Reset has still to listen on
    timer,          \* scaleDownTimer is pending
    lock,           \* holder of Container.CheckpointRestore
    scaledDown,     \* Container.scaledDown
    noCheckpoint,   \* cfg.DisableCheckpointing
    listening,      \* the application's sockets are open
    at,             \* where each connection is
    dst,            \* the port it was made to
    kubelet,        \* the connections that come from the kubelet
    upset           \* history: what happened that may cost a connection

actVars  == <<group, register, registeredWake>>
wakeVars == <<pc, found>>
downVars == <<down, todo, timer>>
contVars == <<lock, scaledDown, noCheckpoint, listening>>
connVars == <<at, dst, kubelet>>
vars == <<actVars, wakeVars, downVars, contVars, connVars, upset>>

WakeLabels == {"idle", "poll", "hook", "restoring", "forward", "register",
               "find", "close", "closeWake"}
DownLabels == {"idle", "reset", "resetting", "lock", "dump"}
Places == {"new", "app", "wake", "probe", "served", "answered", "refused"}
Upsets == {"leak", "blind", "register", "denied", "listen"}

\* A listenerGroup: what slot 0 of its map holds, the watcher of the listener
\* in slot 1, whether slot 2 is set, whether a forwarder listens, and whether
\* select_or_migrate is attached to the sockets of the port.
Groups == [app : {"none", "app", "fwd"}, wake : Watchers \cup {NoThread},
           probe : BOOLEAN, fwd : BOOLEAN, prog : BOOLEAN]

May(f) == f \in Faults

Free(w) == pc[w] = "idle" /\ \A k \in Keys : group[k].wake # w

\* Activator.mu is only kept from one step to the next by Reset.
MuFree == down # "resetting"

-----------------------------------------------------------------------------
(* The reuseport group of a port. *)

\* select_or_migrate: the app listener first, then for the kubelet the probe
\* listener, then the wake listener, else the connection is dropped.
SelectOrMigrate(c, g) ==
    IF g.app = "app" THEN "app"
    ELSE IF g.app = "fwd" THEN "served"
    ELSE IF c \in kubelet /\ g.probe THEN "probe"
    ELSE IF g.wake # NoThread THEN "wake"
    ELSE "refused"

\* Without the program the kernel only finds the application's socket.
Select(c, g) ==
    IF g.prog THEN SelectOrMigrate(c, g)
    ELSE IF listening THEN "app" ELSE "refused"

\* The program goes with the last socket of the port.
Settle(g, open) ==
    [g EXCEPT !.prog = /\ g.prog
                       /\ open \/ g.wake # NoThread \/ g.probe \/ g.fwd]

\* The groups become gs and the application's sockets are open or not; the
\* connections that wait at a listener that is gone are moved.
Regroup(gs, open) ==
    LET closed(c) ==
            LET g == group[dst[c]]  h == gs[dst[c]] IN
            \/ at[c] = "wake" /\ h.wake # g.wake
            \/ at[c] = "probe" /\ g.probe /\ ~h.probe
            \/ at[c] = "app" /\ listening /\ ~open
    IN /\ group' = [k \in Keys |-> Settle(gs[k], open)]
       /\ at' = [c \in Conns |->
                    IF closed(c) THEN SelectOrMigrate(c, gs[dst[c]])
                    ELSE at[c]]

\* closeListener of every wake listener and, when probes is set, of every
\* probe listener.
Closed(probes) ==
    [k \in Keys |-> [group[k] EXCEPT !.wake = NoThread,
                                     !.probe = @ /\ ~probes]]

\* The stop event of a closed wake listener ends the goroutine that polls it;
\* so does the end of wake for the goroutine w itself.
StopPolling(w) ==
    pc' = [v \in Watchers |->
              IF v = w \/ pc[v] = "poll" THEN "idle" ELSE pc[v]]

-----------------------------------------------------------------------------
(* Connections and the application. *)

Connect(c, k) ==
    /\ at[c] = "new"
    /\ at' = [at EXCEPT ![c] = Select(c, group[k])]
    /\ dst' = [dst EXCEPT ![c] = k]
    /\ UNCHANGED <<actVars, wakeVars, downVars, contVars, kubelet, upset>>

AppAccepts(c) ==
    /\ at[c] = "app"
    /\ listening
    /\ at' = [at EXCEPT ![c] = "served"]
    /\ UNCHANGED <<actVars, wakeVars, downVars, contVars, dst, kubelet, upset>>

\* The goroutine of attachProbe accepts, and handleProbe answers.
HandleProbe(c) ==
    /\ at[c] = "probe"
    /\ at' = [at EXCEPT ![c] = "answered"]
    /\ UNCHANGED <<actVars, wakeVars, downVars, contVars, dst, kubelet, upset>>

\* A process that was started anew and was slow opens its ports at last.
AppListens ==
    /\ ~scaledDown
    /\ ~listening
    /\ listening' = TRUE
    /\ UNCHANGED <<actVars, wakeVars, downVars, lock, scaledDown,
                   noCheckpoint, connVars, upset>>

-----------------------------------------------------------------------------
(* watchWake and wake: the goroutine w of a wake listener. *)

PollReturns_Accepts(w) ==
    LET pending == {c \in Conns : at[c] = "wake" /\ group[dst[c]].wake = w}
    IN /\ pc[w] = "poll"
       /\ pending # {}
       /\ \E c \in pending : at' = [at EXCEPT ![c] = "served"]
       /\ pc' = [pc EXCEPT ![w] = "hook"]
       /\ UNCHANGED <<actVars, found, downVars, contVars, dst, kubelet, upset>>

\* epoll reports the listener: it has a pending connection.  The goroutine
\* leaves the poll and calls the restore hook.
PollReturns(w) ==
    LET pending == {c \in Conns : at[c] = "wake" /\ group[dst[c]].wake = w}
    IN /\ pc[w] = "poll"
       /\ pending # {}
       /\ pc' = [pc EXCEPT ![w] = "hook"]
       /\ UNCHANGED <<actVars, found, downVars, contVars, connVars, upset>>

\* Restore finds the container running: the hook returns its pid.
AlreadyRestored(w) ==
    /\ pc[w] = "hook"
    /\ lock = NoThread
    /\ ~scaledDown
    /\ pc' = [pc EXCEPT ![w] = "register"]
    /\ found' = [found EXCEPT ![w] = TRUE]
    /\ UNCHANGED <<actVars, downVars, contVars, connVars, upset>>

RestoreLock(w) ==
    /\ pc[w] = "hook"
    /\ lock = NoThread
    /\ scaledDown
    /\ lock' = w
    /\ pc' = [pc EXCEPT ![w] = "restoring"]
    /\ UNCHANGED <<actVars, found, downVars, scaledDown, noCheckpoint,
                   listening, connVars, upset>>

\* The container is restored and its next scale-down scheduled.  A restored
\* process has its sockets; one that is started anew, after a failed restore
\* or without checkpointing, is awaited and may still be too slow.
Restored(w) ==
    /\ pc[w] = "restoring"
    /\ \/ UNCHANGED noCheckpoint
       \/ May("restore") /\ noCheckpoint' = TRUE
    /\ \/ listening' = TRUE
       \/ May("slow") /\ noCheckpoint' /\ listening' = FALSE
    /\ scaledDown' = FALSE
    /\ lock' = NoThread
    /\ timer' = TRUE
    /\ pc' = [pc EXCEPT ![w] = "register"]
    /\ found' = [found EXCEPT ![w] = TRUE]
    /\ UNCHANGED <<actVars, down, todo, connVars, upset>>

\* The node has no capacity: the pod is evicted, and the traffic is to be
\* forwarded when the address of its replacement is known.
CapacityDenied(w) ==
    /\ pc[w] = "restoring"
    /\ May("capacity")
    /\ \/ /\ pc' = [pc EXCEPT ![w] = "forward"]
          /\ UNCHANGED <<lock, upset>>
       \/ /\ pc' = [pc EXCEPT ![w] = "closeWake"]
          /\ lock' = NoThread
          /\ upset' = upset \cup {"denied"}
    /\ UNCHANGED <<actVars, found, downVars, scaledDown, noCheckpoint,
                   listening, connVars>>

\* Under mu, a forwarder takes the app slot of every group.  A forwarder that
\* cannot listen fails the restore, which ends the container and with it what is
\* modelled here.
ForwardToTarget(w) ==
    /\ pc[w] = "forward"
    /\ MuFree
    /\ Regroup([k \in Keys |-> [group[k] EXCEPT !.app = "fwd", !.fwd = TRUE,
                                                !.prog = TRUE]], listening)
    /\ lock' = NoThread
    /\ pc' = [pc EXCEPT ![w] = "closeWake"]
    /\ UNCHANGED <<register, registeredWake, found, downVars,
                   scaledDown, noCheckpoint, listening, dst, kubelet, upset>>

\* The register mutex is taken; it is not given back by a wake-up that finds
\* the listeners registered already.
LockRegister(w) ==
    /\ pc[w] = "register"
    /\ register = NoThread
    /\ register' = w
    /\ IF registeredWake
         THEN /\ pc' = [pc EXCEPT ![w] = "close"]
              /\ upset' = upset \cup {"leak"}
         ELSE /\ pc' = [pc EXCEPT ![w] = "find"]
              /\ UNCHANGED upset
    /\ UNCHANGED <<group, registeredWake, found, downVars, contVars,
                   connVars>>

RegisterListeners_KeepsForwarder(w) ==
    /\ pc[w] = "find"
    /\ MuFree
    /\ found[w] /\ listening
    /\ Regroup([k \in Keys |->
                    [group[k] EXCEPT !.app = IF @ = "fwd" THEN @ ELSE "app",
                                     !.prog = TRUE]], listening)
    /\ registeredWake' = TRUE
    /\ register' = NoThread
    /\ pc' = [pc EXCEPT ![w] = "close"]
    /\ UNCHANGED <<found, downVars, contVars, dst, kubelet, upset>>

\* The sockets of the pid are put into the app slots.
RegisterListeners(w) ==
    /\ pc[w] = "find"
    /\ MuFree
    /\ found[w] /\ listening
    /\ Regroup([k \in Keys |-> [group[k] EXCEPT !.app = "app", !.prog = TRUE]],
               listening)
    /\ registeredWake' = TRUE
    /\ register' = NoThread
    /\ pc' = [pc EXCEPT ![w] = "close"]
    /\ UNCHANGED <<found, downVars, contVars, dst, kubelet, upset>>

\* The listening sockets of the network namespace, without the wake listeners:
\* those of the activator count although none of them is the application's.
OwnListeners ==
    Cardinality({k \in Keys : group[k].probe}) +
    Cardinality({k \in Keys : group[k].fwd})

\* The application does not listen yet, but the activator's own listeners are
\* as many as the ports: nothing is registered, without an error.
RegisterNothing(w) ==
    /\ pc[w] = "find"
    /\ MuFree
    /\ found[w] /\ ~listening
    /\ OwnListeners >= Cardinality(Keys)
    /\ registeredWake' = TRUE
    /\ register' = NoThread
    /\ pc' = [pc EXCEPT ![w] = "close"]
    /\ upset' = upset \cup {"blind"}
    /\ UNCHANGED <<group, found, downVars, contVars, connVars>>

\* The pid is gone, too few sockets were found, or an eBPF map or a socket
\* call fails: wake returns, the goroutine ends, and the listener that it
\* polled stays open.
RegisterFails(w) ==
    /\ pc[w] = "find"
    /\ MuFree
    /\ \/ ~found[w]
       \/ ~listening /\ OwnListeners < Cardinality(Keys)
       \/ May("register")
    /\ register' = NoThread
    /\ pc' = [pc EXCEPT ![w] = "idle"]
    /\ upset' = upset \cup {"register"}
    /\ UNCHANGED <<group, registeredWake, found, downVars, contVars,
                   connVars>>

\* The calls fail after some ports have got their socket.
RegisterPartly(w) ==
    /\ pc[w] = "find"
    /\ MuFree
    /\ found[w] /\ listening
    /\ May("register")
    /\ \E K \in (SUBSET Keys) \ {{}, Keys} :
          Regroup([k \in Keys |-> IF k \in K
                                  THEN [group[k] EXCEPT !.app = "app", !.prog = TRUE]
                                  ELSE group[k]], listening)
    /\ register' = NoThread
    /\ pc' = [pc EXCEPT ![w] = "idle"]
    /\ upset' = upset \cup {"register"}
    /\ UNCHANGED <<registeredWake, found, downVars, contVars, dst, kubelet>>

CloseListeners_LeavesOpen(w) ==
    /\ pc[w] \in {"close", "closeWake"}
    /\ MuFree
    /\ pc' = [pc EXCEPT ![w] = "idle"]
    /\ UNCHANGED <<actVars, found, downVars, contVars, connVars, upset>>

\* The end of wake: under mu the wake listeners are closed, the probe listeners
\* too when the container runs, and each port is poked for the kernel to move
\* what was pending.
CloseListeners(w) ==
    /\ pc[w] \in {"close", "closeWake"}
    /\ MuFree
    /\ Regroup(Closed(pc[w] = "close"), listening)
    /\ StopPolling(w)
    /\ UNCHANGED <<register, registeredWake, found, downVars, contVars,
                   dst, kubelet, upset>>

-----------------------------------------------------------------------------
(* scaleDown: the callback of the scale-down timer. *)

TimerFires_NoReset ==
    /\ timer
    /\ down = "idle"
    /\ timer' = FALSE
    /\ down' = IF scaledDown THEN "idle" ELSE "lock"
    /\ UNCHANGED <<actVars, wakeVars, todo, contVars, connVars, upset>>

\* The timer fires: a container that is scaled down is left alone.
TimerFires ==
    /\ timer
    /\ down = "idle"
    /\ timer' = FALSE
    /\ down' = IF scaledDown THEN "idle" ELSE "reset"
    /\ UNCHANGED <<actVars, wakeVars, todo, contVars, connVars, upset>>

\* A goroutine inside wake that does not wait for a mutex nobody gives back.
Runnable(w) ==
    \/ pc[w] \notin {"idle", "poll", "register"}
    \/ pc[w] = "register" /\ register = NoThread

\* Reset takes mu and closes the wake and the probe listeners.  The bound on
\* the goroutines leaves enough of them for the new wake listeners.
ResetCloses ==
    /\ down = "reset"
    /\ Prompt => \A w \in Watchers : ~Runnable(w)
    /\ Cardinality({w \in Watchers : pc[w] \in {"idle", "poll"}})
         >= Cardinality(Keys)
    /\ down' = "resetting"
    /\ todo' = Keys
    /\ registeredWake' = FALSE
    /\ Regroup(Closed(TRUE), listening)
    /\ StopPolling(NoThread)
    /\ UNCHANGED <<register, found, timer, contVars, dst, kubelet,
                   upset>>

\* listenWake, listenProbe and attachWake of the next key: the wake listener
\* is in its slot and polled, the probe listener not yet in its own.
AttachWake(k) ==
    LET w == CHOOSE v \in Watchers : Free(v) IN
    /\ down = "resetting"
    /\ k \in todo
    /\ \A j \in todo : group[j].wake = NoThread
    /\ group' = [group EXCEPT ![k].wake = w, ![k].prog = TRUE]
    /\ pc' = [pc EXCEPT ![w] = "poll"]
    /\ found' = [found EXCEPT ![w] = FALSE]
    /\ UNCHANGED <<register, registeredWake, downVars, contVars, connVars,
                   upset>>

\* attachProbe; after the last key Reset returns and gives mu back.
AttachProbe(k) ==
    /\ down = "resetting"
    /\ k \in todo
    /\ group[k].wake # NoThread
    /\ group' = [group EXCEPT ![k].probe = TRUE]
    /\ todo' = todo \ {k}
    /\ down' = IF todo = {k} THEN "lock" ELSE down
    /\ UNCHANGED <<register, registeredWake, wakeVars, timer, contVars,
                   connVars, upset>>

\* The callback turns checkpointing off after an error and tries again later.
ScaleDownFailed ==
    /\ down' = "idle"
    /\ noCheckpoint' = TRUE
    /\ timer' = TRUE

\* A listener cannot be opened or attached: Reset and scaleDown return.
ResetFails ==
    /\ down = "resetting"
    /\ May("listen")
    /\ ScaleDownFailed
    /\ todo' = {}
    /\ upset' = upset \cup {"listen"}
    /\ UNCHANGED <<actVars, wakeVars, lock, scaledDown, listening, connVars>>

CheckpointLock ==
    /\ down = "lock"
    /\ lock = NoThread
    /\ lock' = Timer
    /\ down' = "dump"
    /\ UNCHANGED <<actVars, wakeVars, todo, timer, scaledDown, noCheckpoint,
                   listening, connVars, upset>>

\* The application was dumped, or killed when checkpointing is disabled: its
\* sockets are closed and leave their slots, its pid is gone.
Dumped ==
    /\ down = "dump"
    /\ Regroup([k \in Keys |->
                    [group[k] EXCEPT !.app = IF @ = "app" THEN "none" ELSE @]],
               FALSE)
    /\ listening' = FALSE
    /\ scaledDown' = TRUE
    /\ found' = [w \in Watchers |-> FALSE]
    /\ lock' = NoThread
    /\ down' = "idle"
    /\ UNCHANGED <<register, registeredWake, pc, todo, timer,
                   noCheckpoint, dst, kubelet, upset>>

DumpFails ==
    /\ down = "dump"
    /\ May("dump")
    /\ ScaleDownFailed
    /\ lock' = NoThread
    /\ UNCHANGED <<actVars, wakeVars, todo, scaledDown, listening, connVars,
                   upset>>

-----------------------------------------------------------------------------
(* The specification. *)

\* Start has returned: the sockets of the running application are registered,
\* or, for a container created with skipStart, Reset has set up its listeners.
Init ==
    /\ scaledDown \in BOOLEAN
    /\ listening = ~scaledDown
    /\ timer = ~scaledDown
    /\ \E watch \in [Keys -> Watchers] :
          /\ \A j, k \in Keys : j # k => watch[j] # watch[k]
          /\ group = [k \in Keys |->
                [app   |-> IF scaledDown THEN "none" ELSE "app",
                 wake  |-> IF scaledDown THEN watch[k] ELSE NoThread,
                 probe |-> scaledDown,
                 fwd   |-> FALSE,
                 prog  |-> TRUE]]
          /\ pc = [w \in Watchers |->
                IF scaledDown /\ \E k \in Keys : watch[k] = w
                THEN "poll" ELSE "idle"]
    /\ register = NoThread
    /\ registeredWake = FALSE
    /\ found = [w \in Watchers |-> FALSE]
    /\ down = "idle"
    /\ todo = {}
    /\ lock = NoThread
    /\ noCheckpoint = FALSE
    /\ at = [c \in Conns |-> "new"]
    /\ dst = [c \in Conns |-> CHOOSE k \in Keys : TRUE]
    /\ kubelet \in SUBSET MayProbe
    /\ upset = {}

WakeStep(w) ==
    \/ PollReturns(w)
    \/ AlreadyRestored(w)
    \/ RestoreLock(w)
    \/ Restored(w)
    \/ CapacityDenied(w)
    \/ ForwardToTarget(w)
    \/ LockRegister(w)
    \/ RegisterListeners(w)
    \/ RegisterNothing(w)
    \/ RegisterFails(w)
    \/ RegisterPartly(w)
    \/ CloseListeners(w)

DownStep ==
    \/ ResetCloses
    \/ \E k \in Keys : AttachWake(k) \/ AttachProbe(k)
    \/ ResetFails
    \/ CheckpointLock
    \/ Dumped
    \/ DumpFails

Next ==
    \/ \E c \in Conns :
          \/ \E k \in Keys : Connect(c, k)
          \/ AppAccepts(c)
          \/ HandleProbe(c)
    \/ AppListens
    \/ \E w \in Watchers : WakeStep(w)
    \/ TimerFires
    \/ DownStep

Spec == Init /\ [][Next]_vars

\* Goroutines run; one that waits for a mutex gets it when it is given back
\* again and again.  Nothing is assumed of clients, application and timer.
FairSpec ==
    /\ Spec
    /\ \A w \in Watchers : SF_vars(WakeStep(w))
    /\ SF_vars(DownStep)

-----------------------------------------------------------------------------
(* Properties. *)

\* Every variable has its type (the fields of Activator, listenerGroup and
\* wakeListener), and CheckpointRestore is held by exactly the goroutine that
\* is inside Restore or inside checkpoint.
TypeOK ==
    /\ group \in [Keys -> Groups]
    /\ register \in Watchers \cup {NoThread}
    /\ registeredWake \in BOOLEAN
    /\ pc \in [Watchers -> WakeLabels]
    /\ found \in [Watchers -> BOOLEAN]
    /\ down \in DownLabels
    /\ todo \in SUBSET Keys
    /\ timer \in BOOLEAN
    /\ lock \in Watchers \cup {Timer, NoThread}
    /\ scaledDown \in BOOLEAN
    /\ noCheckpoint \in BOOLEAN
    /\ listening \in BOOLEAN
    /\ at \in [Conns -> Places]
    /\ dst \in [Conns -> Keys]
    /\ kubelet \in SUBSET MayProbe
    /\ upset \in SUBSET Upsets
    /\ lock = Timer <=> down = "dump"
    /\ \A w \in Watchers : lock = w <=> pc[w] \in {"restoring", "forward"}

\* Nobody is inside wake or scaleDown, except for goroutines that wait for a
\* register mutex that was never given back.
Quiet == down = "idle" /\ \A w \in Watchers : ~Runnable(w)

\* When Reset, the dump and the wake-ups are over, every port of a container
\* that is scaled down has a wake listener that a goroutine polls, or a
\* forwarder; a Reset that failed before does not change that.
Wakeable ==
    (scaledDown /\ Quiet /\ upset \subseteq {"listen"}) =>
        \A k \in Keys :
            \/ group[k].app = "fwd"
            \/ group[k].wake # NoThread /\ pc[group[k].wake] = "poll"

\* When the wake-ups are over, the sockets of a running container are in the
\* app slots: the connections that follow are not handled by the activator.
Direct ==
    /\ TypeOK
    /\ (~scaledDown /\ Quiet /\ upset = {}) =>
          \A k \in Keys : group[k].app = "app"

\* A connection that waits at a wake listener reaches the application or the
\* forwarder: no two of the mutexes mu, register and CheckpointRestore, taken
\* in different orders by wake, Reset and ForwardToTarget, block each other.
Woken ==
    LET waiting == {c \in Conns \ kubelet : at[c] = "wake"}
    IN  waiting # {} ~> (waiting = {} \/ upset # {})

\* What the architecture document says of the migration of the pending
\* connections: to the client it is completely transparent.
AlwaysTransparent == \A c \in Conns : at[c] # "refused"

\* Where a connection is, as its client sees it.
Seen(place) ==
    CASE place = "new" -> "new"
      [] place \in {"app", "wake", "probe"} -> "waiting"
      [] place \in {"served", "answered"} -> "served"
      [] place = "refused" -> "lost"

Promise == INSTANCE Activator WITH
    conn       <- [c \in Conns |-> Seen(at[c])],
    awake      <- listening,
    forwarding <- \E k \in Keys : group[k].app = "fwd",
    excused    <- upset # {}

\* The reuseport activator keeps the promise of an activator: in no order of
\* connections, wake-ups, Resets and dumps is a connection taken by nobody or
\* lost without one of the mishaps above, or the application woken for probes.
Implements == Promise!Spec
=============================================================================
