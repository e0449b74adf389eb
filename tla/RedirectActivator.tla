-------------------------- MODULE RedirectActivator --------------------------
(***************************************************************************)
(* The activator that redirects with eBPF (activator/activator.go, bpf.go, *)
(* redirector.c) in the sandbox of a pod: the shim attaches the programs   *)
(* and starts a proxy per port, the manager of the node inserts the        *)
(* address of the kubelet (manager/redirector_attacher.go), the programs   *)
(* send each packet to the proxy or to the application, and the handlers   *)
(* of proxied connections wake the container and dial the application.     *)
(*                                                                         *)
(* The container is reduced to what the activator sees of it: its phase,   *)
(* the CheckpointRestore mutex, and whether the application listens.  The  *)
(* entries of an eBPF map are changed at once for all ports.               *)
(***************************************************************************)
EXTENDS Naturals, Sequences, FiniteSets

CONSTANTS
    Ports,      \* the ports of the application
    Conns,      \* connections from outside the pod
    MayProbe,   \* those from the address of the kubelet
    Sources,    \* source ports
    MaxActive,  \* bound: entries of active_connections, 512 in the code
    TCX,        \* the kernel has TCX links
    Faults,     \* what may go wrong
    NoThread    \* nobody: a free mutex

FaultNames == {"attach", "link", "sibling", "capacity", "target", "restore",
               "slow", "reset", "dump", "snapshot", "kill"}

ASSUME RedirectAssumption ==
    /\ Ports # {}
    /\ \E f \in [Conns -> Sources] : \A c, d \in Conns : f[c] = f[d] => c = d
    /\ MayProbe \subseteq Conns
    /\ MaxActive \in Nat \ {0}
    /\ TCX \in BOOLEAN
    /\ Faults \subseteq FaultNames
    /\ NoThread \notin Conns

VARIABLES
    boot,         \* where initActivator is
    marker,       \* the directory that says the shim attaches
    pinned,       \* the maps are pinned in the directory of the sandbox
    links,        \* the interfaces the programs are attached to
    bound,        \* the programs use the maps the server has opened
    address,      \* the pinned address of the kubelet: none, zero or set
    cached,       \* Server.kubeletAddr: none, zero or set
    events,       \* file events the manager has still to handle
    known,        \* Redirector.kubeletAddr is set
    sandbox,      \* the sandbox is in Redirector.sandboxes
    redirects,    \* ingress_redirects: the ports with a proxy
    disabled,     \* disable_redirect
    left,         \* history: a scale-down that failed has left redirects on
    active,       \* active_connections
    forward,      \* Server.forwardToTarget
    pc,           \* where the handler of each connection is
    at,           \* where each connection is
    from,         \* its source port
    dst,          \* the port it was made to
    kubelet,      \* the connections that are probes
    looped,       \* the connections whose handler has dialled itself
    down,         \* the scale-down callback is to dump the application
    timer,        \* scaleDownTimer is pending
    lock,         \* holder of Container.CheckpointRestore
    scaledDown,   \* Container.scaledDown
    noCheckpoint, \* cfg.DisableCheckpointing
    app,          \* the application: down, starting (no socket yet) or up
    upset         \* history: what happened that may cost a connection

bpfVars  == <<marker, pinned, links, bound, address, events>>
mgrVars  == <<known, sandbox>>
mapVars  == <<redirects, disabled, left, active>>
downVars == <<down, timer>>
connVars == <<pc, at, from, dst, kubelet, looped>>
contVars == <<lock, scaledDown, noCheckpoint, app>>
vars == <<boot, bpfVars, cached, mgrVars, mapVars, forward, connVars,
          downVars, contVars, upset>>

Ifaces == {"lo", "eth0"}
BootLabels == {"attach", "links", "start", "listen", "on", "off"}
HandlerLabels == {"idle", "hook", "peek", "register", "restore", "disable",
                  "wait", "dial", "proxy"}
Places == {"new", "app", "proxy", "served", "refused"}

\* What may cost a connection: the activator was not ready or not there, a
\* packet went to the wrong side, a probe was not recognised, nothing took the
\* connection, or the application was killed or was to be (lost); an entry of
\* active_connections was pushed out or removed with the source port of
\* another (entry); the programs were not attached or were taken away
\* (programs); the server dialled itself (loop).
Upsets == {"lost", "entry", "programs", "loop"}

May(f) == f \in Faults
Blame(cause) == upset' = upset \cup {cause}

\* Nobody handles a connection or scales down; a handler may wait for the
\* first byte of its client.
Quiet == ~down /\ \A c \in Conns : pc[c] \in {"idle", "peek"}

-----------------------------------------------------------------------------
(* Attaching: the helper process of the shim, and the manager. *)

AttachRedirector_FirstOnly(missed) == {"lo"} \ missed

\* The interfaces AttachRedirector attaches to, of lo and eth0, when both ways
\* to attach fail for those in missed, which is no error.  With TCX it goes on
\* to the next interface, with the older qdisc it returns after the first.
AttachRedirector(missed) ==
    IF TCX THEN {"lo", "eth0"} \ missed
    ELSE IF "lo" \notin missed THEN {"lo"}
    ELSE {"eth0"} \ missed

\* AttachRedirector misses no interface, or some without a word.  Bound: not
\* when programs are missing already.
Misses(missed) ==
    IF missed = {} THEN UNCHANGED upset
    ELSE May("link") /\ "programs" \notin upset /\ Blame("programs")

\* InitBPF: the directory is made and the maps of the programs are pinned.
InitBPF ==
    /\ pinned' = TRUE
    /\ address' = IF address = "none" THEN "zero" ELSE address

Created == IF pinned THEN <<>> ELSE <<"create">>

\* Links that are not pinned any more are gone.  The maps of the server are
\* no longer those of a program that is attached again.
Cleanup ==
    /\ marker' = FALSE
    /\ pinned' = FALSE
    /\ links' = {}
    /\ bound' = FALSE
    /\ address' = "none"

\* AttachExec: attachActivator in a process of its own.
AttachExec ==
    /\ boot = "attach"
    /\ boot' = "links"
    /\ marker' = TRUE
    /\ InitBPF
    /\ events' = events \o Created
    /\ UNCHANGED <<links, bound, cached, mgrVars, mapVars, forward, connVars,
                   downVars, contVars, upset>>

AttachInNetNS ==
    /\ boot = "links"
    /\ boot' = "start"
    /\ \E missed \in SUBSET Ifaces :
          /\ Misses(missed)
          /\ links' = AttachRedirector(missed)
    /\ UNCHANGED <<marker, pinned, bound, address, events, cached, mgrVars,
                   mapVars, forward, connVars, downVars, contVars>>

\* An interface is not found: the helper cleans up, and the container goes
\* without an activator.
AttachFails ==
    /\ boot = "links"
    /\ May("attach")
    /\ boot' = "off"
    /\ Cleanup
    /\ events' = IF pinned THEN Append(events, "remove") ELSE events
    /\ Blame("lost")
    /\ UNCHANGED <<cached, mgrVars, mapVars, forward, connVars, downVars,
                   contVars>>

\* The same failure for another container of the pod takes the programs of
\* this one away, since all containers of a pod share the directory; one that
\* has not opened the maps yet attaches again.  The containers of a pod are
\* started one after the other, so that the helpers do not overlap; and what
\* the loss does to a connection that is being handled it does to the next.
\* Bound: the manager has handled the earlier events, and no program is
\* missing.
SiblingFails ==
    /\ May("sibling")
    /\ "programs" \notin upset
    /\ boot # "links"
    /\ Quiet
    /\ events = <<>>
    /\ pinned
    /\ Cleanup
    /\ events' = Append(events, "remove")
    /\ IF boot \in {"listen", "on"} THEN Blame("programs") ELSE UNCHANGED upset
    /\ UNCHANGED <<boot, cached, mgrVars, mapVars, forward, connVars,
                   downVars, contVars>>

\* Start without the pinned maps: initActivator is tried again later.
MapNotFound ==
    /\ boot = "start"
    /\ ~pinned
    /\ boot' = "attach"
    /\ UNCHANGED <<bpfVars, cached, mgrVars, mapVars, forward, connVars,
                   downVars, contVars, upset>>

DisableRedirects == disabled' = Ports /\ left' = FALSE

Reset == disabled' = {} /\ UNCHANGED left

\* Start opens the maps and disables the redirects.
LoadPinnedMaps ==
    /\ boot = "start"
    /\ pinned
    /\ boot' = "listen"
    /\ bound' = TRUE
    /\ redirects' = {}
    /\ DisableRedirects
    /\ active' = {}
    /\ UNCHANGED <<marker, pinned, links, address, events, cached, mgrVars,
                   forward, connVars, downVars, contVars, upset>>

\* A proxy listens for the next port, and the port is redirected to it.  The
\* redirects of a container that was not started are enabled after the last.
StartPort(p) ==
    LET all == redirects \cup {p} = Ports IN
    /\ boot = "listen"
    /\ p \notin redirects
    /\ redirects' = redirects \cup {p}
    /\ boot' = IF all THEN "on" ELSE boot
    /\ IF all /\ scaledDown THEN Reset ELSE UNCHANGED <<disabled, left>>
    /\ UNCHANGED <<bpfVars, cached, mgrVars, active, forward, connVars,
                   downVars, contVars, upset>>

\* The manager learns the address when the kubelet, if there is one, probes it.
InitKubeletAddr ==
    /\ ~known
    /\ kubelet # {}
    /\ known' = TRUE
    /\ UNCHANGED <<boot, bpfVars, cached, sandbox, mapVars, forward,
                   connVars, downVars, contVars, upset>>

InsertKubeletAddr(addr) == IF known /\ pinned THEN "set" ELSE addr

\* All the interfaces asked for have pinned links: true if none is named.
TCXPinned(ifaces) == \A i \in ifaces : TCX /\ pinned /\ i \in links

\* A sandbox that the shim does not manage and that has no links is attached
\* by the manager, with maps of its own if there are none.
ManagerAttach(addr, queue) ==
    /\ pinned' = TRUE
    /\ \E missed \in SUBSET Ifaces :
          /\ Misses(missed)
          /\ links' = AttachRedirector(missed)
    /\ address' = IF addr = "none" THEN "zero" ELSE addr
    /\ events' = queue \o Created
    /\ sandbox' = TRUE
    /\ UNCHANGED <<marker, bound>>

\* An interface is not found: the manager cleans up, what is there of the
\* container included.  Bound: no other event waits.
ManagerAttachFails ==
    /\ May("attach")
    /\ Tail(events) = <<>>
    /\ Cleanup
    /\ events' = Append(Created, "remove")
    /\ Blame("programs")
    /\ UNCHANGED sandbox

\* reconcile, at the start of the manager and every 15 minutes, asks for the
\* links of no interface.
Reconcile ==
    /\ pinned
    /\ LET addr == InsertKubeletAddr(address) IN
       IF marker \/ TCXPinned({})
         THEN /\ address' = addr
              /\ UNCHANGED <<marker, pinned, links, bound, events, sandbox,
                             upset>>
         ELSE ManagerAttach(addr, events)
    /\ UNCHANGED <<boot, cached, known, mapVars, forward, connVars, downVars,
                   contVars>>

\* watchForSandboxPids handles the next event: the address is inserted when
\* the directory is new, and a sandbox that is neither managed by the shim nor
\* pinned is attached, or cleaned up when its directory was removed.
WatchEvent ==
    LET e == Head(events)
        addr == IF e = "create" THEN InsertKubeletAddr(address) ELSE address
        skip == marker \/ TCXPinned(Ifaces)
    IN  /\ events # <<>>
        /\ \/ /\ skip \/ (e = "remove" /\ ~sandbox)
              /\ address' = addr
              /\ events' = Tail(events)
              /\ UNCHANGED <<marker, pinned, links, bound, sandbox, upset>>
           \/ /\ ~skip /\ e = "create"
              /\ ManagerAttach(addr, Tail(events)) \/ ManagerAttachFails
           \/ /\ ~skip /\ e = "remove" /\ sandbox
              /\ Cleanup
              /\ events' = Tail(events)
              /\ UNCHANGED <<sandbox, upset>>
        /\ UNCHANGED <<boot, cached, known, mapVars, forward, connVars,
                       downVars, contVars>>

-----------------------------------------------------------------------------
(* The programs: what happens to the packets of a connection. *)

\* A packet from source port s to port p is sent to the proxy, unless the
\* port is disabled and no active connection has that source port.
IngressRedirect(s, p) ==
    /\ "eth0" \in links
    /\ bound
    /\ p \in redirects
    /\ p \in disabled => s \in active

\* A client connects: to the proxy, which accepts, or to the application.
Connect(c, p) ==
    LET to == IF IngressRedirect(from[c], p) THEN "proxy"
              ELSE IF app = "up" THEN "app" ELSE "refused"
        \* The ports are not open yet, or the activator is not.
        early == app = "starting" \/ boot \notin {"on", "off"}
    IN  /\ at[c] = "new"
        /\ at' = [at EXCEPT ![c] = to]
        /\ dst' = [dst EXCEPT ![c] = p]
        /\ pc' = [pc EXCEPT ![c] = IF to = "proxy" THEN "hook" ELSE "idle"]
        /\ IF to = "refused" /\ early THEN Blame("lost") ELSE UNCHANGED upset
        /\ UNCHANGED <<boot, bpfVars, cached, mgrVars, mapVars, forward,
                       from, kubelet, looped, downVars, contVars>>

AppServes(c) ==
    /\ at[c] = "app"
    /\ app = "up"
    /\ at' = [at EXCEPT ![c] = "served"]
    /\ UNCHANGED <<boot, bpfVars, cached, mgrVars, mapVars, forward, pc,
                   from, dst, kubelet, looped, downVars, contVars, upset>>

\* A packet of an established connection goes to the other side: the
\* connection is reset.  This is how a connection ends that was not registered
\* when the redirects were disabled, and one to the application when they
\* were enabled.
Stray(c) ==
    /\ \/ /\ at[c] = "proxy"
          /\ ~IngressRedirect(from[c], dst[c])
          /\ IF pc[c] \in {"hook", "peek", "register"} THEN Blame("lost")
             ELSE UNCHANGED upset
       \/ /\ at[c] = "app"
          /\ IngressRedirect(from[c], dst[c])
          /\ Blame("lost")
    /\ at' = [at EXCEPT ![c] = "refused"]
    /\ UNCHANGED <<boot, bpfVars, cached, mgrVars, mapVars, forward, pc,
                   from, dst, kubelet, looped, downVars, contVars>>

-----------------------------------------------------------------------------
(* handleConnection: the goroutine of a proxied connection. *)

Goto(c, label) == pc' = [pc EXCEPT ![c] = label]
Ends(c, place) ==
    at' = [at EXCEPT ![c] = IF @ = "proxy" THEN place ELSE @]

\* GetKubeletAddr keeps what it has read first, the zero address included.
GetKubeletAddr == IF cached = "none" THEN address ELSE cached

\* The connHook, detectProbe: a connection from the address of the kubelet is
\* held until its first byte or its end is there, every other one goes on.  A
\* forwarding server has no hook.
ConnHook(c) ==
    LET found == ~forward /\ GetKubeletAddr = "set" IN
    /\ pc[c] = "hook"
    /\ cached' = IF forward THEN cached ELSE GetKubeletAddr
    /\ Goto(c, IF found /\ c \in MayProbe THEN "peek" ELSE "register")
    /\ IF ~forward /\ ~found /\ c \in kubelet THEN Blame("lost")
       ELSE UNCHANGED upset
    /\ UNCHANGED <<boot, bpfVars, mgrVars, mapVars, forward, at, from, dst,
                   kubelet, looped, downVars, contVars>>

Peeked_NoDetection(c) ==
    /\ pc[c] = "peek"
    /\ Goto(c, "register")
    /\ UNCHANGED <<boot, bpfVars, cached, mgrVars, mapVars, forward, at, from,
                   dst, kubelet, looped, downVars, contVars, upset>>

\* The client has sent something or closed the connection: a probe is
\* answered, everything else goes on.  Nothing limits how long this takes.
Peeked(c) ==
    /\ pc[c] = "peek"
    /\ IF c \in kubelet THEN Goto(c, "idle") /\ Ends(c, "served")
       ELSE Goto(c, "register") /\ UNCHANGED at
    /\ UNCHANGED <<boot, bpfVars, cached, mgrVars, mapVars, forward, from,
                   dst, kubelet, looped, downVars, contVars, upset>>

Registered ==
    {c \in Conns : pc[c] \notin {"idle", "hook", "peek", "register"}}

RegisterConnection_Skipped(c) ==
    /\ pc[c] = "register"
    /\ Goto(c, "restore")
    /\ UNCHANGED <<boot, bpfVars, cached, mgrVars, mapVars, forward, at,
                   from, dst, kubelet, looped, downVars, contVars, upset>>

\* The source port is put into active_connections, an LRU map: when it is
\* full another entry goes.
RegisterConnection(c) ==
    /\ pc[c] = "register"
    /\ Goto(c, "restore")
    /\ IF Cardinality(active \cup {from[c]}) <= MaxActive
         THEN active' = active \cup {from[c]} /\ UNCHANGED upset
         ELSE /\ \E s \in active : active' = (active \ {s}) \cup {from[c]}
              /\ Blame("entry")
    /\ UNCHANGED <<boot, bpfVars, cached, mgrVars, redirects, disabled,
                   left, forward, at, from, dst, kubelet, looped, downVars,
                   contVars>>

RemoveConnection_Never(c, causes) ==
    /\ UNCHANGED active
    /\ upset' = upset \cup causes

\* The deferred removeConnection: a connection of another client with the same
\* source port loses its entry too.
RemoveConnection(c, causes) ==
    LET shared == \E d \in Registered \ {c} : from[d] = from[c] IN
    /\ active' = active \ {from[c]}
    /\ upset' = upset \cup causes \cup (IF shared THEN {"entry"} ELSE {})

\* The restoreHook of a container that runs, or of a forwarding server.
AlreadyRestored(c) ==
    /\ pc[c] = "restore"
    /\ forward \/ (lock = NoThread /\ ~scaledDown)
    /\ Goto(c, "dial")
    /\ UNCHANGED <<boot, bpfVars, cached, mgrVars, mapVars, forward, at,
                   from, dst, kubelet, looped, downVars, contVars, upset>>

\* The node has no capacity: with the address of a target the server forwards
\* from now on, else the handler dials what does not run.
CapacityDenied(c) ==
    /\ pc[c] = "restore"
    /\ ~forward /\ lock = NoThread /\ scaledDown
    /\ May("capacity")
    /\ Goto(c, "dial")
    /\ \/ forward' = TRUE /\ UNCHANGED upset
       \/ forward' = forward /\ Blame("lost")
    /\ UNCHANGED <<boot, bpfVars, cached, mgrVars, mapVars, at, from, dst,
                   kubelet, looped, downVars, contVars>>

\* Restore takes the mutex, and the process runs.  A restored one has its
\* sockets; one that is started anew, after a failed restore or without
\* checkpointing, opens them later.
StartProcess(c) ==
    /\ pc[c] = "restore"
    /\ ~forward /\ lock = NoThread /\ scaledDown
    /\ lock' = c
    /\ \/ UNCHANGED noCheckpoint
       \/ May("restore") /\ noCheckpoint' = TRUE
    /\ app' = IF noCheckpoint' THEN "starting" ELSE "up"
    /\ scaledDown' = FALSE
    /\ Goto(c, "disable")
    /\ UNCHANGED <<boot, bpfVars, cached, mgrVars, mapVars, forward, at,
                   from, dst, kubelet, looped, downVars, upset>>

RestoreDisables(c) ==
    /\ pc[c] = "disable"
    /\ DisableRedirects
    /\ Goto(c, "wait")
    /\ UNCHANGED <<boot, bpfVars, cached, mgrVars, redirects, active,
                   forward, at, from, dst, kubelet, looped, downVars,
                   contVars, upset>>

\* Without checkpointing restore waits for the ports, but not for ever.  The
\* next scale-down is scheduled.
Restored(c) ==
    /\ pc[c] = "wait"
    /\ app = "up" \/ May("slow")
    /\ lock' = NoThread
    /\ timer' = TRUE
    /\ Goto(c, "dial")
    /\ IF app = "up" THEN UNCHANGED upset ELSE Blame("lost")
    /\ UNCHANGED <<boot, bpfVars, cached, mgrVars, mapVars, forward, at,
                   from, dst, kubelet, looped, down, scaledDown,
                   noCheckpoint, app>>

AppListens ==
    /\ app = "starting"
    /\ app' = "up"
    /\ UNCHANGED <<boot, bpfVars, cached, mgrVars, mapVars, forward,
                   connVars, downVars, lock, scaledDown, noCheckpoint,
                   upset>>

\* The dial to the loopback address is redirected as well.
Loops(c) ==
    /\ ~forward
    /\ "lo" \in links
    /\ bound
    /\ dst[c] \in redirects \ disabled

Dial(c) ==
    /\ pc[c] = "dial"
    /\ forward \/ (app = "up" /\ ~Loops(c))
    /\ Goto(c, "proxy")
    /\ UNCHANGED <<boot, bpfVars, cached, mgrVars, mapVars, forward, at,
                   from, dst, kubelet, looped, downVars, contVars, upset>>

\* The redirects are enabled: the server accepts its own connection and calls
\* the restoreHook and dials for it in turn.  If it notices, it disables the
\* redirects.  Bound: this happens once for a connection, then proxyTimeout
\* ends the loop.
DialLoops(c) ==
    /\ pc[c] = "dial"
    /\ Loops(c)
    /\ c \notin looped
    /\ Goto(c, "restore")
    /\ DisableRedirects \/ UNCHANGED <<disabled, left>>
    /\ looped' = looped \cup {c}
    /\ Blame("loop")
    /\ UNCHANGED <<boot, bpfVars, cached, mgrVars, redirects, active,
                   forward, at, from, dst, kubelet, downVars, contVars>>

DialTimesOut_NoDeadline(c) ==
    /\ pc[c] = "dial"
    /\ IF forward THEN May("target") ELSE app # "up" /\ ~Loops(c)
    /\ UNCHANGED vars

\* Nothing listens until connectTimeout: the target does not, or another
\* handler has started the application anew since it was dumped.
DialTimesOut(c) ==
    /\ pc[c] = "dial"
    /\ IF forward THEN May("target") ELSE app # "up" /\ ~Loops(c)
    /\ Goto(c, "idle")
    /\ Ends(c, "refused")
    /\ looped' = looped \ {c}
    /\ RemoveConnection(c, IF forward \/ app = "starting" THEN {"lost"} ELSE {})
    /\ UNCHANGED <<boot, bpfVars, cached, mgrVars, redirects, disabled,
                   left, forward, from, dst, kubelet, downVars, contVars>>

\* The proxy is done, and the entry of the connection is removed.
Proxied(c) ==
    /\ pc[c] = "proxy"
    /\ Goto(c, "idle")
    /\ Ends(c, IF forward \/ app = "up" THEN "served" ELSE "refused")
    /\ looped' = looped \ {c}
    /\ RemoveConnection(c, {})
    /\ UNCHANGED <<boot, bpfVars, cached, mgrVars, redirects, disabled,
                   left, forward, from, dst, kubelet, downVars, contVars>>

LoopTimesOut(c) ==
    /\ pc[c] = "dial"
    /\ Loops(c)
    /\ c \in looped
    /\ Goto(c, "idle")
    /\ Ends(c, "refused")
    /\ looped' = looped \ {c}
    /\ RemoveConnection(c, {})
    /\ UNCHANGED <<boot, bpfVars, cached, mgrVars, redirects, disabled,
                   left, forward, from, dst, kubelet, downVars, contVars>>

-----------------------------------------------------------------------------
(* scaleDown: the callback of the scale-down timer. *)

\* The redirects are enabled before the application is dumped or killed.  When
\* that fails half-way the callback ends, and the next one will kill.
ScaleDown ==
    /\ timer
    /\ ~down
    /\ boot = "on"
    /\ ~scaledDown
    /\ \/ /\ Reset
          /\ down' = TRUE
          /\ timer' = FALSE
          /\ UNCHANGED noCheckpoint
       \/ /\ May("reset")
          /\ disabled' \in SUBSET disabled
          /\ left' = TRUE
          /\ noCheckpoint' = TRUE
          /\ UNCHANGED downVars
    /\ UNCHANGED <<boot, bpfVars, cached, mgrVars, redirects, active,
                   forward, connVars, lock, scaledDown, app, upset>>

\* The application is connected: to a client or to the proxy.
Established ==
    /\ app = "up"
    /\ \E c \in Conns : at[c] = "app" \/ (pc[c] = "proxy" /\ ~forward)

\* CRIU does not dump established connections.
Dumped ==
    /\ down
    /\ lock = NoThread
    /\ ~noCheckpoint
    /\ ~Established
    /\ down' = FALSE
    /\ scaledDown' = TRUE
    /\ app' = "down"
    /\ UNCHANGED <<boot, timer, bpfVars, cached, mgrVars, mapVars, forward,
                   connVars, lock, noCheckpoint, upset>>

\* The redirects of a container that still runs stay on.
LeavesRedirects == left' = TRUE /\ UNCHANGED disabled

\* A dump that failed disables the redirects again.  An error before it, of
\* the snapshot directory or the type of the process, does not, nor one of
\* DisableRedirects itself.  From then on the container is scaled down without
\* checkpoints.
DumpFails ==
    /\ down
    /\ lock = NoThread
    /\ ~noCheckpoint
    /\ \/ (Established \/ May("dump")) /\ DisableRedirects
       \/ May("snapshot") /\ LeavesRedirects
    /\ down' = FALSE
    /\ timer' = TRUE
    /\ noCheckpoint' = TRUE
    /\ UNCHANGED <<boot, bpfVars, cached, mgrVars, redirects, active,
                   forward, connVars, lock, scaledDown, app, upset>>

\* Without checkpointing the application is killed, with its connections.
Killed ==
    /\ down
    /\ lock = NoThread
    /\ noCheckpoint
    /\ down' = FALSE
    /\ scaledDown' = TRUE
    /\ app' = "down"
    /\ at' = [c \in Conns |-> IF at[c] = "app" THEN "refused" ELSE at[c]]
    /\ IF Established THEN Blame("lost") ELSE UNCHANGED upset
    /\ UNCHANGED <<boot, timer, bpfVars, cached, mgrVars, mapVars, forward,
                   pc, from, dst, kubelet, looped, lock, noCheckpoint>>

\* Nothing disables the redirects after a kill that failed.
KillFails ==
    /\ down
    /\ lock = NoThread
    /\ noCheckpoint
    /\ May("kill")
    /\ LeavesRedirects
    /\ down' = FALSE
    /\ timer' = TRUE
    /\ Blame("lost")
    /\ UNCHANGED <<boot, bpfVars, cached, mgrVars, redirects, active, forward,
                   connVars, contVars>>

-----------------------------------------------------------------------------
(* The specification. *)

\* Source ports do not differ: all clients have the same, or each its own.
SameSource == [c \in Conns |-> CHOOSE s \in Sources : TRUE]
OwnSource ==
    CHOOSE f \in [Conns -> Sources] : \A c, d \in Conns : f[c] = f[d] => c = d

\* The container was started, or is a migrated one whose start was skipped.
Init ==
    /\ boot = "attach"
    /\ marker = FALSE
    /\ pinned = FALSE
    /\ links = {}
    /\ bound = FALSE
    /\ address = "none"
    /\ cached = "none"
    /\ events = <<>>
    /\ known = FALSE
    /\ sandbox = FALSE
    /\ redirects = {}
    /\ disabled = {}
    /\ left = FALSE
    /\ active = {}
    /\ forward = FALSE
    /\ pc = [c \in Conns |-> "idle"]
    /\ at = [c \in Conns |-> "new"]
    /\ from = SameSource \/ from = OwnSource
    /\ dst = [c \in Conns |-> CHOOSE p \in Ports : TRUE]
    /\ kubelet \in SUBSET MayProbe
    /\ looped = {}
    /\ scaledDown \in BOOLEAN
    /\ down = FALSE
    /\ timer = ~scaledDown
    /\ lock = NoThread
    /\ noCheckpoint = FALSE
    /\ app = IF scaledDown THEN "down" ELSE "up"
    /\ upset = {}

BootStep ==
    \/ AttachExec
    \/ AttachInNetNS
    \/ AttachFails
    \/ MapNotFound
    \/ LoadPinnedMaps
    \/ \E p \in Ports : StartPort(p)

ManagerStep == Reconcile \/ WatchEvent

Handler(c) ==
    \/ ConnHook(c)
    \/ RegisterConnection(c)
    \/ AlreadyRestored(c)
    \/ CapacityDenied(c)
    \/ StartProcess(c)
    \/ RestoreDisables(c)
    \/ Restored(c)
    \/ Dial(c)
    \/ DialLoops(c)
    \/ DialTimesOut(c)
    \/ Proxied(c)
    \/ LoopTimesOut(c)

DownStep == Dumped \/ DumpFails \/ Killed \/ KillFails

Next ==
    \/ BootStep
    \/ SiblingFails
    \/ InitKubeletAddr
    \/ ManagerStep
    \/ \E c \in Conns :
          \/ \E p \in Ports : Connect(c, p)
          \/ AppServes(c)
          \/ Stray(c)
          \/ Peeked(c)
          \/ Handler(c)
    \/ AppListens
    \/ ScaleDown
    \/ DownStep

Spec == Init /\ [][Next]_vars

\* Goroutines run, and one that waits for the mutex gets it when it is given
\* back again and again.  A started application listens at last.  Clients owe
\* nothing: they need not connect, nor send the byte that a handler peeks for.
FairSpec ==
    /\ Spec
    /\ \A c \in Conns : SF_vars(Handler(c))
    /\ WF_vars(DownStep)
    /\ WF_vars(AppListens)

-----------------------------------------------------------------------------
(* Properties. *)

\* Every variable has its type (the fields of Server, BPF and Redirector and
\* the entries of the maps), and CheckpointRestore is held by exactly the
\* handler that is inside Restore.
TypeOK ==
    /\ boot \in BootLabels
    /\ marker \in BOOLEAN /\ pinned \in BOOLEAN /\ bound \in BOOLEAN
    /\ links \in SUBSET Ifaces
    /\ {address, cached} \subseteq {"none", "zero", "set"}
    /\ events \in Seq({"create", "remove"})
    /\ known \in BOOLEAN /\ sandbox \in BOOLEAN /\ forward \in BOOLEAN
    /\ left \in BOOLEAN
    /\ redirects \in SUBSET Ports /\ disabled \in SUBSET Ports
    /\ active \in SUBSET Sources /\ Cardinality(active) <= MaxActive
    /\ pc \in [Conns -> HandlerLabels]
    /\ at \in [Conns -> Places]
    /\ from \in [Conns -> Sources] /\ dst \in [Conns -> Ports]
    /\ kubelet \in SUBSET MayProbe /\ looped \in SUBSET Conns
    /\ down \in BOOLEAN /\ timer \in BOOLEAN
    /\ lock \in Conns \cup {NoThread}
    /\ scaledDown \in BOOLEAN /\ noCheckpoint \in BOOLEAN
    /\ app \in {"down", "starting", "up"}
    /\ upset \in SUBSET Upsets
    /\ \A c \in Conns : lock = c <=> pc[c] \in {"disable", "wait"}

\* What redirector.c says of active connections: the packets of a registered
\* connection go to the proxy until it is closed, also when another handler
\* disables the redirects; unless its entry was pushed out, or removed by a
\* connection with the same source port, or programs are missing.
StaysRedirected ==
    /\ TypeOK
    /\ upset \cap {"entry", "programs"} = {} =>
          \A c \in Registered : IngressRedirect(from[c], dst[c])

\* When Start, the dump and the handlers are over, every packet to a container
\* that is scaled down goes to the proxy, from whatever source port; unless
\* programs are missing, or a handler that dialled itself has disabled the
\* redirects.
Wakeable ==
    (boot = "on" /\ scaledDown /\ Quiet /\
     upset \cap {"programs", "loop"} = {}) =>
        \A s \in Sources, p \in Ports : IngressRedirect(s, p)

\* When they are over, every packet to a container that runs goes to the
\* application: no entry of a closed connection is left.  The only redirects
\* that are on are those that a failed scale-down has left on since they were
\* disabled last: a Reset that stopped half-way, a checkpoint that returned
\* before or without DisableRedirects, or a kill.
Direct ==
    (boot = "on" /\ ~scaledDown /\ Quiet /\ ~left) =>
        \A s \in Sources, p \in Ports : ~IngressRedirect(s, p)

\* A connection that the proxy accepts ends, and with it its handler: the
\* waits for the mutex, for the application and for the dial all end.  The one
\* wait without an end of its own is the peek of detectProbe, for the first
\* byte of a client at the address of the kubelet.
Ending ==
    LET handled == {c \in Conns : pc[c] \notin {"idle", "peek"}}
    IN  handled # {} ~> handled = {}

\* Where a connection is, as its client sees it.
Seen(place) ==
    CASE place = "new" -> "new"
      [] place \in {"app", "proxy"} -> "waiting"
      [] place = "served" -> "served"
      [] place = "refused" -> "lost"

Promise == INSTANCE Activator WITH
    conn       <- [c \in Conns |-> Seen(at[c])],
    awake      <- app = "up",
    forwarding <- forward,
    excused    <- upset # {}

\* The redirecting activator keeps the promise of an activator: in no order
\* of connections, restores, dumps and attachments is a connection lost
\* without one of the mishaps above, or the application woken for probes.
Implements == Promise!Spec
=============================================================================
