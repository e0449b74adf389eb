------------------------------ MODULE Activator ------------------------------
(***************************************************************************)
(* What an activator promises (activator/interface.go), whatever makes it  *)
(* work: a connection to a container is held until the application or the  *)
(* target of a forward takes it, only clients wake the application, and    *)
(* connections are lost only after something went wrong.                   *)
(*                                                                         *)
(* Both activators implement this: see Implements in ReuseActivator and in *)
(* RedirectActivator.                                                      *)
(***************************************************************************)
CONSTANT Conns

VARIABLES
    conn,       \* new, waiting, served, lost
    kubelet,    \* the connections that are probes of the kubelet
    awake,      \* the application listens
    forwarding, \* connections go to the target of a migration
    excused     \* something went wrong that may cost a connection

vars == <<conn, kubelet, awake, forwarding, excused>>

Init ==
    /\ conn = [c \in Conns |-> "new"]
    /\ kubelet \in SUBSET Conns
    /\ awake \in BOOLEAN
    /\ forwarding = FALSE
    /\ excused = FALSE

Arrives(c) == conn[c] = "new" /\ conn'[c] = "waiting"

\* The application or the target takes the connection, or a probe is answered
\* without them.
Served(c) ==
    /\ conn[c] \in {"new", "waiting"}
    /\ conn'[c] = "served"
    /\ awake \/ forwarding' \/ c \in kubelet

Lost(c) ==
    /\ conn[c] \in {"new", "waiting"}
    /\ conn'[c] = "lost"
    /\ excused'

\* Closing one listener for another may move several connections at once.
ConnsMove ==
    /\ conn' \in [Conns -> {"new", "waiting", "served", "lost"}]
    /\ \A c \in Conns :
          conn'[c] = conn[c] \/ Arrives(c) \/ Served(c) \/ Lost(c)

\* An application is not woken for probes.
WakesFor ==
    (~awake /\ awake') =>
        excused' \/ \E c \in Conns \ kubelet : conn[c] # "new"

Next ==
    /\ ConnsMove
    /\ WakesFor
    /\ awake' \in BOOLEAN
    /\ forwarding' \in BOOLEAN
    /\ excused' \in BOOLEAN
    /\ excused => excused'
    /\ UNCHANGED kubelet

Spec == Init /\ [][Next]_vars
=============================================================================
