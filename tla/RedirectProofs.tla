--------------------------- MODULE RedirectProofs ---------------------------
(***************************************************************************)
(* Proofs about the redirecting activator: a registered connection stays   *)
(* redirected, a container that rests can be woken or is reached directly, *)
(* and the activator implements Activator.                                 *)
(*                                                                         *)
(* StaysRedirected and Direct hold for all values of the constants.        *)
(* Wakeable and Implements need TCX: with the older qdisc the programs are *)
(* never attached to the interface that connections arrive on.             *)
(***************************************************************************)
EXTENDS RedirectActivator, TLAPS

USE DEF bpfVars, mgrVars, mapVars, downVars, connVars, contVars

-----------------------------------------------------------------------------
(* The invariants. *)

\* The conjuncts of TypeOK, those of Boolean-valued variables apart; and a
\* connection has a handler only after it was made.
Flags ==
    /\ marker \in BOOLEAN /\ pinned \in BOOLEAN /\ bound \in BOOLEAN
    /\ known \in BOOLEAN /\ sandbox \in BOOLEAN /\ forward \in BOOLEAN
    /\ down \in BOOLEAN /\ timer \in BOOLEAN
    /\ scaledDown \in BOOLEAN /\ noCheckpoint \in BOOLEAN
    /\ left \in BOOLEAN
Programs ==
    /\ boot \in BootLabels
    /\ links \in SUBSET Ifaces
    /\ address \in {"none", "zero", "set"}
    /\ cached \in {"none", "zero", "set"}
    /\ events \in Seq({"create", "remove"})
Maps ==
    /\ redirects \in SUBSET Ports /\ disabled \in SUBSET Ports
    /\ active \in SUBSET Sources
Connections ==
    /\ pc \in [Conns -> HandlerLabels]
    /\ at \in [Conns -> Places]
    /\ from \in [Conns -> Sources] /\ dst \in [Conns -> Ports]
    /\ kubelet \in SUBSET MayProbe /\ looped \in SUBSET Conns
    /\ upset \in SUBSET Upsets
    /\ \A c \in Conns : at[c] = "new" => pc[c] = "idle"
Process ==
    /\ lock \in Conns \cup {NoThread}
    /\ app \in {"down", "starting", "up"}
    /\ \A c \in Conns : lock = c <=> pc[c] \in {"disable", "wait"}

\* The LRU map never has more entries than it has room for.
Bounded == IsFiniteSet(active) /\ Cardinality(active) <= MaxActive

Typed == Flags /\ Programs /\ Maps /\ Connections /\ Process

\* As long as no program is missing, because an attach missed an interface or
\* another container of the pod failed to attach, the manager leaves the
\* programs of a container alone that the shim attaches.
Attached ==
    "programs" \notin upset =>
        /\ boot = "attach" => ~pinned /\ ~marker
        /\ boot = "links" => marker /\ pinned
        /\ boot = "start" =>
              IF pinned THEN marker /\ links = AttachRedirector({}) ELSE ~marker
        /\ boot \in {"listen", "on"} =>
              marker /\ bound /\ links = AttachRedirector({})
        /\ (boot # "off" /\ ~marker) =>
              \A i \in 1 .. Len(events) : events[i] = "remove"

\* Connections are proxied only after Start, since until then the redirects
\* are disabled.
Started ==
    /\ bound => boot \in {"listen", "on"}
    /\ boot = "listen" => disabled = Ports
    /\ boot = "on" => redirects = Ports
    /\ \A c \in Conns : pc[c] # "idle" =>
          boot = "on" /\ ("programs" \notin upset => "eth0" \in AttachRedirector({}))

\* The entries of active_connections are those of the handlers between
\* registerConnection and removeConnection.
Entries ==
    /\ active \subseteq {from[c] : c \in Registered}
    /\ "entry" \notin upset => \A c \in Registered : from[c] \in active

\* The timer, the callback and a Restore exclude each other.
Scaling ==
    /\ scaledDown => ~timer /\ ~down /\ lock = NoThread
    /\ lock # NoThread => ~timer /\ ~down
    /\ down => ~timer /\ boot = "on"
    /\ app = "down" <=> scaledDown

\* The redirects are enabled from the callback to the next Restore,
Enabled ==
    ("loop" \notin upset /\ boot = "on" /\ (scaledDown \/ down)) =>
        disabled = {}

\* and disabled from there to the next callback, unless a callback that failed
\* has left them on.
Disabled ==
    (~left /\ boot = "on" /\ ~scaledDown /\ ~down
       /\ \A c \in Conns : pc[c] # "disable") => disabled = Ports

\* What the client of a connection sees of its handler and the application.
Clients ==
    /\ \A c \in Conns : at[c] = "proxy" => pc[c] # "idle"
    /\ \A c \in Conns : at[c] = "app" => app = "up"
    /\ boot = "off" => upset # {}
    /\ looped # {} => upset # {}
    /\ upset = {} => \A c \in Conns :
          /\ pc[c] = "proxy" /\ ~forward => app = "up"
          /\ pc[c] \notin {"idle", "hook", "peek"} /\ ~forward => c \notin kubelet
    /\ (upset = {} /\ app = "starting") =>
          \E c \in Conns \ kubelet : at[c] # "new"

IInv ==
    /\ Typed /\ Bounded /\ Attached /\ Started /\ Entries /\ Scaling
    /\ Enabled /\ Disabled /\ Clients

-----------------------------------------------------------------------------
(* Types. *)


\* The Boolean-valued fields and flags stay Boolean.
LEMMA FlagsStep ==
    Flags /\ [Next]_vars => Flags'
<1> SUFFICES ASSUME Flags, [Next]_vars PROVE Flags'
  BY Zenon
<1> USE DEF Flags
<1>1. CASE AttachExec
  BY Zenon, <1>1 DEF AttachExec, InitBPF
<1>2. CASE AttachFails
  BY Zenon, <1>2 DEF AttachFails, Cleanup, Blame
<1>3. CASE SiblingFails
  BY Zenon, <1>3 DEF SiblingFails, Cleanup, Blame
<1>4. CASE LoadPinnedMaps
  BY Zenon, <1>4 DEF LoadPinnedMaps, DisableRedirects
<1>5. CASE InitKubeletAddr
  BY Zenon, <1>5 DEF InitKubeletAddr
<1>6. CASE Reconcile
  BY Zenon, <1>6 DEF Reconcile, ManagerAttach
<1>7. CASE WatchEvent
  BY Zenon, <1>7 DEF WatchEvent, ManagerAttach, ManagerAttachFails, Cleanup
<1>8. ASSUME NEW c \in Conns, CapacityDenied(c) PROVE Flags'
  BY Zenon, <1>8 DEF CapacityDenied, Goto, Blame
<1>9. ASSUME NEW c \in Conns, StartProcess(c) PROVE Flags'
  BY Zenon, <1>9 DEF StartProcess, Goto
<1>10. ASSUME NEW c \in Conns, Restored(c) PROVE Flags'
  BY Zenon, <1>10 DEF Restored, Goto, Blame
<1>11. CASE ScaleDown
  BY Zenon, <1>11 DEF ScaleDown, Reset
<1>12. CASE Dumped
  BY Zenon, <1>12 DEF Dumped
<1>13. CASE DumpFails
  BY Zenon, <1>13 DEF DumpFails, DisableRedirects, LeavesRedirects
<1>14. CASE Killed
  BY Zenon, <1>14 DEF Killed, Blame
<1>15. CASE KillFails
  BY Zenon, <1>15 DEF KillFails, Blame, LeavesRedirects
<1>16. CASE AttachInNetNS \/ MapNotFound \/ AppListens
  BY <1>16 DEF AttachInNetNS, MapNotFound, AppListens
<1>17. ASSUME NEW p \in Ports, StartPort(p) PROVE Flags'
  BY Zenon, <1>17 DEF StartPort, Reset
<1>18. ASSUME NEW c \in Conns, NEW p \in Ports, Connect(c, p) PROVE Flags'
  BY Zenon, <1>18 DEF Connect
<1>19. ASSUME NEW c \in Conns, AppServes(c) \/ Stray(c) \/ ConnHook(c) \/
     Peeked(c) \/ RegisterConnection(c) \/ AlreadyRestored(c) PROVE Flags'
  BY <1>19 DEF AppServes, Stray, ConnHook, Peeked, RegisterConnection,
       AlreadyRestored
<1>20. ASSUME NEW c \in Conns, RestoreDisables(c) \/ Dial(c) \/ DialLoops(c)
     \/ DialTimesOut(c) \/ Proxied(c) PROVE Flags'
  <2>1. UNCHANGED <<marker, pinned, bound, known, sandbox, forward, down,
                    timer, scaledDown, noCheckpoint>>
    BY Zenon, <1>20 DEF RestoreDisables, Dial, DialLoops, DialTimesOut, Proxied
  <2>2. left' = left \/ left' = FALSE
    BY Zenon, <1>20 DEF RestoreDisables, Dial, DialLoops, DialTimesOut,
         Proxied, DisableRedirects
  <2>3. left' \in BOOLEAN
    BY <2>2
  <2> QED
    BY Zenon, <2>1, <2>3
<1>21. ASSUME NEW c \in Conns, LoopTimesOut(c) PROVE Flags'
  BY Zenon, <1>21 DEF LoopTimesOut
<1>22. CASE UNCHANGED vars
  BY Zenon, <1>22 DEF vars
<1> QED
  BY ZenonT(30), <1>1, <1>2, <1>3, <1>4, <1>5, <1>6, <1>7, <1>8, <1>9, <1>10, <1>11,
       <1>12, <1>13, <1>14, <1>15, <1>16, <1>17, <1>18, <1>19, <1>20, <1>21,
       <1>22 DEF Next, BootStep, ManagerStep, Handler, DownStep

\* AttachRedirector attaches to some of the interfaces, and when it misses
\* none, to both or, without TCX, to the first.
LEMMA AttachesTo ==
    /\ \A missed : AttachRedirector(missed) \in SUBSET Ifaces
    /\ AttachRedirector({}) = IF TCX THEN {"lo", "eth0"} ELSE {"lo"}
  BY DEF AttachRedirector, Ifaces

\* The queue of file events with one more or one less.
LEMMA Queued ==
    ASSUME Programs
    PROVE  /\ \A q \in Seq({"create", "remove"}) :
                 q \o Created \in Seq({"create", "remove"})
           /\ events # <<>> => Tail(events) \in Seq({"create", "remove"})
           /\ Append(Created, "remove") \in Seq({"create", "remove"})
<1> DEFINE E == {"create", "remove"}
<1>1. <<>> \in Seq(E) /\ <<"create">> \in Seq(E)
  OBVIOUS
<1>2. Created \in Seq(E)
  BY Zenon, <1>1 DEF Created
<1> HIDE DEF E
<1>3. \A q \in Seq(E) : q \o Created \in Seq(E)
  BY <1>2
<1>4. events \in Seq(E) /\ events # <<>> => Tail(events) \in Seq(E)
  OBVIOUS
<1>5. "remove" \in E
  BY Zenon DEF E
<1>6. Append(Created, "remove") \in Seq(E)
  BY <1>2, <1>5
<1> QED
  BY Zenon, <1>3, <1>4, <1>6 DEF Programs, E

\* The programs, the address of the kubelet and the file events.
LEMMA ProgramsStep ==
    Flags /\ Programs /\ [Next]_vars => Programs'
<1> SUFFICES ASSUME Flags, Programs, [Next]_vars PROVE Programs'
  BY Zenon
<1> USE DEF Programs, BootLabels
<1>1. CASE AttachExec
  BY Zenon, <1>1, Queued DEF AttachExec, InitBPF
<1>2. CASE AttachInNetNS
  BY Zenon, <1>2, AttachesTo DEF AttachInNetNS
<1>3. CASE AttachFails
  BY <1>3 DEF AttachFails, Cleanup, Blame
<1>4. CASE SiblingFails
  BY <1>4 DEF SiblingFails, Cleanup, Blame
<1>5. CASE MapNotFound
  BY Zenon, <1>5 DEF MapNotFound
<1>6. CASE LoadPinnedMaps
  BY Zenon, <1>6 DEF LoadPinnedMaps, DisableRedirects
<1>7. ASSUME NEW p \in Ports, StartPort(p) PROVE Programs'
  BY Zenon, <1>7 DEF StartPort, Reset
<1>8. CASE Reconcile
  BY Zenon, <1>8, AttachesTo, Queued DEF Reconcile, ManagerAttach, InsertKubeletAddr
<1>9. CASE WatchEvent
  BY Zenon, <1>9, AttachesTo, Queued DEF WatchEvent, ManagerAttach,
       ManagerAttachFails, Cleanup, InsertKubeletAddr
<1>10. ASSUME NEW c \in Conns, ConnHook(c) PROVE Programs'
  BY Zenon, <1>10 DEF ConnHook, Goto, Ends, Blame, GetKubeletAddr
<1>11. ASSUME NEW c \in Conns, Peeked(c) PROVE Programs'
  BY Zenon, <1>11 DEF Peeked
<1>12. CASE InitKubeletAddr \/ AppListens \/ ScaleDown \/ Dumped \/ DumpFails
  BY Zenon, <1>12 DEF InitKubeletAddr, AppListens, ScaleDown, Dumped, DumpFails
<1>13. CASE Killed \/ KillFails
  BY Zenon, <1>13 DEF Killed, KillFails
<1>14. ASSUME NEW c \in Conns, NEW p \in Ports, Connect(c, p) PROVE Programs'
  BY Zenon, <1>14 DEF Connect
<1>15. ASSUME NEW c \in Conns, AppServes(c) \/ Stray(c) \/
     RegisterConnection(c) \/ AlreadyRestored(c) \/ CapacityDenied(c) PROVE
     Programs'
  BY ZenonT(30), <1>15 DEF AppServes, Stray, RegisterConnection, AlreadyRestored,
       CapacityDenied
<1>16. ASSUME NEW c \in Conns, StartProcess(c) \/ RestoreDisables(c) \/
     Restored(c) \/ Dial(c) \/ DialLoops(c) PROVE Programs'
  BY Zenon, <1>16 DEF StartProcess, RestoreDisables, Restored, Dial, DialLoops
<1>17. ASSUME NEW c \in Conns, DialTimesOut(c) \/ Proxied(c) \/
     LoopTimesOut(c) PROVE Programs'
  BY Zenon, <1>17 DEF DialTimesOut, Proxied, LoopTimesOut
<1>18. CASE UNCHANGED vars
  BY Zenon, <1>18 DEF vars
<1> QED
  BY Zenon, <1>1, <1>2, <1>3, <1>4, <1>5, <1>6, <1>7, <1>8, <1>9, <1>10, <1>11, <1>12,
       <1>13, <1>14, <1>15, <1>16, <1>17, <1>18 DEF Next, BootStep,
       ManagerStep, Handler, DownStep

\* The entries of the three maps.
LEMMA MapsStep ==
    Connections /\ Maps /\ [Next]_vars => Maps'
<1> SUFFICES ASSUME Connections, Maps, [Next]_vars PROVE Maps'
  BY Zenon
<1> USE DEF Maps
<1>1. CASE LoadPinnedMaps
  BY Zenon, <1>1 DEF LoadPinnedMaps, DisableRedirects
<1>2. ASSUME NEW p \in Ports, StartPort(p) PROVE Maps'
  BY Zenon, <1>2 DEF StartPort, Reset
<1>3. ASSUME NEW c \in Conns, RegisterConnection(c) PROVE Maps'
  BY <1>3 DEF RegisterConnection, Goto, Blame, Connections
<1>4. ASSUME NEW c \in Conns, RestoreDisables(c) PROVE Maps'
  BY Zenon, <1>4 DEF RestoreDisables, Goto, DisableRedirects
<1>5. ASSUME NEW c \in Conns, DialLoops(c) PROVE Maps'
  BY Zenon, <1>5 DEF DialLoops, Goto, DisableRedirects, Blame
<1>6. ASSUME NEW c \in Conns, DialTimesOut(c) PROVE Maps'
  BY Zenon, <1>6 DEF DialTimesOut, Goto, Ends, RemoveConnection
<1>7. ASSUME NEW c \in Conns, Proxied(c) PROVE Maps'
  BY Zenon, <1>7 DEF Proxied, Goto, Ends, RemoveConnection
<1>8. ASSUME NEW c \in Conns, LoopTimesOut(c) PROVE Maps'
  BY Zenon, <1>8 DEF LoopTimesOut, Goto, Ends, RemoveConnection
<1>9. CASE ScaleDown
  BY Zenon, <1>9 DEF ScaleDown, Reset
<1>10. CASE DumpFails
  BY Zenon, <1>10 DEF DumpFails, DisableRedirects, LeavesRedirects
<1>11. CASE AttachExec \/ AttachInNetNS \/ AttachFails \/ SiblingFails \/
     MapNotFound
  BY Zenon, <1>11 DEF AttachExec, AttachInNetNS, AttachFails, SiblingFails,
       MapNotFound
<1>12. CASE InitKubeletAddr \/ Reconcile \/ WatchEvent \/ AppListens \/
     Dumped
  BY Zenon, <1>12 DEF InitKubeletAddr, Reconcile, WatchEvent, AppListens, Dumped
<1>13. CASE Killed \/ KillFails
  BY Zenon, <1>13 DEF Killed, KillFails, LeavesRedirects
<1>14. ASSUME NEW c \in Conns, NEW p \in Ports, Connect(c, p) PROVE Maps'
  BY Zenon, <1>14 DEF Connect
<1>15. ASSUME NEW c \in Conns, AppServes(c) \/ Stray(c) \/ ConnHook(c) \/
     Peeked(c) \/ AlreadyRestored(c) \/ CapacityDenied(c) PROVE Maps'
  BY Zenon, <1>15 DEF AppServes, Stray, ConnHook, Peeked, AlreadyRestored, CapacityDenied
<1>16. ASSUME NEW c \in Conns, StartProcess(c) \/ Restored(c) \/ Dial(c)
     PROVE Maps'
  BY Zenon, <1>16 DEF StartProcess, Restored, Dial
<1>17. CASE UNCHANGED vars
  BY Zenon, <1>17 DEF vars
<1> QED
  BY Zenon, <1>1, <1>2, <1>3, <1>4, <1>5, <1>6, <1>7, <1>8, <1>9, <1>10, <1>11,
       <1>12, <1>13, <1>14, <1>15, <1>16, <1>17 DEF Next, BootStep,
       ManagerStep, Handler, DownStep

\* An attach by the shim or the manager leaves the connections alone; it may
\* miss an interface or fail.
LEMMA AttachUpset ==
    ASSUME AttachInNetNS \/ Reconcile \/ WatchEvent
    PROVE  /\ upset' = upset \/ upset' = upset \cup {"programs"}
           /\ UNCHANGED connVars
<1>1. CASE AttachInNetNS
  BY Zenon, <1>1 DEF AttachInNetNS, Misses, Blame
<1>2. CASE Reconcile
  BY Zenon, <1>2 DEF Reconcile, ManagerAttach, Misses, Blame
<1>3. CASE WatchEvent
  BY Zenon, <1>3 DEF WatchEvent, ManagerAttach, ManagerAttachFails, Misses,
       Blame
<1> QED
  BY Zenon, <1>1, <1>2, <1>3

\* The connections, their handlers and what happened to them.
LEMMA ConnectionsStep ==
    Flags /\ Connections /\ [Next]_vars => Connections'
<1> SUFFICES ASSUME Flags, Connections, [Next]_vars PROVE Connections'
  BY Zenon
<1> USE DEF Connections, HandlerLabels, Places, Upsets
<1>1. CASE AttachFails
  BY Zenon, <1>1 DEF AttachFails, Cleanup, Blame
<1>2. CASE SiblingFails
  BY Zenon, <1>2 DEF SiblingFails, Cleanup, Blame
<1>3. ASSUME NEW c \in Conns, NEW p \in Ports, Connect(c, p) PROVE
     Connections'
  BY Zenon, <1>3 DEF Connect, Blame
<1>4. ASSUME NEW c \in Conns, AppServes(c) PROVE Connections'
  BY Zenon, <1>4 DEF AppServes
<1>5. ASSUME NEW c \in Conns, Stray(c) PROVE Connections'
  BY Zenon, <1>5 DEF Stray, Blame
<1>6. ASSUME NEW c \in Conns, ConnHook(c) PROVE Connections'
  BY Zenon, <1>6 DEF ConnHook, Goto, Ends, Blame
<1>7. ASSUME NEW c \in Conns, Peeked(c) PROVE Connections'
  BY Zenon, <1>7 DEF Peeked, Goto, Ends
<1>8. ASSUME NEW c \in Conns, RegisterConnection(c) PROVE Connections'
  BY Zenon, <1>8 DEF RegisterConnection, Goto, Blame
<1>9. ASSUME NEW c \in Conns, AlreadyRestored(c) PROVE Connections'
  BY Zenon, <1>9 DEF AlreadyRestored, Goto
<1>10. ASSUME NEW c \in Conns, CapacityDenied(c) PROVE Connections'
  BY Zenon, <1>10 DEF CapacityDenied, Goto, Blame
<1>11. ASSUME NEW c \in Conns, StartProcess(c) PROVE Connections'
  BY Zenon, <1>11 DEF StartProcess, Goto
<1>12. ASSUME NEW c \in Conns, RestoreDisables(c) PROVE Connections'
  BY Zenon, <1>12 DEF RestoreDisables, Goto, DisableRedirects
<1>13. ASSUME NEW c \in Conns, Restored(c) PROVE Connections'
  BY Zenon, <1>13 DEF Restored, Goto, Blame
<1>14. ASSUME NEW c \in Conns, Dial(c) PROVE Connections'
  BY Zenon, <1>14 DEF Dial, Goto
<1>15. ASSUME NEW c \in Conns, DialLoops(c) PROVE Connections'
  BY Zenon, <1>15 DEF DialLoops, Goto, DisableRedirects, Blame
<1>16. ASSUME NEW c \in Conns, DialTimesOut(c) PROVE Connections'
  BY Zenon, <1>16 DEF DialTimesOut, Goto, Ends, RemoveConnection
<1>17. ASSUME NEW c \in Conns, Proxied(c) PROVE Connections'
  BY Zenon, <1>17 DEF Proxied, Goto, Ends, RemoveConnection
<1>18. ASSUME NEW c \in Conns, LoopTimesOut(c) PROVE Connections'
  BY Zenon, <1>18 DEF LoopTimesOut, Goto, Ends, RemoveConnection
<1>19. CASE Killed
  BY Zenon, <1>19 DEF Killed, Blame
<1>20. CASE KillFails
  BY Zenon, <1>20 DEF KillFails, Blame
<1>21. CASE AttachExec \/ MapNotFound \/ LoadPinnedMaps \/ InitKubeletAddr
     \/ AppListens \/ ScaleDown \/ Dumped
  BY Zenon, <1>21 DEF AttachExec, MapNotFound, LoadPinnedMaps,
       InitKubeletAddr, AppListens, ScaleDown, Dumped
<1>22. CASE AttachInNetNS \/ Reconcile \/ WatchEvent
  BY Zenon, <1>22, AttachUpset
<1>23. CASE DumpFails
  BY Zenon, <1>23 DEF DumpFails
<1>24. ASSUME NEW p \in Ports, StartPort(p) PROVE Connections'
  BY Zenon, <1>24 DEF StartPort
<1>25. CASE UNCHANGED vars
  BY Zenon, <1>25 DEF vars
<1> QED
  BY ZenonT(30), <1>1, <1>2, <1>3, <1>4, <1>5, <1>6, <1>7, <1>8, <1>9, <1>10, <1>11, <1>12,
       <1>13, <1>14, <1>15, <1>16, <1>17, <1>18, <1>19, <1>20, <1>21, <1>22,
       <1>23, <1>24, <1>25 DEF Next, BootStep, ManagerStep, Handler, DownStep

\* Restore holds the mutex from StartProcess to Restored.
LEMMA ProcessStep ==
    Connections /\ Process /\ [Next]_vars => Process'
<1> SUFFICES ASSUME Connections, Process, [Next]_vars PROVE Process'
  BY Zenon
<1> USE RedirectAssumption DEF Process, Connections
<1>1. ASSUME NEW c \in Conns, NEW p \in Ports, Connect(c, p) PROVE Process'
  BY Zenon, <1>1 DEF Connect, Blame
<1>2. ASSUME NEW c \in Conns, ConnHook(c) PROVE Process'
  BY Zenon, <1>2 DEF ConnHook, Goto, Ends, Blame
<1>3. ASSUME NEW c \in Conns, Peeked(c) PROVE Process'
  BY Zenon, <1>3 DEF Peeked, Goto, Ends
<1>4. ASSUME NEW c \in Conns, RegisterConnection(c) PROVE Process'
  BY Zenon, <1>4 DEF RegisterConnection, Goto, Blame
<1>5. ASSUME NEW c \in Conns, AlreadyRestored(c) PROVE Process'
  BY Zenon, <1>5 DEF AlreadyRestored, Goto
<1>6. ASSUME NEW c \in Conns, CapacityDenied(c) PROVE Process'
  BY Zenon, <1>6 DEF CapacityDenied, Goto, Blame
<1>7. ASSUME NEW c \in Conns, StartProcess(c) PROVE Process'
  BY Zenon, <1>7 DEF StartProcess, Goto
<1>8. ASSUME NEW c \in Conns, RestoreDisables(c) PROVE Process'
  BY Zenon, <1>8 DEF RestoreDisables, Goto, DisableRedirects
<1>9. ASSUME NEW c \in Conns, Restored(c) PROVE Process'
  BY Zenon, <1>9 DEF Restored, Goto, Blame
<1>10. ASSUME NEW c \in Conns, Dial(c) PROVE Process'
  BY Zenon, <1>10 DEF Dial, Goto
<1>11. ASSUME NEW c \in Conns, DialLoops(c) PROVE Process'
  BY Zenon, <1>11 DEF DialLoops, Goto, DisableRedirects, Blame
<1>12. ASSUME NEW c \in Conns, DialTimesOut(c) PROVE Process'
  BY Zenon, <1>12 DEF DialTimesOut, Goto, Ends, RemoveConnection
<1>13. ASSUME NEW c \in Conns, Proxied(c) PROVE Process'
  BY Zenon, <1>13 DEF Proxied, Goto, Ends, RemoveConnection
<1>14. ASSUME NEW c \in Conns, LoopTimesOut(c) PROVE Process'
  BY Zenon, <1>14 DEF LoopTimesOut, Goto, Ends, RemoveConnection
<1>15. CASE AppListens
  BY Zenon, <1>15 DEF AppListens
<1>16. CASE Dumped
  BY Zenon, <1>16 DEF Dumped
<1>17. CASE Killed
  BY Zenon, <1>17 DEF Killed, Blame
<1>18. CASE AttachExec \/ AttachInNetNS \/ AttachFails \/ SiblingFails \/
     MapNotFound
  BY Zenon, <1>18 DEF AttachExec, AttachInNetNS, AttachFails, SiblingFails,
       MapNotFound
<1>19. CASE LoadPinnedMaps \/ InitKubeletAddr \/ Reconcile \/ WatchEvent \/
     ScaleDown
  BY Zenon, <1>19 DEF LoadPinnedMaps, InitKubeletAddr, Reconcile, WatchEvent,
       ScaleDown
<1>20. CASE DumpFails \/ KillFails
  BY Zenon, <1>20 DEF DumpFails, KillFails
<1>21. ASSUME NEW p \in Ports, StartPort(p) PROVE Process'
  BY Zenon, <1>21 DEF StartPort
<1>22. ASSUME NEW c \in Conns, AppServes(c) \/ Stray(c) PROVE Process'
  BY Zenon, <1>22 DEF AppServes, Stray
<1>23. CASE UNCHANGED vars
  BY Zenon, <1>23 DEF vars
<1> QED
  BY Zenon, <1>1, <1>2, <1>3, <1>4, <1>5, <1>6, <1>7, <1>8, <1>9, <1>10, <1>11, <1>12,
       <1>13, <1>14, <1>15, <1>16, <1>17, <1>18, <1>19, <1>20, <1>21, <1>22,
       <1>23 DEF Next, BootStep, ManagerStep, Handler, DownStep

-----------------------------------------------------------------------------
(* The programs and their maps. *)

\* Nothing that happened is forgotten, and what is a probe stays one.
LEMMA UpsetGrows ==
    [Next]_vars => upset \subseteq upset' /\ kubelet' = kubelet
<1> SUFFICES ASSUME [Next]_vars PROVE upset \subseteq upset' /\ kubelet' =
     kubelet
  BY Zenon
<1>1. CASE AttachFails
  BY Zenon, <1>1 DEF AttachFails, Cleanup, Blame
<1>2. CASE SiblingFails
  BY Zenon, <1>2 DEF SiblingFails, Cleanup, Blame
<1>3. ASSUME NEW c \in Conns, NEW p \in Ports, Connect(c, p) PROVE upset
     \subseteq upset' /\ kubelet' = kubelet
  BY Zenon, <1>3 DEF Connect, Blame
<1>4. ASSUME NEW c \in Conns, Stray(c) PROVE upset \subseteq upset' /\
     kubelet' = kubelet
  BY Zenon, <1>4 DEF Stray, Blame
<1>5. ASSUME NEW c \in Conns, ConnHook(c) PROVE upset \subseteq upset' /\
     kubelet' = kubelet
  BY Zenon, <1>5 DEF ConnHook, Goto, Ends, Blame
<1>6. ASSUME NEW c \in Conns, Peeked(c) PROVE upset \subseteq upset' /\
     kubelet' = kubelet
  BY Zenon, <1>6 DEF Peeked
<1>7. ASSUME NEW c \in Conns, RegisterConnection(c) PROVE upset \subseteq
     upset' /\ kubelet' = kubelet
  BY Zenon, <1>7 DEF RegisterConnection, Goto, Blame
<1>8. ASSUME NEW c \in Conns, CapacityDenied(c) PROVE upset \subseteq upset'
     /\ kubelet' = kubelet
  BY Zenon, <1>8 DEF CapacityDenied, Goto, Blame
<1>9. ASSUME NEW c \in Conns, Restored(c) PROVE upset \subseteq upset' /\
     kubelet' = kubelet
  BY Zenon, <1>9 DEF Restored, Goto, Blame
<1>10. ASSUME NEW c \in Conns, DialLoops(c) PROVE upset \subseteq upset' /\
     kubelet' = kubelet
  BY Zenon, <1>10 DEF DialLoops, Goto, DisableRedirects, Blame
<1>11. ASSUME NEW c \in Conns, DialTimesOut(c) PROVE upset \subseteq upset'
     /\ kubelet' = kubelet
  BY Zenon, <1>11 DEF DialTimesOut, Goto, Ends, RemoveConnection
<1>12. ASSUME NEW c \in Conns, Proxied(c) PROVE upset \subseteq upset' /\
     kubelet' = kubelet
  BY Zenon, <1>12 DEF Proxied, Goto, Ends, RemoveConnection
<1>13. ASSUME NEW c \in Conns, LoopTimesOut(c) PROVE upset \subseteq upset'
     /\ kubelet' = kubelet
  BY Zenon, <1>13 DEF LoopTimesOut, Goto, Ends, RemoveConnection
<1>14. CASE Killed
  BY Zenon, <1>14 DEF Killed, Blame
<1>15. CASE KillFails
  BY Zenon, <1>15 DEF KillFails, Blame
<1>16. CASE AttachExec \/ MapNotFound \/ LoadPinnedMaps \/ InitKubeletAddr
     \/ AppListens \/ ScaleDown \/ Dumped \/ DumpFails
  BY Zenon, <1>16 DEF AttachExec, MapNotFound, LoadPinnedMaps,
       InitKubeletAddr, AppListens, ScaleDown, Dumped, DumpFails
<1>17. CASE AttachInNetNS \/ Reconcile \/ WatchEvent
  BY Zenon, <1>17, AttachUpset
<1>18. ASSUME NEW p \in Ports, StartPort(p) PROVE upset \subseteq upset' /\
     kubelet' = kubelet
  BY Zenon, <1>18 DEF StartPort
<1>19. ASSUME NEW c \in Conns, AppServes(c) \/ AlreadyRestored(c) \/
     StartProcess(c) \/ RestoreDisables(c) \/ Dial(c) PROVE upset \subseteq
     upset' /\ kubelet' = kubelet
  BY Zenon, <1>19 DEF AppServes, AlreadyRestored, StartProcess, RestoreDisables,
       Dial
<1>20. CASE UNCHANGED vars
  BY Zenon, <1>20 DEF vars
<1> QED
  BY Zenon, <1>1, <1>2, <1>3, <1>4, <1>5, <1>6, <1>7, <1>8, <1>9, <1>10, <1>11, <1>12,
       <1>13, <1>14, <1>15, <1>16, <1>17, <1>18, <1>19, <1>20 DEF Next,
       BootStep, ManagerStep, Handler, DownStep

\* What all events of the queue are, the rest of it is.
LEMMA TailAll ==
    ASSUME NEW S, NEW q \in Seq(S), q # <<>>, NEW x,
           \A i \in 1 .. Len(q) : q[i] = x
    PROVE  \A i \in 1 .. Len(Tail(q)) : Tail(q)[i] = x
  OBVIOUS

\* The manager does not touch a sandbox that the shim manages, and what is left
\* of one that was cleaned up are file events that change nothing.
LEMMA AttachedStep ==
    Flags /\ Programs /\ Attached /\ [Next]_vars => Attached'
<1> SUFFICES ASSUME Flags, Programs, Attached, [Next]_vars PROVE Attached'
  BY Zenon
<1> USE UpsetGrows DEF Flags, Programs, Attached
<1>1. CASE AttachExec
  BY Zenon, <1>1 DEF AttachExec, InitBPF
<1>2. CASE AttachInNetNS
  BY Zenon, <1>2 DEF AttachInNetNS, Misses, Blame
<1>3. CASE AttachFails
  BY Zenon, <1>3 DEF AttachFails, Cleanup, Blame
<1>4. CASE SiblingFails
  BY <1>4 DEF SiblingFails, Cleanup, Blame
<1>5. CASE MapNotFound
  BY Zenon, <1>5 DEF MapNotFound
<1>6. CASE LoadPinnedMaps
  BY Zenon, <1>6 DEF LoadPinnedMaps, DisableRedirects
<1>7. ASSUME NEW p \in Ports, StartPort(p) PROVE Attached'
  BY Zenon, <1>7 DEF StartPort, Reset
<1>8. CASE Reconcile
  BY Zenon, <1>8 DEF Reconcile, ManagerAttach, TCXPinned
<1>9. CASE WatchEvent
  <2>1. CASE UNCHANGED <<marker, pinned, links, bound>> /\ events' = Tail(events)
    BY <1>9, <2>1 DEF WatchEvent
  <2>2. CASE "programs" \in upset \/ boot = "off"
    BY Zenon, <1>9, <2>2 DEF WatchEvent
  <2>3. CASE "programs" \notin upset /\ boot # "off" /\ ~marker
    <3>1. Head(events) = "remove"
      BY <1>9, <2>3 DEF WatchEvent
    <3> QED
      <4>1. \/ UNCHANGED <<marker, pinned, links, bound>>
            \/ Cleanup
        BY Zenon, <1>9, <3>1 DEF WatchEvent
      <4>2. events' = Tail(events) /\ UNCHANGED <<boot, upset>>
        BY Zenon, <1>9, <3>1 DEF WatchEvent
      <4>3. boot \in {"attach", "start"} /\ ~pinned
        BY Zenon, <2>3 DEF BootLabels
      <4>4. ~marker' /\ ~pinned'
        BY <2>3, <4>1, <4>3 DEF Cleanup
      <4>5. \A i \in 1 .. Len(events') : events'[i] = "remove"
        <5>1. /\ events \in Seq({"create", "remove"}) /\ events # <<>>
              /\ \A i \in 1 .. Len(events) : events[i] = "remove"
          BY Zenon, <1>9, <2>3 DEF WatchEvent
        <5> QED
          BY Zenon, <4>2, <5>1, TailAll
      <4> QED
        BY Zenon, <4>2, <4>3, <4>4, <4>5
  <2>4. CASE marker
    BY Zenon, <1>9, <2>1, <2>4 DEF WatchEvent
  <2> QED
    BY Zenon, <2>2, <2>3, <2>4
<1>10. CASE InitKubeletAddr \/ AppListens \/ ScaleDown \/ Dumped \/ DumpFails
     \/ Killed
  BY Zenon, <1>10 DEF InitKubeletAddr, AppListens, ScaleDown, Dumped, DumpFails,
       Killed
<1>11. CASE KillFails
  BY Zenon, <1>11 DEF KillFails
<1>12. ASSUME NEW c \in Conns, NEW p \in Ports, Connect(c, p) PROVE Attached'
  BY Zenon, <1>12 DEF Connect
<1>13. ASSUME NEW c \in Conns, AppServes(c) \/ Stray(c) \/ ConnHook(c) \/
     Peeked(c) \/ RegisterConnection(c) \/ AlreadyRestored(c) \/ CapacityDenied(c) PROVE
     Attached'
  BY Zenon, <1>13 DEF AppServes, Stray, ConnHook, Peeked, RegisterConnection,
       AlreadyRestored, CapacityDenied
<1>14. ASSUME NEW c \in Conns, StartProcess(c) \/ RestoreDisables(c) \/
     Restored(c) \/ Dial(c) \/ DialLoops(c) \/ DialTimesOut(c) PROVE
     Attached'
  BY Zenon, <1>14 DEF StartProcess, RestoreDisables, Restored, Dial, DialLoops,
       DialTimesOut
<1>15. ASSUME NEW c \in Conns, Proxied(c) \/ LoopTimesOut(c) PROVE Attached'
  BY Zenon, <1>15 DEF Proxied, LoopTimesOut
<1>16. CASE UNCHANGED vars
  BY Zenon, <1>16 DEF vars
<1> QED
  BY Zenon, <1>1, <1>2, <1>3, <1>4, <1>5, <1>6, <1>7, <1>8, <1>9, <1>10, <1>11,
       <1>12, <1>13, <1>14, <1>15, <1>16 DEF Next, BootStep, ManagerStep,
       Handler, DownStep

\* A connection is proxied only when all ports have a proxy: until then they
\* are disabled, and there is no active connection.
LEMMA StartedStep ==
    Typed /\ Attached /\ Entries /\ Started /\ [Next]_vars => Started'
<1> SUFFICES ASSUME Typed, Attached, Entries, Started, [Next]_vars PROVE
     Started'
  BY Zenon
<1> USE UpsetGrows DEF Typed, Flags, Programs, Maps, Connections, Started
<1>1. CASE AttachExec
  BY Zenon, <1>1 DEF AttachExec, InitBPF
<1>2. CASE AttachInNetNS
  BY Zenon, <1>2 DEF AttachInNetNS
<1>3. CASE AttachFails
  BY Zenon, <1>3 DEF AttachFails, Cleanup, Blame
<1>4. CASE SiblingFails
  BY Zenon, <1>4 DEF SiblingFails, Cleanup, Blame, Quiet
<1>5. CASE MapNotFound
  BY Zenon, <1>5 DEF MapNotFound
<1>6. CASE LoadPinnedMaps
  BY Zenon, <1>6 DEF LoadPinnedMaps, DisableRedirects
<1>7. ASSUME NEW p \in Ports, StartPort(p) PROVE Started'
  BY Zenon, <1>7 DEF StartPort, Reset
<1>8. CASE Reconcile
  BY Zenon, <1>8 DEF Reconcile, ManagerAttach
<1>9. CASE WatchEvent
  <2>1. bound' = bound \/ ~bound'
    BY Zenon, <1>9 DEF WatchEvent, ManagerAttach, ManagerAttachFails, Cleanup
  <2>2. UNCHANGED <<boot, redirects, disabled, pc>>
    BY Zenon, <1>9 DEF WatchEvent
  <2>3. CASE bound' = bound
    BY Zenon, <2>2, <2>3
  <2>4. CASE ~bound'
    BY Zenon, <2>2, <2>4
  <2> QED
    BY Zenon, <2>1, <2>3, <2>4
<1>10. ASSUME NEW c \in Conns, NEW p \in Ports, Connect(c, p) PROVE Started'
  <2>1. CASE ~IngressRedirect(from[c], p)
    BY Zenon, <1>10, <2>1 DEF Connect
  <2>2. CASE IngressRedirect(from[c], p)
    <3>1. boot = "on"
      <4>1. bound /\ (p \in disabled => from[c] \in active)
        BY Zenon, <2>2 DEF IngressRedirect
      <4>2. CASE boot = "listen"
        <5>1. from[c] \in active
          BY Zenon, <4>1, <4>2
        <5> QED
          BY Zenon, <4>2, <5>1 DEF Entries, Registered
      <4> QED
        BY Zenon, <4>1, <4>2
    <3>2. "programs" \notin upset => "eth0" \in AttachRedirector({})
      BY Zenon, <2>2, <3>1 DEF IngressRedirect, Attached
    <3> QED
      BY Zenon, <1>10, <3>1, <3>2 DEF Connect
  <2> QED
    BY Zenon, <2>1, <2>2
<1>11. ASSUME NEW c \in Conns, ConnHook(c) PROVE Started'
  BY Zenon, <1>11 DEF ConnHook, Goto, Ends, Blame
<1>12. ASSUME NEW c \in Conns, Peeked(c) PROVE Started'
  BY Zenon, <1>12 DEF Peeked, Goto, Ends
<1>13. ASSUME NEW c \in Conns, RegisterConnection(c) PROVE Started'
  BY Zenon, <1>13 DEF RegisterConnection, Goto, Blame
<1>14. ASSUME NEW c \in Conns, AlreadyRestored(c) PROVE Started'
  BY Zenon, <1>14 DEF AlreadyRestored, Goto
<1>15. ASSUME NEW c \in Conns, CapacityDenied(c) PROVE Started'
  BY Zenon, <1>15 DEF CapacityDenied, Goto, Blame
<1>16. ASSUME NEW c \in Conns, StartProcess(c) PROVE Started'
  BY Zenon, <1>16 DEF StartProcess, Goto
<1>17. ASSUME NEW c \in Conns, RestoreDisables(c) PROVE Started'
  BY Zenon, <1>17 DEF RestoreDisables, Goto, DisableRedirects
<1>18. ASSUME NEW c \in Conns, Restored(c) PROVE Started'
  BY Zenon, <1>18 DEF Restored, Goto, Blame
<1>19. ASSUME NEW c \in Conns, Dial(c) PROVE Started'
  BY Zenon, <1>19 DEF Dial, Goto
<1>20. ASSUME NEW c \in Conns, DialLoops(c) PROVE Started'
  BY Zenon, <1>20 DEF DialLoops, Goto, DisableRedirects, Blame
<1>21. ASSUME NEW c \in Conns, DialTimesOut(c) PROVE Started'
  BY Zenon, <1>21 DEF DialTimesOut, Goto, Ends, RemoveConnection
<1>22. ASSUME NEW c \in Conns, Proxied(c) PROVE Started'
  BY Zenon, <1>22 DEF Proxied, Goto, Ends, RemoveConnection
<1>23. ASSUME NEW c \in Conns, LoopTimesOut(c) PROVE Started'
  BY Zenon, <1>23 DEF LoopTimesOut, Goto, Ends, RemoveConnection
<1>24. CASE ScaleDown
  BY Zenon, <1>24 DEF ScaleDown, Reset
<1>25. CASE DumpFails
  BY Zenon, <1>25 DEF DumpFails, DisableRedirects, LeavesRedirects
<1>26. CASE InitKubeletAddr \/ AppListens \/ Dumped \/ Killed \/ KillFails
  <2>1. UNCHANGED <<boot, bound, redirects, disabled, pc>>
    BY Zenon, <1>26 DEF InitKubeletAddr, AppListens, Dumped, Killed, KillFails,
         LeavesRedirects
  <2> QED
    BY Zenon, <2>1
<1>27. ASSUME NEW c \in Conns, AppServes(c) \/ Stray(c) PROVE Started'
  BY <1>27 DEF AppServes, Stray
<1>28. CASE UNCHANGED vars
  BY Zenon, <1>28 DEF vars
<1> QED
  BY ZenonT(30), <1>1, <1>2, <1>3, <1>4, <1>5, <1>6, <1>7, <1>8, <1>9, <1>10, <1>11, <1>12,
       <1>13, <1>14, <1>15, <1>16, <1>17, <1>18, <1>19, <1>20, <1>21, <1>22,
       <1>23, <1>24, <1>25, <1>26, <1>27, <1>28 DEF Next, BootStep,
       ManagerStep, Handler, DownStep

\* The steps at which handleConnection returns and its deferred calls run.
HandlerEnds(c) ==
    DialTimesOut(c) \/ Proxied(c) \/ LoopTimesOut(c)

\* removeConnection takes the entry of the handler away, and with it that of
\* another connection with the same source port.
LEMMA HandlerEndsEffect ==
    ASSUME Connections, NEW c \in Conns, HandlerEnds(c)
    PROVE  /\ pc[c] \in {"dial", "proxy"} /\ pc' = [pc EXCEPT ![c] = "idle"]
           /\ Registered' = Registered \ {c} /\ from' = from
           /\ active' = active \ {from[c]}
           /\ \A d \in Registered \ {c} :
                 from[d] = from[c] => "entry" \in upset'
  BY Zenon DEF HandlerEnds, DialTimesOut, Proxied, LoopTimesOut, Goto,
         RemoveConnection, Registered, Connections

\* A handler has its entry until it ends, unless one is pushed out or removed
\* by another.
LEMMA EntriesStep ==
    Typed /\ Started /\ Entries /\ [Next]_vars => Entries'
<1> SUFFICES ASSUME Typed, Started, Entries, [Next]_vars PROVE Entries'
  BY Zenon
<1> USE UpsetGrows DEF Typed, Maps, Connections, Entries
<1>1. CASE LoadPinnedMaps
  BY Zenon, <1>1 DEF LoadPinnedMaps, DisableRedirects, Started, Registered
<1>2. ASSUME NEW c \in Conns, NEW p \in Ports, Connect(c, p) PROVE Entries'
  BY Zenon, <1>2 DEF Connect, Blame, Registered
<1>3. ASSUME NEW c \in Conns, ConnHook(c) PROVE Entries'
  BY <1>3 DEF ConnHook, Goto, Ends, Blame, Registered
<1>4. ASSUME NEW c \in Conns, Peeked(c) PROVE Entries'
  <2>1. UNCHANGED <<from, active, upset>>
    BY Zenon, <1>4 DEF Peeked
  <2>2. Registered' = Registered
    BY Zenon, <1>4 DEF Peeked, Goto, Registered
  <2> QED
    BY Zenon, <2>1, <2>2
<1>5. ASSUME NEW c \in Conns, RegisterConnection(c) PROVE Entries'
  <2>1. Registered' = Registered \cup {c} /\ from' = from
    BY Zenon, <1>5 DEF RegisterConnection, Goto, Registered
  <2>2. CASE active' = active \cup {from[c]}
    BY Zenon, <2>1, <2>2
  <2>3. ASSUME NEW s \in active, active' = (active \ {s}) \cup {from[c]},
               "entry" \in upset'
        PROVE  Entries'
    BY Zenon, <2>1, <2>3
  <2> QED
    BY Zenon, <1>5, <2>2, <2>3 DEF RegisterConnection, Blame
<1>6. ASSUME NEW c \in Conns, AlreadyRestored(c) PROVE Entries'
  BY Zenon, <1>6 DEF AlreadyRestored, Goto, Registered
<1>7. ASSUME NEW c \in Conns, CapacityDenied(c) PROVE Entries'
  BY Zenon, <1>7 DEF CapacityDenied, Goto, Blame, Registered
<1>8. ASSUME NEW c \in Conns, StartProcess(c) PROVE Entries'
  BY Zenon, <1>8 DEF StartProcess, Goto, Registered
<1>9. ASSUME NEW c \in Conns, RestoreDisables(c) PROVE Entries'
  BY Zenon, <1>9 DEF RestoreDisables, Goto, DisableRedirects, Registered
<1>10. ASSUME NEW c \in Conns, Restored(c) PROVE Entries'
  BY Zenon, <1>10 DEF Restored, Goto, Blame, Registered
<1>11. ASSUME NEW c \in Conns, Dial(c) PROVE Entries'
  BY Zenon, <1>11 DEF Dial, Goto, Registered
<1>12. ASSUME NEW c \in Conns, DialLoops(c) PROVE Entries'
  BY Zenon, <1>12 DEF DialLoops, Goto, DisableRedirects, Blame, Registered
<1>13. ASSUME NEW c \in Conns, DialTimesOut(c) PROVE Entries'
  <2> HandlerEnds(c)
    BY Zenon, <1>13 DEF HandlerEnds
  <2> QED
    BY HandlerEndsEffect
<1>14. ASSUME NEW c \in Conns, Proxied(c) PROVE Entries'
  <2> HandlerEnds(c)
    BY Zenon, <1>14 DEF HandlerEnds
  <2> QED
    BY HandlerEndsEffect
<1>15. ASSUME NEW c \in Conns, LoopTimesOut(c) PROVE Entries'
  <2> HandlerEnds(c)
    BY Zenon, <1>15 DEF HandlerEnds
  <2> QED
    BY HandlerEndsEffect
<1>16. CASE AttachExec \/ AttachInNetNS \/ AttachFails \/ SiblingFails \/
     MapNotFound
  BY Zenon, <1>16 DEF AttachExec, AttachInNetNS, AttachFails, SiblingFails,
       MapNotFound, Registered
<1>17. CASE InitKubeletAddr \/ Reconcile \/ WatchEvent \/ AppListens \/
     ScaleDown
  BY Zenon, <1>17 DEF InitKubeletAddr, Reconcile, WatchEvent, AppListens, ScaleDown,
       Registered
<1>18. CASE Dumped \/ DumpFails \/ Killed \/ KillFails
  BY Zenon, <1>18 DEF Dumped, DumpFails, Killed, KillFails, Registered
<1>19. ASSUME NEW p \in Ports, StartPort(p) PROVE Entries'
  BY Zenon, <1>19 DEF StartPort, Registered
<1>20. ASSUME NEW c \in Conns, AppServes(c) \/ Stray(c) PROVE Entries'
  BY <1>20 DEF AppServes, Stray, Registered
<1>21. CASE UNCHANGED vars
  BY Zenon, <1>21 DEF vars, Registered
<1> QED
  BY ZenonT(30), <1>1, <1>2, <1>3, <1>4, <1>5, <1>6, <1>7, <1>8, <1>9, <1>10, <1>11, <1>12,
       <1>13, <1>14, <1>15, <1>16, <1>17, <1>18, <1>19, <1>20, <1>21 DEF
       Next, BootStep, ManagerStep, Handler, DownStep

-----------------------------------------------------------------------------
(* Restore and scale-down. *)

\* The timer is stopped by its callback and started when a Restore or a failed
\* callback ends.
LEMMA ScalingStep ==
    Typed /\ Started /\ Scaling /\ [Next]_vars => Scaling'
<1> SUFFICES ASSUME Typed, Started, Scaling, [Next]_vars PROVE Scaling'
  BY Zenon
<1> USE RedirectAssumption DEF Typed, Flags, Process, Scaling
<1>1. CASE AttachExec
  BY Zenon, <1>1 DEF AttachExec, InitBPF
<1>2. CASE AttachInNetNS
  BY Zenon, <1>2 DEF AttachInNetNS
<1>3. CASE AttachFails
  BY Zenon, <1>3 DEF AttachFails, Cleanup, Blame
<1>4. CASE MapNotFound
  BY Zenon, <1>4 DEF MapNotFound
<1>5. CASE LoadPinnedMaps
  BY Zenon, <1>5 DEF LoadPinnedMaps, DisableRedirects
<1>6. ASSUME NEW p \in Ports, StartPort(p) PROVE Scaling'
  BY Zenon, <1>6 DEF StartPort, Reset
<1>7. ASSUME NEW c \in Conns, StartProcess(c) PROVE Scaling'
  BY Zenon, <1>7, Started DEF StartProcess, Goto
<1>8. ASSUME NEW c \in Conns, Restored(c) PROVE Scaling'
  BY Zenon, <1>8 DEF Restored, Goto, Blame
<1>9. CASE AppListens
  BY Zenon, <1>9 DEF AppListens
<1>10. CASE ScaleDown
  <2>1. UNCHANGED <<boot, lock, scaledDown, app>>
    BY Zenon, <1>10 DEF ScaleDown
  <2>2. lock = NoThread /\ ~scaledDown /\ boot = "on"
    BY Zenon, <1>10 DEF ScaleDown
  <2>3. CASE down' = TRUE /\ timer' = FALSE
    BY Zenon, <2>1, <2>2, <2>3
  <2>4. CASE UNCHANGED <<down, timer>>
    BY Zenon, <2>1, <2>2, <2>4
  <2> QED
    BY Zenon, <1>10, <2>3, <2>4 DEF ScaleDown
<1>11. CASE Dumped
  BY Zenon, <1>11 DEF Dumped
<1>12. CASE DumpFails
  BY Zenon, <1>12 DEF DumpFails, DisableRedirects
<1>13. CASE Killed
  BY Zenon, <1>13 DEF Killed, Blame
<1>14. CASE KillFails
  BY Zenon, <1>14 DEF KillFails, Blame
<1>15. CASE SiblingFails \/ InitKubeletAddr \/ Reconcile \/ WatchEvent
  <2>1. UNCHANGED <<boot, timer, down, lock, scaledDown, app>>
    BY Zenon, <1>15 DEF SiblingFails, InitKubeletAddr, Reconcile, WatchEvent
  <2> QED
    BY Zenon, <2>1
<1>16. ASSUME NEW c \in Conns, NEW p \in Ports, Connect(c, p) PROVE Scaling'
  <2>1. UNCHANGED <<boot, timer, down, lock, scaledDown, app>>
    BY Zenon, <1>16 DEF Connect
  <2> QED
    BY Zenon, <2>1
<1>17. ASSUME NEW c \in Conns, AppServes(c) \/ Stray(c) \/ ConnHook(c) \/
     Peeked(c) \/ RegisterConnection(c) \/ AlreadyRestored(c) PROVE Scaling'
  <2>1. UNCHANGED <<boot, timer, down, lock, scaledDown, app>>
    BY Zenon, <1>17 DEF AppServes, Stray, ConnHook, Peeked, RegisterConnection,
         AlreadyRestored
  <2> QED
    BY Zenon, <2>1
<1>18. ASSUME NEW c \in Conns, CapacityDenied(c) \/ RestoreDisables(c) \/
     Dial(c) \/ DialLoops(c) \/ DialTimesOut(c) PROVE Scaling'
  <2>1. UNCHANGED <<boot, timer, down, lock, scaledDown, app>>
    BY Zenon, <1>18 DEF CapacityDenied, RestoreDisables, Dial, DialLoops,
         DialTimesOut
  <2> QED
    BY Zenon, <2>1
<1>19. ASSUME NEW c \in Conns, Proxied(c) \/ LoopTimesOut(c) PROVE Scaling'
  <2>1. UNCHANGED <<boot, timer, down, lock, scaledDown, app>>
    BY Zenon, <1>19 DEF Proxied, LoopTimesOut
  <2> QED
    BY Zenon, <2>1
<1>20. CASE UNCHANGED vars
  BY Zenon, <1>20 DEF vars
<1> QED
  BY ZenonT(30), <1>1, <1>2, <1>3, <1>4, <1>5, <1>6, <1>7, <1>8, <1>9, <1>10, <1>11,
       <1>12, <1>13, <1>14, <1>15, <1>16, <1>17, <1>18, <1>19, <1>20 DEF
       Next, BootStep, ManagerStep, Handler, DownStep

\* Only a Restore disables the redirects of a container that is scaled down or
\* about to be, or a handler that finds itself in a loop.
LEMMA EnabledStep ==
    Typed /\ Started /\ Scaling /\ Enabled /\ [Next]_vars => Enabled'
<1> SUFFICES ASSUME Typed, Started, Scaling, Enabled, [Next]_vars PROVE
     Enabled'
  BY Zenon
<1> USE UpsetGrows DEF Enabled, Scaling
<1>1. CASE AttachExec
  BY Zenon, <1>1 DEF AttachExec, InitBPF
<1>2. CASE AttachInNetNS
  BY Zenon, <1>2 DEF AttachInNetNS
<1>3. CASE AttachFails
  BY Zenon, <1>3 DEF AttachFails, Cleanup, Blame
<1>4. CASE MapNotFound
  BY Zenon, <1>4 DEF MapNotFound
<1>5. CASE LoadPinnedMaps
  BY Zenon, <1>5 DEF LoadPinnedMaps, DisableRedirects
<1>6. ASSUME NEW p \in Ports, StartPort(p) PROVE Enabled'
  BY Zenon, <1>6 DEF StartPort, Reset, Started
<1>7. ASSUME NEW c \in Conns, StartProcess(c) PROVE Enabled'
  BY Zenon, <1>7 DEF StartProcess, Goto, Typed, Process, Flags
<1>8. ASSUME NEW c \in Conns, RestoreDisables(c) PROVE Enabled'
  BY Zenon, <1>8, RedirectAssumption DEF RestoreDisables, Goto, DisableRedirects,
       Typed, Process
<1>9. ASSUME NEW c \in Conns, DialLoops(c) PROVE Enabled'
  BY Zenon, <1>9 DEF DialLoops, Goto, DisableRedirects, Blame
<1>10. CASE ScaleDown
  BY Zenon, <1>10 DEF ScaleDown, Reset
<1>11. CASE Dumped
  BY Zenon, <1>11 DEF Dumped
<1>12. CASE DumpFails
  BY Zenon, <1>12 DEF DumpFails, DisableRedirects
<1>13. CASE Killed
  BY Zenon, <1>13 DEF Killed, Blame
<1>14. CASE KillFails
  BY Zenon, <1>14 DEF KillFails, Blame
<1>15. CASE SiblingFails \/ InitKubeletAddr \/ Reconcile \/ WatchEvent \/
     AppListens
  BY Zenon, <1>15 DEF SiblingFails, InitKubeletAddr, Reconcile, WatchEvent,
       AppListens
<1>16. ASSUME NEW c \in Conns, NEW p \in Ports, Connect(c, p) PROVE Enabled'
  BY Zenon, <1>16 DEF Connect
<1>17. ASSUME NEW c \in Conns, AppServes(c) \/ Stray(c) \/ ConnHook(c) \/
     Peeked(c) \/ RegisterConnection(c) \/ AlreadyRestored(c) PROVE Enabled'
  BY Zenon, <1>17 DEF AppServes, Stray, ConnHook, Peeked, RegisterConnection,
       AlreadyRestored
<1>18. ASSUME NEW c \in Conns, CapacityDenied(c) \/ Restored(c) \/ Dial(c) \/
     DialTimesOut(c) \/ Proxied(c) PROVE Enabled'
  BY Zenon, <1>18 DEF CapacityDenied, Restored, Dial, DialTimesOut, Proxied
<1>19. ASSUME NEW c \in Conns, LoopTimesOut(c) PROVE Enabled'
  BY Zenon, <1>19 DEF LoopTimesOut
<1>20. CASE UNCHANGED vars
  BY Zenon, <1>20 DEF vars
<1> QED
  BY ZenonT(30), <1>1, <1>2, <1>3, <1>4, <1>5, <1>6, <1>7, <1>8, <1>9, <1>10, <1>11,
       <1>12, <1>13, <1>14, <1>15, <1>16, <1>17, <1>18, <1>19, <1>20 DEF
       Next, BootStep, ManagerStep, Handler, DownStep

\* A Restore disables the redirects of a container that runs, and so does a
\* callback that could not dump it.
LEMMA DisabledStep ==
    Typed /\ Started /\ Scaling /\ Disabled /\ [Next]_vars => Disabled'
<1> SUFFICES ASSUME Typed, Started, Scaling, Disabled, [Next]_vars PROVE
     Disabled'
  BY Zenon
<1> USE UpsetGrows DEF Disabled
<1>1. CASE AttachExec
  BY Zenon, <1>1 DEF AttachExec, InitBPF, Typed, Connections
<1>2. CASE AttachInNetNS
  BY Zenon, <1>2 DEF AttachInNetNS, Typed, Connections
<1>3. CASE AttachFails
  BY Zenon, <1>3 DEF AttachFails, Cleanup, Blame, Typed, Connections
<1>4. CASE MapNotFound
  BY Zenon, <1>4 DEF MapNotFound, Typed, Connections
<1>5. CASE LoadPinnedMaps
  BY Zenon, <1>5 DEF LoadPinnedMaps, DisableRedirects, Typed, Connections
<1>6. ASSUME NEW p \in Ports, StartPort(p) PROVE Disabled'
  BY Zenon, <1>6 DEF StartPort, Reset, Started, Scaling, Typed, Connections
<1>7. ASSUME NEW c \in Conns, NEW p \in Ports, Connect(c, p) PROVE Disabled'
  BY Zenon, <1>7 DEF Connect, Blame, Typed, Connections
<1>8. ASSUME NEW c \in Conns, ConnHook(c) PROVE Disabled'
  BY Zenon, <1>8 DEF ConnHook, Goto, Ends, Blame, Typed, Connections
<1>9. ASSUME NEW c \in Conns, Peeked(c) PROVE Disabled'
  BY Zenon, <1>9 DEF Peeked, Goto, Ends, Typed, Connections
<1>10. ASSUME NEW c \in Conns, RegisterConnection(c) PROVE Disabled'
  BY Zenon, <1>10 DEF RegisterConnection, Goto, Blame, Typed, Connections
<1>11. ASSUME NEW c \in Conns, AlreadyRestored(c) PROVE Disabled'
  BY Zenon, <1>11 DEF AlreadyRestored, Goto, Typed, Connections
<1>12. ASSUME NEW c \in Conns, CapacityDenied(c) PROVE Disabled'
  BY Zenon, <1>12 DEF CapacityDenied, Goto, Blame, Typed, Connections
<1>13. ASSUME NEW c \in Conns, StartProcess(c) PROVE Disabled'
  BY Zenon, <1>13 DEF StartProcess, Goto, Typed, Connections
<1>14. ASSUME NEW c \in Conns, RestoreDisables(c) PROVE Disabled'
  BY Zenon, <1>14 DEF RestoreDisables, Goto, DisableRedirects, Typed, Connections
<1>15. ASSUME NEW c \in Conns, Restored(c) PROVE Disabled'
  BY Zenon, <1>15 DEF Restored, Goto, Blame, Typed, Connections
<1>16. ASSUME NEW c \in Conns, Dial(c) PROVE Disabled'
  BY Zenon, <1>16 DEF Dial, Goto, Typed, Connections
<1>17. ASSUME NEW c \in Conns, DialLoops(c) PROVE Disabled'
  <2>1. UNCHANGED <<boot, scaledDown, down>> /\ Goto(c, "restore")
    BY Zenon, <1>17 DEF DialLoops
  <2>2. CASE DisableRedirects
    BY Zenon, <2>2 DEF DisableRedirects
  <2>3. CASE UNCHANGED <<disabled, left>>
    <3>1. (\A d \in Conns : pc'[d] # "disable") =>
             \A d \in Conns : pc[d] # "disable"
      BY Zenon, <1>17, <2>1 DEF DialLoops, Goto, Typed, Connections
    <3> QED
      BY Zenon, <2>1, <2>3, <3>1
  <2> QED
    BY Zenon, <1>17, <2>2, <2>3 DEF DialLoops
<1>18. ASSUME NEW c \in Conns, DialTimesOut(c) PROVE Disabled'
  BY Zenon, <1>18 DEF DialTimesOut, Goto, Ends, RemoveConnection, Typed, Connections
<1>19. ASSUME NEW c \in Conns, Proxied(c) PROVE Disabled'
  BY Zenon, <1>19 DEF Proxied, Goto, Ends, RemoveConnection, Typed, Connections
<1>20. ASSUME NEW c \in Conns, LoopTimesOut(c) PROVE Disabled'
  BY Zenon, <1>20 DEF LoopTimesOut, Goto, Ends, RemoveConnection, Typed, Connections
<1>21. CASE ScaleDown
  BY Zenon, <1>21 DEF ScaleDown, Reset, Typed, Connections
<1>22. CASE Dumped
  BY Zenon, <1>22 DEF Dumped, Typed, Connections
<1>23. CASE DumpFails
  BY Zenon, <1>23 DEF DumpFails, DisableRedirects, LeavesRedirects, Typed,
       Connections
<1>24. CASE Killed
  BY Zenon, <1>24 DEF Killed, Blame, Typed, Connections
<1>25. CASE KillFails
  BY Zenon, <1>25 DEF KillFails, LeavesRedirects
<1>26. CASE SiblingFails \/ InitKubeletAddr \/ Reconcile \/ WatchEvent \/
     AppListens
  BY Zenon, <1>26 DEF SiblingFails, InitKubeletAddr, Reconcile, WatchEvent,
       AppListens, Typed, Connections
<1>27. ASSUME NEW c \in Conns, AppServes(c) \/ Stray(c) PROVE Disabled'
  BY Zenon, <1>27 DEF AppServes, Stray, Typed, Connections
<1>28. CASE UNCHANGED vars
  BY Zenon, <1>28 DEF vars, Typed, Connections
<1> QED
  BY ZenonT(30), <1>1, <1>2, <1>3, <1>4, <1>5, <1>6, <1>7, <1>8, <1>9, <1>10, <1>11, <1>12,
       <1>13, <1>14, <1>15, <1>16, <1>17, <1>18, <1>19, <1>20, <1>21, <1>22,
       <1>23, <1>24, <1>25, <1>26, <1>27, <1>28 DEF Next, BootStep,
       ManagerStep, Handler, DownStep

-----------------------------------------------------------------------------
(* The connections. *)

\* A connection at the proxy has a handler, one at the application is connected
\* to a process that runs; and what is woken is woken for a client.
LEMMA ClientsStep ==
    Typed /\ Scaling /\ Clients /\ [Next]_vars => Clients'
<1> SUFFICES ASSUME Typed, Scaling, Clients, [Next]_vars PROVE Clients'
  BY Zenon
<1> USE UpsetGrows DEF Typed, Flags, Connections, Clients
<1>1. CASE AttachExec
  BY Zenon, <1>1 DEF AttachExec, InitBPF
<1>2. CASE AttachInNetNS
  BY Zenon, <1>2 DEF AttachInNetNS
<1>3. CASE AttachFails
  BY Zenon, <1>3 DEF AttachFails, Cleanup, Blame
<1>4. CASE MapNotFound
  BY Zenon, <1>4 DEF MapNotFound
<1>5. CASE LoadPinnedMaps
  BY Zenon, <1>5 DEF LoadPinnedMaps, DisableRedirects
<1>6. ASSUME NEW p \in Ports, StartPort(p) PROVE Clients'
  BY Zenon, <1>6 DEF StartPort, Reset
<1>7. ASSUME NEW c \in Conns, NEW p \in Ports, Connect(c, p) PROVE Clients'
  BY Zenon, <1>7 DEF Connect, Blame
<1>8. ASSUME NEW c \in Conns, AppServes(c) PROVE Clients'
  BY Zenon, <1>8 DEF AppServes
<1>9. ASSUME NEW c \in Conns, Stray(c) PROVE Clients'
  BY Zenon, <1>9 DEF Stray, Blame
<1>10. ASSUME NEW c \in Conns, ConnHook(c) PROVE Clients'
  BY Zenon, <1>10 DEF ConnHook, Goto, Ends, Blame
<1>11. ASSUME NEW c \in Conns, Peeked(c) PROVE Clients'
  BY Zenon, <1>11 DEF Peeked, Goto, Ends
<1>12. ASSUME NEW c \in Conns, RegisterConnection(c) PROVE Clients'
  BY Zenon, <1>12 DEF RegisterConnection, Goto, Blame
<1>13. ASSUME NEW c \in Conns, AlreadyRestored(c) PROVE Clients'
  BY Zenon, <1>13 DEF AlreadyRestored, Goto
<1>14. ASSUME NEW c \in Conns, CapacityDenied(c) PROVE Clients'
  BY Zenon, <1>14 DEF CapacityDenied, Goto, Blame
<1>15. ASSUME NEW c \in Conns, StartProcess(c) PROVE Clients'
  BY Zenon, <1>15 DEF StartProcess, Goto, Scaling
<1>16. ASSUME NEW c \in Conns, RestoreDisables(c) PROVE Clients'
  BY Zenon, <1>16 DEF RestoreDisables, Goto, DisableRedirects
<1>17. ASSUME NEW c \in Conns, Restored(c) PROVE Clients'
  BY Zenon, <1>17 DEF Restored, Goto, Blame
<1>18. ASSUME NEW c \in Conns, Dial(c) PROVE Clients'
  BY Zenon, <1>18 DEF Dial, Goto
<1>19. ASSUME NEW c \in Conns, DialLoops(c) PROVE Clients'
  BY Zenon, <1>19 DEF DialLoops, Goto, DisableRedirects, Blame
<1>20. ASSUME NEW c \in Conns, DialTimesOut(c) PROVE Clients'
  BY Zenon, <1>20 DEF DialTimesOut, Goto, Ends, RemoveConnection
<1>21. ASSUME NEW c \in Conns, Proxied(c) PROVE Clients'
  BY Zenon, <1>21 DEF Proxied, Goto, Ends, RemoveConnection
<1>22. ASSUME NEW c \in Conns, LoopTimesOut(c) PROVE Clients'
  BY Zenon, <1>22 DEF LoopTimesOut, Goto, Ends, RemoveConnection
<1>23. CASE AppListens
  BY Zenon, <1>23 DEF AppListens
<1>24. CASE Dumped
  BY Zenon, <1>24 DEF Dumped, Established, Process
<1>25. CASE Killed
  BY Zenon, <1>25 DEF Killed, Blame, Established
<1>26. CASE KillFails
  BY ZenonT(30), <1>26 DEF KillFails, Blame
<1>27. CASE SiblingFails \/ InitKubeletAddr \/ Reconcile \/ WatchEvent \/
     ScaleDown
  BY Zenon, <1>27 DEF SiblingFails, InitKubeletAddr, Reconcile, WatchEvent,
       ScaleDown
<1>28. CASE DumpFails
  BY Zenon, <1>28 DEF DumpFails
<1>29. CASE UNCHANGED vars
  BY Zenon, <1>29 DEF vars
<1> QED
  BY ZenonT(30), <1>1, <1>2, <1>3, <1>4, <1>5, <1>6, <1>7, <1>8, <1>9, <1>10, <1>11, <1>12,
       <1>13, <1>14, <1>15, <1>16, <1>17, <1>18, <1>19, <1>20, <1>21, <1>22,
       <1>23, <1>24, <1>25, <1>26, <1>27, <1>28, <1>29 DEF Next, BootStep,
       ManagerStep, Handler, DownStep

-----------------------------------------------------------------------------
(* What happens to a connection. *)

\* The packets of a registered connection go to its proxy.
LEMMA Redirected ==
    ASSUME IInv, upset \cap {"entry", "programs"} = {}, NEW c \in Registered
    PROVE  IngressRedirect(from[c], dst[c])
<1>1. c \in Conns /\ pc[c] # "idle"
  BY Zenon DEF Registered
<1>2. boot = "on" /\ redirects = Ports /\ "eth0" \in AttachRedirector({})
  BY Zenon, <1>1 DEF IInv, Started
<1>3. bound /\ "eth0" \in links
  BY Zenon, <1>2 DEF IInv, Attached
<1> QED
  BY Zenon, <1>1, <1>2, <1>3 DEF IngressRedirect, IInv, Typed, Connections, Entries

\* With TCX the programs of a container that is scaled down send every packet
\* to the proxy.
LEMMA Ready ==
    ASSUME TCX, IInv, boot = "on", scaledDown,
           upset \cap {"programs", "loop"} = {}, NEW s, NEW p \in Ports
    PROVE  /\ IngressRedirect(s, p)
           /\ bound /\ "lo" \in links /\ p \in redirects \ disabled
<1>1. bound /\ links = {"lo", "eth0"}
  BY Zenon, AttachesTo DEF IInv, Attached
<1>2. redirects = Ports /\ disabled = {}
  BY Zenon DEF IInv, Started, Enabled
<1> QED
  BY Zenon, <1>1, <1>2 DEF IngressRedirect

\* What may happen to a connection, in terms of its place.
ConnStep(c) ==
    \/ at'[c] = at[c]
    \/ at[c] = "new" /\ at'[c] \in {"app", "proxy"}
    \/ /\ at[c] \in {"app", "proxy"}
       /\ at'[c] = "served"
       /\ app = "up" \/ forward' \/ c \in kubelet
    \/ /\ at[c] \in {"new", "app", "proxy"}
       /\ at'[c] = "refused"
       /\ upset' # {}

\* Connections are taken by the application, the target or the hook, and none
\* is refused or reset before something went wrong.
LEMMA ConnSteps ==
    TCX /\ IInv /\ [Next]_vars => \A d \in Conns : ConnStep(d)
<1> SUFFICES ASSUME TCX, IInv, [Next]_vars PROVE \A d \in Conns : ConnStep(d)
  BY Zenon
<1>1. ASSUME NEW c \in Conns, NEW p \in Ports, Connect(c, p) PROVE \A d \in
     Conns : ConnStep(d)
  <2>1. at'[c] = "refused" => upset' # {}
    <3> SUFFICES ASSUME at'[c] = "refused", upset' = {} PROVE FALSE
      BY Zenon
    <3>1. /\ ~IngressRedirect(from[c], p) /\ app # "up" /\ upset = {}
          /\ app # "starting" /\ boot \in {"on", "off"}
      BY Zenon, <1>1 DEF Connect, Blame, IInv, Typed, Connections
    <3>2. boot = "on" /\ scaledDown
      BY Zenon, <3>1 DEF IInv, Typed, Process, Scaling, Clients
    <3> QED
      BY Zenon, <3>1, <3>2, Ready
  <2> QED
    BY Zenon, <1>1, <2>1 DEF Connect, ConnStep, IInv, Typed, Connections
<1>2. ASSUME NEW c \in Conns, AppServes(c) PROVE \A d \in Conns : ConnStep(d)
  BY Zenon, <1>2 DEF AppServes, IInv, Typed, Connections, ConnStep
<1>3. ASSUME NEW c \in Conns, Stray(c) PROVE \A d \in Conns : ConnStep(d)
  <2>1. upset' # {}
    <3> SUFFICES ASSUME upset' = {} PROVE FALSE
      BY Zenon
    <3>1. /\ at[c] = "proxy" /\ ~IngressRedirect(from[c], dst[c])
          /\ pc[c] \notin {"hook", "peek", "register"} /\ upset = {}
      BY Zenon, <1>3 DEF Stray, Blame
    <3>2. c \in Registered
      BY Zenon, <3>1 DEF Registered, IInv, Clients
    <3> QED
      BY Zenon, <3>1, <3>2, Redirected
  <2> QED
    BY Zenon, <1>3, <2>1 DEF Stray, ConnStep, IInv, Typed, Connections
<1>4. ASSUME NEW c \in Conns, ConnHook(c) PROVE \A d \in Conns : ConnStep(d)
  BY Zenon, <1>4 DEF ConnHook, Goto, Ends, Blame, IInv, Typed, Connections, ConnStep
<1>5. ASSUME NEW c \in Conns, Peeked(c) PROVE \A d \in Conns : ConnStep(d)
  BY Zenon, <1>5 DEF Peeked, Goto, Ends, IInv, Typed, Connections, ConnStep
<1>6. ASSUME NEW c \in Conns, DialTimesOut(c) PROVE \A d \in Conns :
     ConnStep(d)
  <2>1. at'[c] # at[c] => upset' # {}
    <3> SUFFICES ASSUME upset' = {} PROVE FALSE
      BY Zenon
    <3>1. /\ pc[c] = "dial" /\ ~forward /\ app \notin {"up", "starting"}
          /\ ~Loops(c) /\ upset = {}
      BY Zenon, <1>6 DEF DialTimesOut, RemoveConnection
    <3>2. boot = "on" /\ scaledDown /\ dst[c] \in Ports
      BY Zenon, <3>1 DEF IInv, Typed, Process, Connections, Scaling, Started
    <3> QED
      BY Zenon, <3>1, <3>2, Ready DEF Loops
  <2> QED
    BY Zenon, <1>6, <2>1 DEF DialTimesOut, Ends, ConnStep, IInv, Typed, Connections
<1>7. ASSUME NEW c \in Conns, Proxied(c) PROVE \A d \in Conns : ConnStep(d)
  <2>1. forward \/ app = "up" \/ upset' # {}
    BY Zenon, <1>7, UpsetGrows DEF Proxied, IInv, Clients
  <2> QED
    BY Zenon, <1>7, <2>1 DEF Proxied, Ends, ConnStep, IInv, Typed, Connections
<1>8. ASSUME NEW c \in Conns, LoopTimesOut(c) PROVE \A d \in Conns :
     ConnStep(d)
  <2>1. upset' # {}
    BY Zenon, <1>8, UpsetGrows DEF LoopTimesOut, IInv, Clients
  <2> QED
    BY Zenon, <1>8, <2>1 DEF LoopTimesOut, Ends, ConnStep, IInv, Typed, Connections
<1>9. CASE Killed
  BY Zenon, <1>9 DEF Killed, Blame, Established, IInv, Typed, Connections, Clients,
       ConnStep
<1>10. CASE AttachExec \/ AttachInNetNS \/ AttachFails \/ SiblingFails \/
     MapNotFound \/ LoadPinnedMaps
  BY Zenon, <1>10 DEF AttachExec, AttachInNetNS, AttachFails, SiblingFails,
       MapNotFound, LoadPinnedMaps, ConnStep
<1>11. CASE InitKubeletAddr \/ Reconcile \/ WatchEvent \/ AppListens \/
     ScaleDown \/ Dumped
  BY Zenon, <1>11 DEF InitKubeletAddr, Reconcile, WatchEvent, AppListens, ScaleDown,
       Dumped, ConnStep
<1>12. CASE DumpFails \/ KillFails
  BY Zenon, <1>12 DEF DumpFails, KillFails, ConnStep
<1>13. ASSUME NEW p \in Ports, StartPort(p) PROVE \A d \in Conns :
     ConnStep(d)
  BY Zenon, <1>13 DEF StartPort, ConnStep
<1>14. ASSUME NEW c \in Conns, RegisterConnection(c) \/ AlreadyRestored(c) \/
     CapacityDenied(c) \/ StartProcess(c) \/ RestoreDisables(c) \/
     Restored(c) PROVE \A d \in Conns : ConnStep(d)
  BY ZenonT(30), <1>14 DEF RegisterConnection, AlreadyRestored, CapacityDenied,
       StartProcess, RestoreDisables, Restored, ConnStep
<1>15. ASSUME NEW c \in Conns, Dial(c) \/ DialLoops(c) PROVE \A d \in Conns :
     ConnStep(d)
  BY Zenon, <1>15 DEF Dial, DialLoops, ConnStep
<1>16. CASE UNCHANGED vars
  BY Zenon, <1>16 DEF vars, ConnStep
<1> QED
  BY Zenon, <1>1, <1>2, <1>3, <1>4, <1>5, <1>6, <1>7, <1>8, <1>9, <1>10, <1>11, <1>12,
       <1>13, <1>14, <1>15, <1>16 DEF Next, BootStep, ManagerStep, Handler,
       DownStep

\* A connection of a client, which was made.
Client == \E c \in Conns \ kubelet : at[c] # "new"

\* The application is woken for a client, by a restore or late after one.
LEMMA WakesForStep ==
    IInv /\ [Next]_vars => (app # "up" /\ app' = "up" => upset' # {} \/
         Client)
<1> SUFFICES ASSUME IInv, [Next]_vars PROVE (app # "up" /\ app' = "up" =>
     upset' # {} \/ Client)
  BY Zenon
<1> USE UpsetGrows
<1>1. ASSUME NEW c \in Conns, StartProcess(c) PROVE (app # "up" /\ app' =
     "up" => upset' # {} \/ Client)
  BY Zenon, <1>1 DEF StartProcess, Goto, IInv, Typed, Connections, Clients, Client
<1>2. CASE AppListens
  BY Zenon, <1>2 DEF AppListens, IInv, Clients, Client
<1>3. CASE AttachExec \/ AttachInNetNS \/ AttachFails \/ SiblingFails \/
     MapNotFound \/ LoadPinnedMaps \/ InitKubeletAddr
  BY ZenonT(30), <1>3 DEF AttachExec, AttachInNetNS, AttachFails, SiblingFails,
       MapNotFound, LoadPinnedMaps, InitKubeletAddr
<1>4. CASE Reconcile \/ WatchEvent \/ ScaleDown \/ Dumped \/ DumpFails \/
     Killed \/ KillFails
  BY Zenon, <1>4 DEF Reconcile, WatchEvent, ScaleDown, Dumped, DumpFails, Killed,
       KillFails
<1>5. ASSUME NEW p \in Ports, StartPort(p) PROVE (app # "up" /\ app' = "up"
     => upset' # {} \/ Client)
  BY Zenon, <1>5 DEF StartPort
<1>6. ASSUME NEW c \in Conns, NEW p \in Ports, Connect(c, p) PROVE (app #
     "up" /\ app' = "up" => upset' # {} \/ Client)
  BY Zenon, <1>6 DEF Connect
<1>7. ASSUME NEW c \in Conns, AppServes(c) \/ Stray(c) \/ ConnHook(c) \/
     Peeked(c) \/ RegisterConnection(c) \/ AlreadyRestored(c) \/ CapacityDenied(c) \/
     RestoreDisables(c) PROVE (app # "up" /\ app' = "up" => upset' # {} \/
     Client)
  BY Zenon, <1>7 DEF AppServes, Stray, ConnHook, Peeked, RegisterConnection,
       AlreadyRestored, CapacityDenied, RestoreDisables
<1>8. ASSUME NEW c \in Conns, Restored(c) \/ Dial(c) \/ DialLoops(c) \/
     DialTimesOut(c) \/ Proxied(c) \/ LoopTimesOut(c) PROVE (app # "up" /\
     app' = "up" => upset' # {} \/ Client)
  BY Zenon, <1>8 DEF Restored, Dial, DialLoops, DialTimesOut, Proxied, LoopTimesOut
<1>9. CASE UNCHANGED vars
  BY Zenon, <1>9 DEF vars
<1> QED
  BY Zenon, <1>1, <1>2, <1>3, <1>4, <1>5, <1>6, <1>7, <1>8, <1>9 DEF Next, BootStep,
       ManagerStep, Handler, DownStep


-----------------------------------------------------------------------------
(* The invariants hold. *)

INSTANCE FiniteSetTheorems

\* An entry more than the map has room for pushes another one out.
LEMMA BoundedStep ==
    Typed /\ Bounded /\ [Next]_vars => Bounded'
<1> SUFFICES ASSUME Typed, Bounded, [Next]_vars PROVE Bounded'
  BY Zenon
<1> USE RedirectAssumption DEF Bounded
<1>1. CASE active' = {}
  BY <1>1, FS_EmptySet
<1>2. ASSUME NEW s, active' = active \ {s} PROVE Bounded'
  <2>1. IsFiniteSet(active') /\ Cardinality(active') <= Cardinality(active)
    BY Zenon, <1>2, FS_Subset
  <2>2. Cardinality(active') \in Nat /\ Cardinality(active) \in Nat
    BY Zenon, <2>1, FS_CardinalityType
  <2> QED
    BY <2>1, <2>2
<1>3. ASSUME NEW c \in Conns, RegisterConnection(c) PROVE Bounded'
  <2>1. /\ IsFiniteSet(active \cup {from[c]})
        /\ Cardinality(active) \in Nat
        /\ from[c] \in active => active \cup {from[c]} = active
    <3>1. IsFiniteSet(active \cup {from[c]}) /\ Cardinality(active) \in Nat
      BY Zenon, FS_AddElement, FS_CardinalityType
    <3>2. from[c] \in active => active \cup {from[c]} = active
      BY Zenon, SMT
    <3> QED
      BY Zenon, <3>1, <3>2
  <2>2. CASE active' = active \cup {from[c]}
             /\ Cardinality(active \cup {from[c]}) <= MaxActive
    BY Zenon, <2>1, <2>2
  <2>3. ASSUME NEW s \in active, active' = (active \ {s}) \cup {from[c]},
               ~(Cardinality(active \cup {from[c]}) <= MaxActive)
        PROVE  Bounded'
    <3>1. from[c] \notin active
      BY Zenon, <2>1, <2>3
    <3>2. /\ IsFiniteSet(active \ {s})
          /\ Cardinality(active \ {s}) = Cardinality(active) - 1
      BY Zenon, FS_RemoveElement
    <3>3. /\ IsFiniteSet(active')
          /\ Cardinality(active') = Cardinality(active \ {s}) + 1
      BY Zenon, <2>3, <3>1, <3>2, FS_AddElement
    <3> QED
      BY <2>1, <3>2, <3>3
  <2> QED
    BY Zenon, <1>3, <2>2, <2>3 DEF RegisterConnection
<1>4. CASE UNCHANGED active
  BY Zenon, <1>4
<1>5. \/ active' = {} \/ UNCHANGED active
      \/ \E s : active' = active \ {s}
      \/ \E c \in Conns : RegisterConnection(c)
  <2>1. CASE BootStep \/ ManagerStep \/ SiblingFails \/ InitKubeletAddr
    BY Zenon, <2>1 DEF BootStep, ManagerStep, SiblingFails, InitKubeletAddr,
         AttachExec, AttachInNetNS, AttachFails, MapNotFound,
         LoadPinnedMaps, StartPort, Reconcile, WatchEvent
  <2>2. ASSUME NEW c \in Conns,
               \/ \E p \in Ports : Connect(c, p)
               \/ AppServes(c)
               \/ Stray(c)
               \/ Peeked(c)
        PROVE  UNCHANGED active
    BY Zenon, <2>2 DEF Connect, AppServes, Stray, Peeked
  <2>3. ASSUME NEW c \in Conns, Handler(c)
        PROVE  \/ UNCHANGED active
               \/ active' = active \ {from[c]}
               \/ RegisterConnection(c)
    BY Zenon, <2>3 DEF Handler, ConnHook, AlreadyRestored, CapacityDenied,
         StartProcess, RestoreDisables, Restored, Dial, DialLoops,
         DialTimesOut, Proxied, LoopTimesOut, RemoveConnection
  <2>4. CASE AppListens \/ ScaleDown \/ DownStep
    BY Zenon, <2>4 DEF AppListens, ScaleDown, DownStep, Dumped, DumpFails, Killed,
         KillFails
  <2>5. CASE UNCHANGED vars
    BY Zenon, <2>5 DEF vars
  <2> QED
    BY Zenon, <2>1, <2>2, <2>3, <2>4, <2>5 DEF Next
<1> QED
  BY Zenon, <1>1, <1>2, <1>3, <1>4, <1>5

\* A container that was just started, or one whose start was skipped, with all
\* source ports the same or all different.
LEMMA InitIInv == Init => IInv
<1> SUFFICES ASSUME Init PROVE IInv
  BY Zenon
<1>1. from \in [Conns -> Sources]
  <2>1. PICK f \in [Conns -> Sources] :
           \A c, d \in Conns : f[c] = f[d] => c = d
    BY Zenon, RedirectAssumption
  <2>2. OwnSource \in [Conns -> Sources]
    BY Zenon, <2>1 DEF OwnSource
  <2>3. SameSource \in [Conns -> Sources]
    <3>1. ASSUME NEW c \in Conns PROVE (CHOOSE s \in Sources : TRUE) \in Sources
      BY Zenon, <2>1
    <3> QED
      BY Zenon, <3>1 DEF SameSource
  <2> QED
    BY Zenon, <2>2, <2>3 DEF Init
<1>2. dst \in [Conns -> Ports]
  BY Zenon, RedirectAssumption DEF Init
<1>3. Flags
  BY Zenon DEF Init, Flags
<1>4. Programs /\ Maps
  BY DEF Init, Programs, Maps, BootLabels
<1>5. Connections
  BY Zenon, <1>1, <1>2 DEF Init, Connections, HandlerLabels, Places
<1>6. Process
  BY Zenon, RedirectAssumption DEF Init, Process
<1>7. Bounded
  BY RedirectAssumption, FS_EmptySet DEF Init, Bounded
<1>8. Attached /\ Started /\ Entries /\ Enabled /\ Disabled
  BY DEF Init, Attached, Started, Entries, Registered, Enabled, Disabled
<1>9. Scaling
  BY Zenon, <1>3 DEF Init, Scaling, Flags
<1>10. Clients
  BY Zenon DEF Init, Clients
<1> QED
  BY Zenon, <1>3, <1>4, <1>5, <1>6, <1>7, <1>8, <1>9, <1>10 DEF IInv, Typed

\* Every step of the shim, the manager, the handlers and the callback keeps
\* the invariants.
LEMMA IInvStep == IInv /\ [Next]_vars => IInv'
<1> SUFFICES ASSUME IInv, [Next]_vars PROVE IInv'
  BY Zenon
<1> USE DEF IInv
<1>1. Typed'
  BY Zenon, FlagsStep, ProgramsStep, MapsStep, ConnectionsStep, ProcessStep DEF Typed
<1>2. Bounded' /\ Attached' /\ Started' /\ Entries'
  BY Zenon, BoundedStep, AttachedStep, StartedStep, EntriesStep DEF Typed
<1>3. Scaling' /\ Enabled' /\ Disabled' /\ Clients'
  BY Zenon, ScalingStep, EnabledStep, DisabledStep, ClientsStep
<1> QED
  BY Zenon, <1>1, <1>2, <1>3

-----------------------------------------------------------------------------
(* The theorems. *)

\* The packets of a registered connection go to the proxy until it is closed,
\* whatever shim, manager, handlers and the callback do to the maps in the
\* meantime, with or without TCX and however small active_connections is,
\* unless its entry was taken or the programs were; and every field and map
\* keeps its type.
THEOREM StaysRedirectedCorrect == Spec => []StaysRedirected
<1>1. IInv => TypeOK
  BY Zenon DEF IInv, Typed, Bounded, TypeOK, Flags, Programs, Maps, Connections,
         Process
<1>2. IInv => (upset \cap {"entry", "programs"} = {} =>
                  \A c \in Registered : IngressRedirect(from[c], dst[c]))
  BY Zenon, Redirected
<1>3. IInv => StaysRedirected
  BY Zenon, <1>1, <1>2 DEF StaysRedirected
<1> QED
  BY <1>3, InitIInv, IInvStep, PTL DEF Spec

\* When the handlers and the callback are over, no packet to a container that
\* runs makes the detour through the proxy: Restore, or the callback whose dump
\* failed, has disabled the redirects, and no entry of a closed connection is
\* left.  Redirects that an early error of checkpoint, or of kill, has left on
\* are named by left, which the next DisableRedirects takes back.
THEOREM DirectCorrect == Spec => []Direct
<1>1. IInv => Direct
  <2> SUFFICES ASSUME IInv, boot = "on", ~scaledDown, Quiet,
                      ~left,
                      NEW s \in Sources, NEW p \in Ports
               PROVE  ~IngressRedirect(s, p)
    BY Zenon DEF Direct
  <2>1. active = {}
    BY Zenon DEF IInv, Entries, Registered, Quiet
  <2>2. disabled = Ports
    BY Zenon DEF IInv, Disabled, Quiet
  <2> QED
    BY Zenon, <2>1, <2>2 DEF IngressRedirect
<1> QED
  BY <1>1, InitIInv, IInvStep, PTL DEF Spec

\* When the handlers and the callback are over, a container that is scaled
\* down is woken by a packet from any source port to any of its ports.
THEOREM WakeableCorrect == ASSUME TCX PROVE Spec => []Wakeable
<1>1. IInv => Wakeable
  BY Zenon, Ready DEF Wakeable
<1> QED
  BY <1>1, InitIInv, IInvStep, PTL DEF Spec

\* With TCX the redirecting activator implements Activator: whatever the order
\* of attachments, connections, restores, dumps and kills, a connection is held
\* until the application or the target takes it, it is lost only after
\* something went wrong, and the application is not woken for probes.
THEOREM ImplementsCorrect == ASSUME TCX PROVE Spec => Implements
<1>1. Init => Promise!Init
  <2> SUFFICES ASSUME Init PROVE Promise!Init
    BY Zenon
  <2>1. [c \in Conns |-> Seen(at[c])] = [c \in Conns |-> "new"]
    BY Zenon DEF Init, Seen
  <2>2. kubelet \in SUBSET Conns /\ forward = FALSE
    BY Zenon, RedirectAssumption DEF Init
  <2>3. (app = "up") \in BOOLEAN /\ (upset # {}) = FALSE
    BY Zenon DEF Init
  <2> QED
    BY Zenon, <2>1, <2>2, <2>3 DEF Promise!Init
<1>2. IInv /\ IInv' /\ [Next]_vars => [Promise!Next]_(Promise!vars)
  <2> SUFFICES ASSUME IInv, IInv', [Next]_vars PROVE Promise!Next
    BY Zenon
  <2> DEFINE conn == [c \in Conns |-> Seen(at[c])]
  <2>1. \A c \in Conns : ConnStep(c)
    BY Zenon, ConnSteps
  <2>2. ASSUME NEW c \in Conns
        PROVE  /\ conn[c] = Seen(at[c]) /\ conn'[c] = Seen(at'[c])
               /\ at[c] \in Places /\ at'[c] \in Places
    BY Zenon DEF IInv, Typed, Connections
  <2>3. ASSUME NEW p \in Places
        PROVE  /\ p = "new" => Seen(p) = "new"
               /\ p \in {"app", "proxy"} => Seen(p) = "waiting"
               /\ p = "served" => Seen(p) = "served"
               /\ p = "refused" => Seen(p) = "lost"
    BY Zenon DEF Seen, Places
  <2>4. Promise!ConnsMove
    <3>1. conn' \in [Conns -> {"new", "waiting", "served", "lost"}]
      BY Zenon, <2>2, <2>3 DEF Places
    <3>2. ASSUME NEW c \in Conns
          PROVE  \/ conn'[c] = conn[c]
                 \/ conn[c] = "new" /\ conn'[c] = "waiting"
                 \/ /\ conn[c] \in {"new", "waiting"} /\ conn'[c] = "served"
                    /\ app = "up" \/ forward' \/ c \in kubelet
                 \/ /\ conn[c] \in {"new", "waiting"} /\ conn'[c] = "lost"
                    /\ upset' # {}
      BY Zenon, <2>1, <2>2, <2>3 DEF ConnStep
    <3> QED
      BY Zenon, <3>1, <3>2 DEF Promise!ConnsMove, Promise!Arrives, Promise!Served,
                        Promise!Lost
  <2>5. Promise!WakesFor
    <3>1. Client => \E c \in Conns \ kubelet : conn[c] # "new"
      BY Zenon, <2>2, <2>3 DEF Client, Places
    <3> QED
      BY Zenon, <3>1, WakesForStep DEF Promise!WakesFor
  <2>6. forward' \in BOOLEAN
    BY Zenon DEF IInv, Typed, Flags
  <2>7. (upset # {} => upset' # {}) /\ kubelet' = kubelet
    BY Zenon, UpsetGrows
  <2> QED
    BY Zenon, <2>4, <2>5, <2>6, <2>7 DEF Promise!Next
<1> QED
  BY <1>1, <1>2, InitIInv, IInvStep, PTL DEF Spec, Implements, Promise!Spec
=============================================================================
