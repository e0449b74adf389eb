---------------------------- MODULE ReuseProofs ----------------------------
(***************************************************************************)
(* Proofs about the SO_REUSEPORT activator: what holds of a container that *)
(* rests (Wakeable, Direct), and that the activator implements Activator.  *)
(*                                                                         *)
(* TypeCorrect holds for all values of the constants.  The other theorems  *)
(* assume Prompt: the scale-down timer does not fire before a wake-up that *)
(* can run has ended.                                                      *)
(***************************************************************************)
EXTENDS ReuseActivator, TLAPS

USE DEF actVars, wakeVars, downVars, contVars, connVars

-----------------------------------------------------------------------------
(* The invariants. *)

\* The conjuncts of TypeOK, those of Boolean-valued variables apart.
Flags ==
    /\ registeredWake \in BOOLEAN /\ timer \in BOOLEAN
    /\ scaledDown \in BOOLEAN /\ noCheckpoint \in BOOLEAN
    /\ listening \in BOOLEAN
Founds == found \in [Watchers -> BOOLEAN]
GroupsOK == group \in [Keys -> Groups]
Threads ==
    /\ register \in Watchers \cup {NoThread}
    /\ pc \in [Watchers -> WakeLabels]
    /\ down \in DownLabels
    /\ lock \in Watchers \cup {Timer, NoThread}
    /\ lock = Timer <=> down = "dump"
    /\ \A w \in Watchers : lock = w <=> pc[w] \in {"restoring", "forward"}
Connections ==
    /\ at \in [Conns -> Places]
    /\ dst \in [Conns -> Keys]
    /\ kubelet \in SUBSET MayProbe
    /\ upset \in SUBSET Upsets

\* Reset has still to listen on keys of the map only, and there are enough
\* goroutines for them.
Enough ==
    /\ todo \in SUBSET Keys
    /\ down # "resetting" => todo = {}
    /\ down = "resetting" =>
          Cardinality({k \in todo : group[k].wake = NoThread})
              <= Cardinality({w \in Watchers : Free(w)})

\* That is, Reset finds a goroutine for the next of them.
Spare ==
    (down = "resetting" /\ \E k \in todo : group[k].wake = NoThread) =>
        \E w \in Watchers : Free(w)

Typed ==
    /\ Flags /\ Founds /\ GroupsOK /\ Threads /\ Connections
    /\ Enough /\ Spare

\* Nothing went wrong but that a Reset failed.
Calm == upset \subseteq {"listen"}

\* The sockets in the app slots are those of a process that runs.
Process ==
    /\ scaledDown => ~listening
    /\ \A k \in Keys : group[k].app = "app" => listening
    /\ down # "idle" => ~scaledDown
    /\ \A w \in Watchers : pc[w] \in {"restoring", "forward"} => scaledDown

\* The register mutex is held by the goroutine that looks for the sockets.
Registrar ==
    /\ \A w \in Watchers : pc[w] = "find" => register = w
    /\ Calm /\ register # NoThread => pc[register] = "find"

\* Every port has a listener that connections are sent to, and without the
\* application's or a forwarder's it is the wake and the probe listener.
Covered ==
    Calm => \A k \in Keys :
        /\ group[k].prog
        /\ group[k].app = "none" => group[k].wake # NoThread /\ group[k].probe
        /\ group[k].app = "fwd" => group[k].fwd

\* A goroutine takes care of each wake listener.
Polled ==
    Calm => \A k \in Keys :
        group[k].wake # NoThread => pc[group[k].wake] # "idle"

\* A wake-up puts the sockets of the running application into the app slots.
Registered ==
    (Calm /\ ~scaledDown /\ \A w \in Watchers : pc[w] \notin {"register", "find"})
        => \A k \in Keys : group[k].app = "app"

\* It closes the wake listeners only after that, or after ForwardToTarget.
Closing ==
    Calm => \A w \in Watchers : pc[w] \in {"close", "closeWake"} =>
        \A k \in Keys : group[k].app # "none"

\* From Reset to the dump nobody is woken, since connections go to the
\* application, and what Reset has set up stays.
Alone ==
    (Calm /\ down \in {"resetting", "lock", "dump"}) =>
        /\ \A w \in Watchers : pc[w] \in {"idle", "poll"}
        /\ \A c \in Conns : at[c] # "wake"
        /\ \A k \in Keys \ todo : group[k].wake # NoThread /\ group[k].probe

\* Probes go to the probe listener, others to the wake listener.
Sorted ==
    /\ \A c \in Conns : at[c] = "probe" => c \in kubelet
    /\ \A c \in Conns : at[c] = "wake" => group[dst[c]].wake # NoThread
    /\ Calm => \A c \in Conns : at[c] = "wake" => c \notin kubelet

\* What is inside wake, or was started by it, is there for a client.
Client == \E c \in Conns \ kubelet : at[c] # "new"
Clients ==
    (Calm /\ ((\E w \in Watchers : pc[w] \notin {"idle", "poll"})
              \/ (~listening /\ ~scaledDown))) => Client

IInv ==
    /\ Typed /\ Process /\ Registrar /\ Covered /\ Polled /\ Registered
    /\ Closing /\ Alone /\ Sorted /\ Clients

-----------------------------------------------------------------------------
(* What the operators on groups do. *)

\* Settle only takes the program away.
LEMMA SettleFields ==
    ASSUME NEW g \in Groups, NEW open \in BOOLEAN
    PROVE  /\ Settle(g, open) \in Groups
           /\ Settle(g, open).app = g.app
           /\ Settle(g, open).wake = g.wake
           /\ Settle(g, open).probe = g.probe
           /\ Settle(g, open).fwd = g.fwd
           /\ Settle(g, open).prog <=>
                 (g.prog /\ (open \/ g.wake # NoThread \/ g.probe \/ g.fwd))
  BY Zenon DEF Groups, Settle

\* The fields of a group have their types, and the updates of the activator
\* keep them.
LEMMA GroupsClosed ==
    ASSUME NEW g \in Groups
    PROVE  /\ g.app \in {"none", "app", "fwd"}
           /\ g.wake \in Watchers \cup {NoThread}
           /\ [g EXCEPT !.app = "fwd", !.fwd = TRUE, !.prog = TRUE] \in Groups
           /\ [g EXCEPT !.app = "app", !.prog = TRUE] \in Groups
           /\ [g EXCEPT !.app = IF @ = "app" THEN "none" ELSE @] \in Groups
           /\ \A b \in BOOLEAN :
                 [g EXCEPT !.wake = NoThread, !.probe = @ /\ ~b] \in Groups
  BY Zenon DEF Groups

\* Where the program sends a connection.
LEMMA Selected ==
    ASSUME NEW c, NEW g \in Groups
    PROVE  LET s == SelectOrMigrate(c, g) IN
           /\ s \in {"app", "served", "probe", "wake", "refused"}
           /\ s = "app" <=> g.app = "app"
           /\ s = "served" <=> g.app = "fwd"
           /\ s = "probe" => c \in kubelet
           /\ s = "wake" => g.app = "none" /\ g.wake # NoThread
           /\ s = "wake" /\ g.probe => c \notin kubelet
           /\ s = "refused" => g.app = "none" /\ g.wake = NoThread
  BY Zenon DEF Groups, SelectOrMigrate

\* A connection stays where it is, at a listener that is still there, or waited
\* and goes where the program then sends it.
Moved ==
    \A c \in Conns :
        \/ at'[c] = at[c] /\ (at[c] = "wake" =>
              group'[dst[c]].wake = group[dst[c]].wake)
        \/ /\ at[c] \in {"wake", "probe", "app"}
           /\ at'[c] = SelectOrMigrate(c, group'[dst[c]])

\* Regroup settles the new groups and moves connections that were waiting.
LEMMA Regrouped ==
    ASSUME GroupsOK, Connections, NEW gs \in [Keys -> Groups],
           NEW open \in BOOLEAN, Regroup(gs, open)
    PROVE  /\ group' = [k \in Keys |-> Settle(gs[k], open)]
           /\ GroupsOK'
           /\ at' \in [Conns -> Places]
           /\ Moved
<1>1. group' = [k \in Keys |-> Settle(gs[k], open)]
  BY Zenon DEF Regroup
<1>2. GroupsOK'
  BY Zenon, <1>1, SettleFields DEF GroupsOK
<1>3. ASSUME NEW c \in Conns
      PROVE  \/ at'[c] = at[c] /\ (at[c] = "wake" =>
                       gs[dst[c]].wake = group[dst[c]].wake)
             \/ /\ at[c] \in {"wake", "probe", "app"}
                /\ at'[c] = SelectOrMigrate(c, gs[dst[c]])
  BY Zenon DEF Regroup
<1>4. ASSUME NEW c \in Conns
      PROVE  /\ SelectOrMigrate(c, gs[dst[c]]) =
                   SelectOrMigrate(c, group'[dst[c]])
             /\ gs[dst[c]].wake = group'[dst[c]].wake
             /\ group'[dst[c]] \in Groups
  <2>1. gs[dst[c]] \in Groups /\ group'[dst[c]] = Settle(gs[dst[c]], open)
    BY Zenon, <1>1 DEF Connections
  <2> QED
    BY <2>1, SettleFields DEF SelectOrMigrate
<1>5. Moved
  BY Zenon, <1>3, <1>4 DEF Moved
<1>6. ASSUME NEW c \in Conns
      PROVE  at'[c] \in Places
  BY <1>4, <1>5, Selected DEF Connections, Places, Moved
<1>7. at' = [c \in Conns |-> at'[c]]
  BY Zenon DEF Regroup
<1> QED
  BY Zenon, <1>1, <1>2, <1>5, <1>6, <1>7

\* ForwardToTarget puts a forwarder into every app slot.
LEMMA ForwardEffect ==
    ASSUME Typed, NEW w \in Watchers, ForwardToTarget(w)
    PROVE  /\ GroupsOK' /\ at' \in [Conns -> Places] /\ Moved
           /\ \A k \in Keys :
                 /\ group'[k].app = "fwd" /\ group'[k].fwd /\ group'[k].prog
                 /\ group'[k].wake = group[k].wake
                 /\ group'[k].probe = group[k].probe
<1> DEFINE gs == [k \in Keys |-> [group[k] EXCEPT !.app = "fwd",
                         !.fwd = TRUE, !.prog = TRUE]]
<1> DEFINE open == listening
<1>1. gs \in [Keys -> Groups]
  BY ZenonT(30), GroupsClosed DEF Typed, GroupsOK, Flags
<1>2. Regroup(gs, open) /\ open \in BOOLEAN
  BY Zenon DEF ForwardToTarget, Typed, Flags
<1> HIDE DEF gs, open
<1>3. /\ group' = [k \in Keys |-> Settle(gs[k], open)]
      /\ GroupsOK' /\ at' \in [Conns -> Places] /\ Moved
  BY Zenon, <1>1, <1>2, Regrouped DEF Typed
<1>4. ASSUME NEW k \in Keys
      PROVE
             /\ group'[k].app = "fwd" /\ group'[k].fwd /\ group'[k].prog
             /\ group'[k].wake = group[k].wake
             /\ group'[k].probe = group[k].probe
  <2>1. gs[k] \in Groups /\ group[k] \in Groups /\ group'[k] = Settle(gs[k], open)
    BY Zenon, <1>1, <1>3 DEF Typed, GroupsOK
  <2>2. /\ gs[k].app = "fwd" /\ gs[k].fwd /\ gs[k].prog
        /\ gs[k].wake = group[k].wake /\ gs[k].probe = group[k].probe
    BY Zenon, <2>1 DEF gs, Groups
  <2>3. /\ group'[k].app = gs[k].app /\ group'[k].wake = gs[k].wake
        /\ group'[k].probe = gs[k].probe /\ group'[k].fwd = gs[k].fwd
        /\ group'[k].prog <=> (gs[k].prog /\ (open \/ gs[k].wake # NoThread
                                           \/ gs[k].probe \/ gs[k].fwd))
    BY <1>2, <2>1, SettleFields
  <2> QED
    BY Zenon, <2>2, <2>3 DEF open
<1> QED
  BY Zenon, <1>3, <1>4

\* registerListeners puts the application's sockets there.
LEMMA RegisterEffect ==
    ASSUME Typed, NEW w \in Watchers, RegisterListeners(w)
    PROVE  /\ GroupsOK' /\ at' \in [Conns -> Places] /\ Moved
           /\ \A k \in Keys :
                 /\ group'[k].app = "app" /\ group'[k].prog
                 /\ group'[k].wake = group[k].wake
                 /\ group'[k].probe = group[k].probe
                 /\ group'[k].fwd = group[k].fwd
<1> DEFINE gs == [k \in Keys |-> [group[k] EXCEPT !.app = "app",
                         !.prog = TRUE]]
<1> DEFINE open == listening
<1>1. gs \in [Keys -> Groups]
  BY ZenonT(30), GroupsClosed DEF Typed, GroupsOK, Flags
<1>2. Regroup(gs, open) /\ open \in BOOLEAN
  BY Zenon DEF RegisterListeners, Typed, Flags
<1> HIDE DEF gs, open
<1>3. /\ group' = [k \in Keys |-> Settle(gs[k], open)]
      /\ GroupsOK' /\ at' \in [Conns -> Places] /\ Moved
  BY Zenon, <1>1, <1>2, Regrouped DEF Typed
<1>4. ASSUME NEW k \in Keys
      PROVE
             /\ group'[k].app = "app" /\ group'[k].prog
             /\ group'[k].wake = group[k].wake
             /\ group'[k].probe = group[k].probe
             /\ group'[k].fwd = group[k].fwd
  <2>1. gs[k] \in Groups /\ group[k] \in Groups /\ group'[k] = Settle(gs[k], open)
    BY Zenon, <1>1, <1>3 DEF Typed, GroupsOK
  <2>2. /\ gs[k].app = "app" /\ gs[k].prog /\ gs[k].fwd = group[k].fwd
        /\ gs[k].wake = group[k].wake /\ gs[k].probe = group[k].probe
    BY Zenon, <2>1 DEF gs, Groups
  <2>3. /\ group'[k].app = gs[k].app /\ group'[k].wake = gs[k].wake
        /\ group'[k].probe = gs[k].probe /\ group'[k].fwd = gs[k].fwd
        /\ group'[k].prog <=> (gs[k].prog /\ (open \/ gs[k].wake # NoThread
                                           \/ gs[k].probe \/ gs[k].fwd))
    BY <1>2, <2>1, SettleFields
  <2> QED
    BY Zenon, <2>2, <2>3 DEF open, RegisterListeners
<1> QED
  BY Zenon, <1>3, <1>4

\* A registration that fails half-way puts them into some slots only.
LEMMA PartlyEffect ==
    ASSUME Typed, NEW w \in Watchers, RegisterPartly(w)
    PROVE  /\ GroupsOK' /\ at' \in [Conns -> Places] /\ Moved
           /\ \A k \in Keys :
                 /\ group'[k].app \in {group[k].app, "app"}
                 /\ group[k].prog => group'[k].prog
                 /\ group'[k].wake = group[k].wake
                 /\ group'[k].probe = group[k].probe
                 /\ group'[k].fwd = group[k].fwd
           /\ listening /\ ~Calm'
<1>0. PICK K \in SUBSET Keys :
         Regroup([k \in Keys |-> IF k \in K
                                 THEN [group[k] EXCEPT !.app = "app", !.prog = TRUE]
                                 ELSE group[k]], listening)
  BY Zenon DEF RegisterPartly
<1> DEFINE gs == [k \in Keys |-> IF k \in K
                                 THEN [group[k] EXCEPT !.app = "app", !.prog = TRUE]
                                 ELSE group[k]]
<1> DEFINE open == listening
<1>1. gs \in [Keys -> Groups]
  <2>1. ASSUME NEW k \in Keys
        PROVE  /\ group[k] \in Groups
               /\ [group[k] EXCEPT !.app = "app", !.prog = TRUE] \in Groups
    BY ZenonT(30), GroupsClosed DEF Typed, GroupsOK, Flags
  <2> QED
    BY Zenon, <2>1
<1>2. Regroup(gs, open) /\ open \in BOOLEAN
  BY Zenon, <1>0 DEF Typed, Flags
<1>3. open
  BY Zenon DEF RegisterPartly
<1>4. listening /\ ~Calm'
  BY Zenon DEF RegisterPartly, Calm
<1> HIDE DEF gs, open
<1>5. /\ group' = [k \in Keys |-> Settle(gs[k], open)]
      /\ GroupsOK' /\ at' \in [Conns -> Places] /\ Moved
  BY Zenon, <1>1, <1>2, Regrouped DEF Typed
<1>6. ASSUME NEW k \in Keys
      PROVE
             /\ group'[k].app \in {group[k].app, "app"}
             /\ group[k].prog => group'[k].prog
             /\ group'[k].wake = group[k].wake
             /\ group'[k].probe = group[k].probe
             /\ group'[k].fwd = group[k].fwd
  <2>1. gs[k] \in Groups /\ group[k] \in Groups /\ group'[k] = Settle(gs[k], open)
    BY Zenon, <1>1, <1>5 DEF Typed, GroupsOK
  <2>2. /\ gs[k].app \in {group[k].app, "app"} /\ gs[k].fwd = group[k].fwd
        /\ group[k].prog => gs[k].prog
        /\ gs[k].wake = group[k].wake /\ gs[k].probe = group[k].probe
    <3>1. CASE k \in K
      BY Zenon, <2>1, <3>1 DEF gs, Groups
    <3>2. CASE k \notin K
      BY Zenon, <2>1, <3>2 DEF gs
    <3> QED
      BY Zenon, <3>1, <3>2
  <2>3. /\ group'[k].app = gs[k].app /\ group'[k].wake = gs[k].wake
        /\ group'[k].probe = gs[k].probe /\ group'[k].fwd = gs[k].fwd
        /\ group'[k].prog <=> (gs[k].prog /\ (open \/ gs[k].wake # NoThread
                                           \/ gs[k].probe \/ gs[k].fwd))
    BY <1>2, <2>1, SettleFields
  <2> QED
    BY Zenon, <1>3, <2>2, <2>3
<1> QED
  BY Zenon, <1>4, <1>5, <1>6

\* The end of wake closes the wake listeners.
LEMMA CloseEffect ==
    ASSUME Typed, NEW w \in Watchers, CloseListeners(w)
    PROVE  /\ GroupsOK' /\ at' \in [Conns -> Places] /\ Moved
           /\ \A k \in Keys :
                 /\ group'[k].app = group[k].app
                 /\ group'[k].wake = NoThread
                 /\ group'[k].fwd = group[k].fwd
                 /\ group[k].prog /\ (listening \/ group[k].fwd) => group'[k].prog
<1> DEFINE gs == Closed(pc[w] = "close")
<1> DEFINE open == listening
<1>1. gs \in [Keys -> Groups]
  BY ZenonT(30), GroupsClosed DEF Typed, GroupsOK, Flags, Closed
<1>2. Regroup(gs, open) /\ open \in BOOLEAN
  BY Zenon DEF CloseListeners, Typed, Flags, Closed
<1> HIDE DEF gs, open
<1>3. /\ group' = [k \in Keys |-> Settle(gs[k], open)]
      /\ GroupsOK' /\ at' \in [Conns -> Places] /\ Moved
  BY Zenon, <1>1, <1>2, Regrouped DEF Typed
<1>4. ASSUME NEW k \in Keys
      PROVE
             /\ group'[k].app = group[k].app
             /\ group'[k].wake = NoThread
             /\ group'[k].fwd = group[k].fwd
             /\ group[k].prog /\ (listening \/ group[k].fwd) => group'[k].prog
  <2>1. gs[k] \in Groups /\ group[k] \in Groups /\ group'[k] = Settle(gs[k], open)
    BY Zenon, <1>1, <1>3 DEF Typed, GroupsOK
  <2>2. /\ gs[k].app = group[k].app /\ gs[k].wake = NoThread
        /\ gs[k].fwd = group[k].fwd /\ gs[k].prog = group[k].prog
    BY Zenon, <2>1 DEF gs, Groups, Closed
  <2>3. /\ group'[k].app = gs[k].app /\ group'[k].wake = gs[k].wake
        /\ group'[k].probe = gs[k].probe /\ group'[k].fwd = gs[k].fwd
        /\ group'[k].prog <=> (gs[k].prog /\ (open \/ gs[k].wake # NoThread
                                           \/ gs[k].probe \/ gs[k].fwd))
    BY <1>2, <2>1, SettleFields
  <2> QED
    BY Zenon, <2>2, <2>3 DEF open
<1> QED
  BY Zenon, <1>3, <1>4

\* Reset closes the probe listeners as well.
LEMMA ResetEffect ==
    ASSUME Typed, ResetCloses
    PROVE  /\ GroupsOK' /\ at' \in [Conns -> Places] /\ Moved
           /\ \A k \in Keys :
                 /\ group'[k].app = group[k].app
                 /\ group'[k].wake = NoThread
                 /\ group'[k].fwd = group[k].fwd
                 /\ group[k].prog /\ (listening \/ group[k].fwd) => group'[k].prog
<1> DEFINE gs == Closed(TRUE)
<1> DEFINE open == listening
<1>1. gs \in [Keys -> Groups]
  BY ZenonT(30), GroupsClosed DEF Typed, GroupsOK, Flags, Closed
<1>2. Regroup(gs, open) /\ open \in BOOLEAN
  BY Zenon DEF ResetCloses, Typed, Flags, Closed
<1> HIDE DEF gs, open
<1>3. /\ group' = [k \in Keys |-> Settle(gs[k], open)]
      /\ GroupsOK' /\ at' \in [Conns -> Places] /\ Moved
  BY Zenon, <1>1, <1>2, Regrouped DEF Typed
<1>4. ASSUME NEW k \in Keys
      PROVE
             /\ group'[k].app = group[k].app
             /\ group'[k].wake = NoThread
             /\ group'[k].fwd = group[k].fwd
             /\ group[k].prog /\ (listening \/ group[k].fwd) => group'[k].prog
  <2>1. gs[k] \in Groups /\ group[k] \in Groups /\ group'[k] = Settle(gs[k], open)
    BY Zenon, <1>1, <1>3 DEF Typed, GroupsOK
  <2>2. /\ gs[k].app = group[k].app /\ gs[k].wake = NoThread
        /\ gs[k].fwd = group[k].fwd /\ gs[k].prog = group[k].prog
    BY Zenon, <2>1 DEF gs, Groups, Closed
  <2>3. /\ group'[k].app = gs[k].app /\ group'[k].wake = gs[k].wake
        /\ group'[k].probe = gs[k].probe /\ group'[k].fwd = gs[k].fwd
        /\ group'[k].prog <=> (gs[k].prog /\ (open \/ gs[k].wake # NoThread
                                           \/ gs[k].probe \/ gs[k].fwd))
    BY <1>2, <2>1, SettleFields
  <2> QED
    BY Zenon, <2>2, <2>3 DEF open
<1> QED
  BY Zenon, <1>3, <1>4

\* A dump empties the app slots that are not a forwarder's.
LEMMA DumpEffect ==
    ASSUME Typed, Dumped
    PROVE  /\ GroupsOK' /\ at' \in [Conns -> Places] /\ Moved
           /\ \A k \in Keys :
                 /\ group'[k].app = IF group[k].app = "app" THEN "none" ELSE group[k].app
                 /\ group'[k].wake = group[k].wake
                 /\ group'[k].probe = group[k].probe
                 /\ group'[k].fwd = group[k].fwd
                 /\ group[k].prog /\ (group[k].wake # NoThread \/ group[k].fwd) =>
                       group'[k].prog
<1> DEFINE gs == [k \in Keys |-> [group[k] EXCEPT
                         !.app = IF @ = "app" THEN "none" ELSE @]]
<1> DEFINE open == FALSE
<1>1. gs \in [Keys -> Groups]
  BY Zenon, GroupsClosed DEF Typed, GroupsOK, Flags
<1>2. Regroup(gs, open) /\ open \in BOOLEAN
  BY Zenon DEF Dumped, Typed, Flags
<1> HIDE DEF gs, open
<1>3. /\ group' = [k \in Keys |-> Settle(gs[k], open)]
      /\ GroupsOK' /\ at' \in [Conns -> Places] /\ Moved
  BY Zenon, <1>1, <1>2, Regrouped DEF Typed
<1>4. ASSUME NEW k \in Keys
      PROVE
             /\ group'[k].app = IF group[k].app = "app" THEN "none" ELSE group[k].app
             /\ group'[k].wake = group[k].wake
             /\ group'[k].probe = group[k].probe
             /\ group'[k].fwd = group[k].fwd
             /\ group[k].prog /\ (group[k].wake # NoThread \/ group[k].fwd) =>
                   group'[k].prog
  <2>1. gs[k] \in Groups /\ group[k] \in Groups /\ group'[k] = Settle(gs[k], open)
    BY Zenon, <1>1, <1>3 DEF Typed, GroupsOK
  <2>2. /\ gs[k].app = IF group[k].app = "app" THEN "none" ELSE group[k].app
        /\ gs[k].fwd = group[k].fwd /\ gs[k].prog = group[k].prog
        /\ gs[k].wake = group[k].wake /\ gs[k].probe = group[k].probe
    BY Zenon, <2>1 DEF gs, Groups
  <2>3. /\ group'[k].app = gs[k].app /\ group'[k].wake = gs[k].wake
        /\ group'[k].probe = gs[k].probe /\ group'[k].fwd = gs[k].fwd
        /\ group'[k].prog <=> (gs[k].prog /\ (open \/ gs[k].wake # NoThread
                                           \/ gs[k].probe \/ gs[k].fwd))
    BY <1>2, <2>1, SettleFields
  <2> QED
    BY Zenon, <2>2, <2>3 DEF open
<1> QED
  BY Zenon, <1>3, <1>4

-----------------------------------------------------------------------------
(* Types. *)

\* Reset finds a goroutine for the next wake listener.
LEMMA FreeWatcher ==
    ASSUME Typed, NEW k \in Keys, AttachWake(k)
    PROVE  \E w \in Watchers :
              /\ Free(w)
              /\ group' = [group EXCEPT ![k].wake = w, ![k].prog = TRUE]
              /\ pc' = [pc EXCEPT ![w] = "poll"]
              /\ found' = [found EXCEPT ![w] = FALSE]
<1>1. \E v \in Watchers : Free(v)
  BY Zenon DEF Typed, Spare, AttachWake
<1> QED
  BY Zenon, <1>1 DEF AttachWake

\* The fields of the group of a port when its wake listener is attached, ...
LEMMA AttachWakeEffect ==
    ASSUME Typed, NEW k \in Keys, AttachWake(k)
    PROVE  \E w \in Watchers :
              /\ UNCHANGED <<register, registeredWake, downVars, contVars,
                             connVars, upset>>
              /\ down = "resetting" /\ k \in todo /\ group[k].wake = NoThread
              /\ Free(w)
              /\ pc' = [pc EXCEPT ![w] = "poll"]
              /\ found' = [found EXCEPT ![w] = FALSE]
              /\ GroupsOK'
              /\ group'[k].wake = w /\ group'[k].prog
              /\ group'[k].app = group[k].app
              /\ group'[k].probe = group[k].probe
              /\ group'[k].fwd = group[k].fwd
              /\ \A j \in Keys \ {k} : group'[j] = group[j]
<1>1. PICK w \in Watchers :
              /\ Free(w)
              /\ group' = [group EXCEPT ![k].wake = w, ![k].prog = TRUE]
              /\ pc' = [pc EXCEPT ![w] = "poll"]
              /\ found' = [found EXCEPT ![w] = FALSE]
  BY Zenon, FreeWatcher
<1>2. group[k] \in Groups /\ group \in [Keys -> Groups]
  BY Zenon DEF Typed, GroupsOK
<1>3. group' = [group EXCEPT ![k] = [group[k] EXCEPT !.wake = w, !.prog = TRUE]]
  BY Zenon, <1>1, <1>2
<1>4. [group[k] EXCEPT !.wake = w, !.prog = TRUE] \in Groups
  BY Zenon, <1>2 DEF Groups
<1>5. GroupsOK'
  BY Zenon, <1>2, <1>3, <1>4 DEF GroupsOK
<1>6. /\ group'[k].wake = w /\ group'[k].prog
      /\ group'[k].app = group[k].app
      /\ group'[k].probe = group[k].probe
      /\ group'[k].fwd = group[k].fwd
      /\ \A j \in Keys \ {k} : group'[j] = group[j]
  BY Zenon, <1>2, <1>3 DEF Groups
<1>7. /\ UNCHANGED <<register, registeredWake, downVars, contVars, connVars,
                     upset>>
      /\ down = "resetting" /\ k \in todo /\ group[k].wake = NoThread
  BY Zenon DEF AttachWake
<1> QED
  BY Zenon, <1>1, <1>5, <1>6, <1>7

\* ... and when its probe listener is.
LEMMA AttachProbeEffect ==
    ASSUME Typed, NEW k \in Keys, AttachProbe(k)
    PROVE  /\ GroupsOK'
           /\ group'[k].probe
           /\ group'[k].app = group[k].app
           /\ group'[k].wake = group[k].wake
           /\ group'[k].fwd = group[k].fwd
           /\ group'[k].prog = group[k].prog
           /\ \A j \in Keys \ {k} : group'[j] = group[j]
<1>1. group[k] \in Groups /\ group \in [Keys -> Groups]
  BY Zenon DEF Typed, GroupsOK
<1>2. group' = [group EXCEPT ![k] = [group[k] EXCEPT !.probe = TRUE]]
  BY Zenon, <1>1 DEF AttachProbe
<1>3. [group[k] EXCEPT !.probe = TRUE] \in Groups
  BY Zenon, <1>1 DEF Groups
<1> QED
  BY Zenon, <1>1, <1>2, <1>3 DEF Groups, GroupsOK

\* Each step assigns a truth value to a flag or leaves it alone.
LEMMA FlagsStep ==
    Flags /\ [Next]_vars => Flags'
<1> SUFFICES ASSUME Flags, [Next]_vars PROVE Flags'
  BY Zenon
<1> USE DEF Flags
<1>1. ASSUME NEW c \in Conns, NEW k \in Keys, Connect(c, k) PROVE Flags'
  BY Zenon, <1>1 DEF Connect
<1>2. ASSUME NEW c \in Conns, AppAccepts(c) \/ HandleProbe(c) PROVE Flags'
  BY Zenon, <1>2 DEF AppAccepts, HandleProbe
<1>3. ASSUME NEW w \in Watchers, PollReturns(w) \/ AlreadyRestored(w) \/
     RestoreLock(w) \/ Restored(w) \/ CapacityDenied(w) \/ LockRegister(w) \/
     RegisterNothing(w) \/ RegisterFails(w) \/ ForwardToTarget(w) \/
     RegisterListeners(w) \/ CloseListeners(w) PROVE Flags'
  BY Zenon, <1>3 DEF PollReturns, AlreadyRestored, RestoreLock, Restored,
       CapacityDenied, LockRegister, RegisterNothing, RegisterFails,
       ForwardToTarget, RegisterListeners, CloseListeners, StopPolling
<1>4. ASSUME NEW k \in Keys, AttachWake(k) \/ AttachProbe(k) PROVE Flags'
  BY Zenon, <1>4 DEF AttachWake, AttachProbe
<1>5. CASE AppListens \/ TimerFires \/ ResetCloses \/ ResetFails \/
     CheckpointLock \/ Dumped \/ DumpFails
  BY Zenon, <1>5 DEF AppListens, TimerFires, ResetCloses, StopPolling, ResetFails,
       ScaleDownFailed, CheckpointLock, Dumped, DumpFails
<1>6. CASE UNCHANGED vars
  BY Zenon, <1>6 DEF vars
<1>7. ASSUME NEW w \in Watchers, RegisterPartly(w) PROVE Flags'
  BY Zenon, <1>7 DEF RegisterPartly
<1> QED
  BY Zenon, <1>1, <1>2, <1>3, <1>4, <1>5, <1>6, <1>7 DEF Next, WakeStep, DownStep

\* So do those of found.
LEMMA FoundsStep ==
    Typed /\ [Next]_vars => Founds'
<1> SUFFICES ASSUME Typed, [Next]_vars PROVE Founds'
  BY Zenon
<1> USE DEF Typed, Founds
<1>1. ASSUME NEW c \in Conns, NEW k \in Keys, Connect(c, k) PROVE Founds'
  BY Zenon, <1>1 DEF Connect
<1>2. ASSUME NEW c \in Conns, AppAccepts(c) \/ HandleProbe(c) PROVE Founds'
  BY Zenon, <1>2 DEF AppAccepts, HandleProbe
<1>3. ASSUME NEW w \in Watchers, AlreadyRestored(w) \/ Restored(w) PROVE
     Founds'
  BY ZenonT(30), <1>3 DEF AlreadyRestored, Restored
<1>4. ASSUME NEW w \in Watchers, PollReturns(w) \/ RestoreLock(w) \/
     CapacityDenied(w) \/ LockRegister(w) \/ RegisterNothing(w) \/
     RegisterFails(w) \/ ForwardToTarget(w) \/ RegisterListeners(w) \/
     CloseListeners(w) PROVE Founds'
  BY Zenon, <1>4 DEF PollReturns, RestoreLock, CapacityDenied, LockRegister,
       RegisterNothing, RegisterFails, ForwardToTarget, RegisterListeners,
       CloseListeners, StopPolling
<1>5. ASSUME NEW k \in Keys, AttachWake(k) PROVE Founds'
  BY Zenon, <1>5, AttachWakeEffect DEF AttachWake
<1>6. ASSUME NEW k \in Keys, AttachProbe(k) PROVE Founds'
  BY Zenon, <1>6 DEF AttachProbe
<1>7. CASE Dumped
  BY Zenon, <1>7 DEF Dumped
<1>8. CASE AppListens \/ TimerFires \/ ResetCloses \/ ResetFails \/
     CheckpointLock \/ DumpFails
  BY Zenon, <1>8 DEF AppListens, TimerFires, ResetCloses, StopPolling, ResetFails,
       ScaleDownFailed, CheckpointLock, DumpFails
<1>9. CASE UNCHANGED vars
  BY Zenon, <1>9 DEF vars
<1>10. ASSUME NEW w \in Watchers, RegisterPartly(w) PROVE Founds'
  BY Zenon, <1>10 DEF RegisterPartly
<1> QED
  BY Zenon, <1>1, <1>2, <1>3, <1>4, <1>5, <1>6, <1>7, <1>8, <1>9, <1>10 DEF Next, WakeStep,
       DownStep

\* The groups keep their type.
LEMMA GroupsStep ==
    Typed /\ [Next]_vars => GroupsOK'
<1> SUFFICES ASSUME Typed, [Next]_vars PROVE GroupsOK'
  BY Zenon
<1>1. ASSUME NEW c \in Conns, NEW k \in Keys, Connect(c, k) PROVE GroupsOK'
  BY Zenon, <1>1 DEF Connect, Typed, GroupsOK
<1>2. ASSUME NEW c \in Conns, AppAccepts(c) \/ HandleProbe(c) PROVE GroupsOK'
  BY Zenon, <1>2 DEF AppAccepts, HandleProbe, Typed, GroupsOK
<1>3. ASSUME NEW w \in Watchers, PollReturns(w) \/ AlreadyRestored(w) \/
     RestoreLock(w) \/ Restored(w) \/ CapacityDenied(w) \/ LockRegister(w) \/
     RegisterNothing(w) \/ RegisterFails(w) PROVE GroupsOK'
  BY Zenon, <1>3 DEF PollReturns, AlreadyRestored, RestoreLock, Restored,
       CapacityDenied, LockRegister, RegisterNothing, RegisterFails, Typed,
       GroupsOK
<1>4. ASSUME NEW w \in Watchers, ForwardToTarget(w) PROVE GroupsOK'
  <2> QED
    BY Zenon, <1>4, ForwardEffect
<1>5. ASSUME NEW w \in Watchers, RegisterListeners(w) PROVE GroupsOK'
  <2> QED
    BY Zenon, <1>5, RegisterEffect
<1>6. ASSUME NEW w \in Watchers, CloseListeners(w) PROVE GroupsOK'
  <2> QED
    BY Zenon, <1>6, CloseEffect
<1>7. ASSUME NEW k \in Keys, AttachWake(k) PROVE GroupsOK'
  <2> QED
    BY Zenon, <1>7, AttachWakeEffect
<1>8. ASSUME NEW k \in Keys, AttachProbe(k) PROVE GroupsOK'
  <2> QED
    BY Zenon, <1>8, AttachProbeEffect
<1>9. CASE Dumped
  <2> QED
    BY Zenon, <1>9, DumpEffect
<1>10. CASE ResetCloses
  <2> QED
    BY Zenon, <1>10, ResetEffect
<1>11. CASE AppListens \/ TimerFires \/ ResetFails \/ CheckpointLock \/
     DumpFails
  BY Zenon, <1>11 DEF AppListens, TimerFires, ResetFails, ScaleDownFailed,
       CheckpointLock, DumpFails, Typed, GroupsOK
<1>12. CASE UNCHANGED vars
  BY Zenon, <1>12 DEF vars, Typed, GroupsOK
<1>13. ASSUME NEW w \in Watchers, RegisterPartly(w) PROVE GroupsOK'
  BY Zenon, <1>13, PartlyEffect DEF RegisterPartly
<1> QED
  BY Zenon, <1>1, <1>2, <1>3, <1>4, <1>5, <1>6, <1>7, <1>8, <1>9, <1>10, <1>11,
       <1>12, <1>13 DEF Next, WakeStep, DownStep

\* Connections are at one of the places.
LEMMA ConnectionsStep ==
    Typed /\ [Next]_vars => Connections'
<1> SUFFICES ASSUME Typed, [Next]_vars PROVE Connections'
  BY Zenon
<1> USE DEF Typed, Connections, Upsets
<1>1. ASSUME NEW c \in Conns, NEW k \in Keys, Connect(c, k) PROVE
     Connections'
  <2>1. group[k] \in Groups
    BY Zenon DEF GroupsOK
  <2>2. Select(c, group[k]) \in Places
    BY <2>1, Selected DEF Select, Places
  <2> QED
    BY Zenon, <1>1, <2>2 DEF Connect
<1>2. ASSUME NEW c \in Conns, AppAccepts(c) \/ HandleProbe(c) PROVE
     Connections'
  BY Zenon, <1>2 DEF AppAccepts, HandleProbe, Places
<1>3. ASSUME NEW w \in Watchers, PollReturns(w) \/ AlreadyRestored(w) \/
     RestoreLock(w) \/ Restored(w) \/ CapacityDenied(w) \/ LockRegister(w) \/
     RegisterNothing(w) \/ RegisterFails(w) PROVE Connections'
  BY ZenonT(30), <1>3 DEF PollReturns, AlreadyRestored, RestoreLock, Restored,
       CapacityDenied, LockRegister, RegisterNothing, RegisterFails
<1>4. ASSUME NEW w \in Watchers, ForwardToTarget(w) PROVE Connections'
  BY Zenon, <1>4, ForwardEffect DEF ForwardToTarget
<1>5. ASSUME NEW w \in Watchers, RegisterListeners(w) PROVE Connections'
  BY Zenon, <1>5, RegisterEffect DEF RegisterListeners
<1>6. ASSUME NEW w \in Watchers, CloseListeners(w) PROVE Connections'
  BY Zenon, <1>6, CloseEffect DEF CloseListeners, StopPolling
<1>7. ASSUME NEW k \in Keys, AttachWake(k) \/ AttachProbe(k) PROVE
     Connections'
  BY Zenon, <1>7 DEF AttachWake, AttachProbe
<1>8. CASE Dumped
  BY Zenon, <1>8, DumpEffect DEF Dumped
<1>9. CASE ResetCloses
  BY Zenon, <1>9, ResetEffect DEF ResetCloses, StopPolling
<1>10. CASE AppListens \/ TimerFires \/ ResetFails \/ CheckpointLock \/
     DumpFails
  BY Zenon, <1>10 DEF AppListens, TimerFires, ResetFails, ScaleDownFailed,
       CheckpointLock, DumpFails
<1>11. CASE UNCHANGED vars
  BY Zenon, <1>11 DEF vars
<1>12. ASSUME NEW w \in Watchers, RegisterPartly(w) PROVE Connections'
  BY Zenon, <1>12, PartlyEffect DEF RegisterPartly
<1> QED
  BY Zenon, <1>1, <1>2, <1>3, <1>4, <1>5, <1>6, <1>7, <1>8, <1>9, <1>10, <1>11, <1>12 DEF
       Next, WakeStep, DownStep

\* The mutex CheckpointRestore is held by one goroutine.
LEMMA ThreadsStep ==
    Typed /\ [Next]_vars => Threads'
<1> SUFFICES ASSUME Typed, [Next]_vars PROVE Threads'
  BY Zenon
<1> USE WatchersAssumption DEF Typed, Threads, WakeLabels, DownLabels
<1>1. ASSUME NEW c \in Conns, NEW k \in Keys, Connect(c, k) PROVE Threads'
  BY Zenon, <1>1 DEF Connect
<1>2. ASSUME NEW c \in Conns, AppAccepts(c) \/ HandleProbe(c) PROVE Threads'
  BY Zenon, <1>2 DEF AppAccepts, HandleProbe
<1>3. ASSUME NEW w \in Watchers, PollReturns(w) PROVE Threads'
  BY Zenon, <1>3 DEF PollReturns
<1>4. ASSUME NEW w \in Watchers, AlreadyRestored(w) PROVE Threads'
  BY Zenon, <1>4 DEF AlreadyRestored
<1>5. ASSUME NEW w \in Watchers, RestoreLock(w) PROVE Threads'
  BY Zenon, <1>5 DEF RestoreLock
<1>6. ASSUME NEW w \in Watchers, Restored(w) PROVE Threads'
  BY Zenon, <1>6 DEF Restored
<1>7. ASSUME NEW w \in Watchers, CapacityDenied(w) PROVE Threads'
  BY Zenon, <1>7 DEF CapacityDenied
<1>8. ASSUME NEW w \in Watchers, LockRegister(w) PROVE Threads'
  BY Zenon, <1>8 DEF LockRegister
<1>9. ASSUME NEW w \in Watchers, RegisterNothing(w) PROVE Threads'
  BY Zenon, <1>9 DEF RegisterNothing
<1>10. ASSUME NEW w \in Watchers, RegisterFails(w) PROVE Threads'
  BY Zenon, <1>10 DEF RegisterFails
<1>11. ASSUME NEW w \in Watchers, ForwardToTarget(w) PROVE Threads'
  BY ZenonT(30), <1>11 DEF ForwardToTarget
<1>12. ASSUME NEW w \in Watchers, RegisterListeners(w) PROVE Threads'
  BY Zenon, <1>12 DEF RegisterListeners
<1>13. ASSUME NEW w \in Watchers, CloseListeners(w) PROVE Threads'
  BY Zenon, <1>13 DEF CloseListeners, StopPolling
<1>14. ASSUME NEW k \in Keys, AttachWake(k) PROVE Threads'
  <2>1. PICK w \in Watchers : Free(w) /\ pc' = [pc EXCEPT ![w] = "poll"]
    BY Zenon, <1>14, AttachWakeEffect
  <2> QED
    BY Zenon, <1>14, <2>1 DEF AttachWake, Free
<1>15. ASSUME NEW k \in Keys, AttachProbe(k) PROVE Threads'
  BY Zenon, <1>15 DEF AttachProbe
<1>16. CASE Dumped
  BY Zenon, <1>16 DEF Dumped
<1>17. CASE ResetCloses
  BY Zenon, <1>17 DEF ResetCloses, StopPolling
<1>18. CASE AppListens \/ TimerFires
  BY Zenon, <1>18 DEF AppListens, TimerFires
<1>19. CASE ResetFails \/ DumpFails
  BY Zenon, <1>19 DEF ResetFails, ScaleDownFailed, DumpFails
<1>20. CASE CheckpointLock
  BY Zenon, <1>20 DEF CheckpointLock
<1>21. CASE UNCHANGED vars
  BY Zenon, <1>21 DEF vars
<1>22. ASSUME NEW w \in Watchers, RegisterPartly(w) PROVE Threads'
  BY Zenon, <1>22, PartlyEffect DEF RegisterPartly
<1> QED
  BY ZenonT(30), <1>1, <1>2, <1>3, <1>4, <1>5, <1>6, <1>7, <1>8, <1>9, <1>10, <1>11,
       <1>12, <1>13, <1>14, <1>15, <1>16, <1>17, <1>18, <1>19, <1>20, <1>21, <1>22
       DEF Next, WakeStep, DownStep

-----------------------------------------------------------------------------
(* The application and the register mutex. *)

\* Only a dump ends the process, and it closes its sockets.
LEMMA ProcessStep ==
    Typed /\ Process /\ [Next]_vars => Process'
<1> SUFFICES ASSUME Typed, Process, [Next]_vars PROVE Process'
  BY Zenon
<1> USE WatchersAssumption DEF Typed, Threads, Process
<1>1. ASSUME NEW c \in Conns, NEW k \in Keys, Connect(c, k) PROVE Process'
  BY Zenon, <1>1 DEF Connect
<1>2. ASSUME NEW c \in Conns, AppAccepts(c) \/ HandleProbe(c) PROVE Process'
  BY <1>2 DEF AppAccepts, HandleProbe
<1>3. ASSUME NEW w \in Watchers, PollReturns(w) PROVE Process'
  BY Zenon, <1>3 DEF PollReturns
<1>4. ASSUME NEW w \in Watchers, AlreadyRestored(w) PROVE Process'
  BY Zenon, <1>4 DEF AlreadyRestored
<1>5. ASSUME NEW w \in Watchers, RestoreLock(w) PROVE Process'
  BY Zenon, <1>5 DEF RestoreLock
<1>6. ASSUME NEW w \in Watchers, Restored(w) PROVE Process'
  BY Zenon, <1>6 DEF Restored
<1>7. ASSUME NEW w \in Watchers, CapacityDenied(w) PROVE Process'
  BY Zenon, <1>7 DEF CapacityDenied
<1>8. ASSUME NEW w \in Watchers, LockRegister(w) PROVE Process'
  BY Zenon, <1>8 DEF LockRegister
<1>9. ASSUME NEW w \in Watchers, RegisterNothing(w) PROVE Process'
  BY Zenon, <1>9 DEF RegisterNothing
<1>10. ASSUME NEW w \in Watchers, RegisterFails(w) PROVE Process'
  BY Zenon, <1>10 DEF RegisterFails
<1>11. ASSUME NEW w \in Watchers, ForwardToTarget(w) PROVE Process'
  BY ZenonT(30), <1>11, ForwardEffect DEF ForwardToTarget
<1>12. ASSUME NEW w \in Watchers, RegisterListeners(w) PROVE Process'
  BY Zenon, <1>12, RegisterEffect DEF RegisterListeners
<1>13. ASSUME NEW w \in Watchers, CloseListeners(w) PROVE Process'
  BY Zenon, <1>13, CloseEffect DEF CloseListeners, StopPolling
<1>14. ASSUME NEW k \in Keys, AttachWake(k) PROVE Process'
  <2>1. PICK w \in Watchers : Free(w) /\ pc' = [pc EXCEPT ![w] = "poll"]
    BY Zenon, <1>14, AttachWakeEffect
  <2>2. \A j \in Keys : group'[j].app = group[j].app
    BY Zenon, <1>14, AttachWakeEffect
  <2> QED
    BY Zenon, <1>14, <2>1, <2>2 DEF AttachWake, Free
<1>15. ASSUME NEW k \in Keys, AttachProbe(k) PROVE Process'
  BY <1>15, AttachProbeEffect DEF AttachProbe
<1>16. CASE AppListens
  BY Zenon, <1>16 DEF AppListens
<1>17. CASE ResetCloses
  BY Zenon, <1>17, ResetEffect DEF ResetCloses, StopPolling
<1>18. CASE TimerFires
  BY Zenon, <1>18 DEF TimerFires
<1>19. CASE ResetFails
  BY Zenon, <1>19 DEF ResetFails, ScaleDownFailed
<1>20. CASE CheckpointLock
  BY Zenon, <1>20 DEF CheckpointLock
<1>21. CASE Dumped
  BY Zenon, <1>21, DumpEffect DEF Dumped
<1>22. CASE DumpFails
  BY Zenon, <1>22 DEF DumpFails, ScaleDownFailed
<1>23. CASE UNCHANGED vars
  BY Zenon, <1>23 DEF vars
<1>24. ASSUME NEW w \in Watchers, RegisterPartly(w) PROVE Process'
  BY Zenon, <1>24, PartlyEffect DEF RegisterPartly
<1> QED
  BY ZenonT(30), <1>1, <1>2, <1>3, <1>4, <1>5, <1>6, <1>7, <1>8, <1>9, <1>10, <1>11,
       <1>12, <1>13, <1>14, <1>15, <1>16, <1>17, <1>18, <1>19, <1>20, <1>21,
       <1>22, <1>23, <1>24 DEF Next, WakeStep, DownStep

\* Unless a wake-up kept it, the register mutex is given back.
LEMMA RegistrarStep ==
    Typed /\ Registrar /\ [Next]_vars => Registrar'
<1> SUFFICES ASSUME Typed, Registrar, [Next]_vars PROVE Registrar'
  BY Zenon
<1> USE WatchersAssumption DEF Typed, Threads, Registrar, Calm
<1>1. ASSUME NEW c \in Conns, NEW k \in Keys, Connect(c, k) PROVE Registrar'
  BY Zenon, <1>1 DEF Connect
<1>2. ASSUME NEW c \in Conns, AppAccepts(c) \/ HandleProbe(c) PROVE
     Registrar'
  BY Zenon, <1>2 DEF AppAccepts, HandleProbe
<1>3. ASSUME NEW w \in Watchers, PollReturns(w) PROVE Registrar'
  BY Zenon, <1>3 DEF PollReturns
<1>4. ASSUME NEW w \in Watchers, AlreadyRestored(w) PROVE Registrar'
  BY Zenon, <1>4 DEF AlreadyRestored
<1>5. ASSUME NEW w \in Watchers, RestoreLock(w) PROVE Registrar'
  BY Zenon, <1>5 DEF RestoreLock
<1>6. ASSUME NEW w \in Watchers, Restored(w) PROVE Registrar'
  BY Zenon, <1>6 DEF Restored
<1>7. ASSUME NEW w \in Watchers, CapacityDenied(w) PROVE Registrar'
  BY Zenon, <1>7 DEF CapacityDenied
<1>8. ASSUME NEW w \in Watchers, LockRegister(w) PROVE Registrar'
  BY <1>8 DEF LockRegister
<1>9. ASSUME NEW w \in Watchers, RegisterNothing(w) PROVE Registrar'
  BY Zenon, <1>9 DEF RegisterNothing
<1>10. ASSUME NEW w \in Watchers, RegisterFails(w) PROVE Registrar'
  BY Zenon, <1>10 DEF RegisterFails
<1>11. ASSUME NEW w \in Watchers, ForwardToTarget(w) PROVE Registrar'
  BY ZenonT(30), <1>11 DEF ForwardToTarget
<1>12. ASSUME NEW w \in Watchers, RegisterListeners(w) PROVE Registrar'
  BY Zenon, <1>12 DEF RegisterListeners
<1>13. ASSUME NEW w \in Watchers, CloseListeners(w) PROVE Registrar'
  BY Zenon, <1>13 DEF CloseListeners, StopPolling
<1>14. ASSUME NEW k \in Keys, AttachWake(k) PROVE Registrar'
  <2>1. PICK w \in Watchers : Free(w) /\ pc' = [pc EXCEPT ![w] = "poll"]
    BY Zenon, <1>14, AttachWakeEffect
  <2> QED
    BY <1>14, <2>1 DEF AttachWake, Free
<1>15. CASE ResetCloses
  BY Zenon, <1>15 DEF ResetCloses, StopPolling
<1>16. ASSUME NEW k \in Keys, AttachProbe(k) PROVE Registrar'
  BY Zenon, <1>16 DEF AttachProbe
<1>17. CASE AppListens \/ TimerFires \/ ResetFails \/ CheckpointLock \/
     Dumped \/ DumpFails
  BY Zenon, <1>17 DEF AppListens, TimerFires, ResetFails, ScaleDownFailed,
       CheckpointLock, Dumped, DumpFails
<1>18. CASE UNCHANGED vars
  BY Zenon, <1>18 DEF vars
<1>19. ASSUME NEW w \in Watchers, RegisterPartly(w) PROVE Registrar'
  BY Zenon, <1>19, PartlyEffect DEF RegisterPartly
<1> QED
  BY Zenon, <1>1, <1>2, <1>3, <1>4, <1>5, <1>6, <1>7, <1>8, <1>9, <1>10, <1>11,
       <1>12, <1>13, <1>14, <1>15, <1>16, <1>17, <1>18, <1>19 DEF Next, WakeStep,
       DownStep

-----------------------------------------------------------------------------
(* The listeners. *)

\* When Reset begins nobody is inside wake, if wake-ups end in time: a mutex
\* that was given back is not waited for.
LEMMA ResetAlone ==
    ASSUME Prompt, Typed, Process, Registrar, Registered, Calm, ResetCloses
    PROVE  /\ \A w \in Watchers : pc[w] \in {"idle", "poll"}
           /\ \A k \in Keys : group[k].app = "app"
<1>1. \A w \in Watchers : ~Runnable(w)
  BY Zenon DEF ResetCloses
<1>2. register = NoThread
  BY Zenon, <1>1 DEF Typed, Threads, Registrar, Runnable
<1>3. \A w \in Watchers : pc[w] \in {"idle", "poll"}
  BY Zenon, <1>1, <1>2 DEF Runnable
<1>4. ~scaledDown
  BY Zenon DEF ResetCloses, Process
<1> QED
  BY Zenon, <1>3, <1>4 DEF Registered


\* Nothing that went wrong is forgotten.
LEMMA UpsetGrows ==
    [Next]_vars => upset \subseteq upset' /\ kubelet' = kubelet
<1> SUFFICES ASSUME [Next]_vars PROVE upset \subseteq upset' /\ kubelet' =
     kubelet
  BY Zenon
<1>1. ASSUME NEW c \in Conns, NEW k \in Keys, Connect(c, k) PROVE upset
     \subseteq upset' /\ kubelet' = kubelet
  BY Zenon, <1>1 DEF Connect
<1>2. ASSUME NEW c \in Conns, AppAccepts(c) \/ HandleProbe(c) PROVE upset
     \subseteq upset' /\ kubelet' = kubelet
  BY Zenon, <1>2 DEF AppAccepts, HandleProbe
<1>3. ASSUME NEW w \in Watchers, PollReturns(w) \/ AlreadyRestored(w) \/
     RestoreLock(w) \/ Restored(w) \/ CapacityDenied(w) \/ LockRegister(w) \/
     RegisterNothing(w) \/ RegisterFails(w) \/ ForwardToTarget(w) \/
     RegisterListeners(w) \/ CloseListeners(w) PROVE upset \subseteq upset'
     /\ kubelet' = kubelet
  BY Zenon, <1>3 DEF PollReturns, AlreadyRestored, RestoreLock, Restored,
       CapacityDenied, LockRegister, RegisterNothing, RegisterFails,
       ForwardToTarget, RegisterListeners, CloseListeners, StopPolling
<1>4. ASSUME NEW k \in Keys, AttachWake(k) \/ AttachProbe(k) PROVE upset
     \subseteq upset' /\ kubelet' = kubelet
  BY Zenon, <1>4 DEF AttachWake, AttachProbe
<1>5. CASE AppListens \/ TimerFires \/ ResetFails \/ CheckpointLock \/
     DumpFails \/ ResetCloses \/ Dumped
  BY Zenon, <1>5 DEF AppListens, TimerFires, ResetFails, ScaleDownFailed,
       CheckpointLock, DumpFails, ResetCloses, StopPolling, Dumped
<1>6. CASE UNCHANGED vars
  BY Zenon, <1>6 DEF vars
<1>7. ASSUME NEW w \in Watchers, RegisterPartly(w) PROVE upset \subseteq upset'
     /\ kubelet' = kubelet
  BY Zenon, <1>7 DEF RegisterPartly
<1> QED
  BY Zenon, <1>1, <1>2, <1>3, <1>4, <1>5, <1>6, <1>7 DEF Next, WakeStep, DownStep

\* A calm state comes after calm ones only.
LEMMA CalmBefore == [Next]_vars /\ Calm' => Calm
  BY Zenon, UpsetGrows DEF Calm

\* Every port keeps a listener for its connections.
LEMMA CoveredStep ==
    Prompt /\ Typed /\ Process /\ Registrar /\ Registered /\ Closing /\ Alone
         /\ Covered /\ [Next]_vars => Covered'
<1> SUFFICES ASSUME Prompt, Typed, Process, Registrar, Registered, Closing,
     Alone, Covered, [Next]_vars PROVE Covered'
  BY Zenon
<1> USE CalmBefore DEF Typed, Covered
<1>1. ASSUME NEW c \in Conns, NEW k \in Keys, Connect(c, k) PROVE Covered'
  BY Zenon, <1>1 DEF Connect
<1>2. ASSUME NEW c \in Conns, AppAccepts(c) \/ HandleProbe(c) PROVE Covered'
  BY Zenon, <1>2 DEF AppAccepts, HandleProbe
<1>3. ASSUME NEW w \in Watchers, PollReturns(w) \/ AlreadyRestored(w) \/
     RestoreLock(w) \/ Restored(w) \/ CapacityDenied(w) \/ LockRegister(w) \/
     RegisterNothing(w) \/ RegisterFails(w) PROVE Covered'
  BY Zenon, <1>3 DEF PollReturns, AlreadyRestored, RestoreLock, Restored,
       CapacityDenied, LockRegister, RegisterNothing, RegisterFails
<1>4. ASSUME NEW w \in Watchers, ForwardToTarget(w) PROVE Covered'
  BY ZenonT(30), <1>4, ForwardEffect DEF ForwardToTarget
<1>5. ASSUME NEW w \in Watchers, RegisterListeners(w) PROVE Covered'
  BY Zenon, <1>5, RegisterEffect DEF RegisterListeners
<1>6. ASSUME NEW w \in Watchers, CloseListeners(w) PROVE Covered'
  <2>1. Calm => \A k \in Keys : group[k].app # "none"
    BY Zenon, <1>6 DEF CloseListeners, Closing
  <2>2. \A k \in Keys : group[k].app \in {"none", "app", "fwd"}
    BY Zenon, GroupsClosed DEF GroupsOK
  <2> QED
    BY Zenon, <1>6, <2>1, <2>2, CloseEffect DEF Process
<1>7. ASSUME NEW k \in Keys, AttachWake(k) PROVE Covered'
  <2>1. PICK w \in Watchers :
           /\ UNCHANGED <<register, registeredWake, downVars, contVars,
                          connVars, upset>>
           /\ down = "resetting" /\ k \in todo /\ group[k].wake = NoThread
           /\ Free(w) /\ pc' = [pc EXCEPT ![w] = "poll"]
           /\ group'[k].wake = w /\ group'[k].prog
           /\ group'[k].app = group[k].app
           /\ group'[k].probe = group[k].probe
           /\ group'[k].fwd = group[k].fwd
           /\ \A j \in Keys \ {k} : group'[j] = group[j]
    BY Zenon, <1>7, AttachWakeEffect
  <2> QED
    BY Zenon, <2>1 DEF Free, Calm
<1>8. ASSUME NEW k \in Keys, AttachProbe(k) PROVE Covered'
  BY <1>8, AttachProbeEffect DEF AttachProbe
<1>9. CASE ResetCloses
  <2>1. Calm => \A k \in Keys : group[k].app = "app"
    BY Zenon, <1>9, ResetAlone
  <2> QED
    BY Zenon, <1>9, <2>1, ResetEffect DEF Process
<1>10. CASE Dumped
  <2>1. Calm => \A k \in Keys : group[k].wake # NoThread /\ group[k].probe
    BY Zenon, <1>10 DEF Dumped, Alone, Enough
  <2>2. \A k \in Keys : group[k].app \in {"none", "app", "fwd"}
    BY Zenon, GroupsClosed DEF GroupsOK
  <2> QED
    BY <1>10, <2>1, <2>2, DumpEffect
<1>11. CASE AppListens \/ TimerFires \/ ResetFails \/ CheckpointLock \/
     DumpFails
  BY Zenon, <1>11 DEF AppListens, TimerFires, ResetFails, ScaleDownFailed,
       CheckpointLock, DumpFails
<1>12. CASE UNCHANGED vars
  BY Zenon, <1>12 DEF vars
<1>13. ASSUME NEW w \in Watchers, RegisterPartly(w) PROVE Covered'
  BY Zenon, <1>13, PartlyEffect DEF RegisterPartly
<1> QED
  BY Zenon, <1>1, <1>2, <1>3, <1>4, <1>5, <1>6, <1>7, <1>8, <1>9, <1>10, <1>11,
       <1>12, <1>13 DEF Next, WakeStep, DownStep

\* A goroutine that ends has closed its listener, or failed.
LEMMA PolledStep ==
    Typed /\ Polled /\ [Next]_vars => Polled'
<1> SUFFICES ASSUME Typed, Polled, [Next]_vars PROVE Polled'
  BY Zenon
<1> USE CalmBefore DEF Typed, Polled, Threads
<1>0. \A k \in Keys : group[k].wake \in Watchers \cup {NoThread}
  BY Zenon, GroupsClosed DEF GroupsOK
<1>1. ASSUME NEW c \in Conns, NEW k \in Keys, Connect(c, k) PROVE Polled'
  BY Zenon, <1>1, <1>0 DEF Connect
<1>2. ASSUME NEW c \in Conns, AppAccepts(c) \/ HandleProbe(c) PROVE Polled'
  BY Zenon, <1>2, <1>0 DEF AppAccepts, HandleProbe
<1>3. ASSUME NEW w \in Watchers, PollReturns(w) PROVE Polled'
  BY Zenon, <1>3, <1>0 DEF PollReturns
<1>4. ASSUME NEW w \in Watchers, AlreadyRestored(w) PROVE Polled'
  BY Zenon, <1>4, <1>0 DEF AlreadyRestored
<1>5. ASSUME NEW w \in Watchers, RestoreLock(w) PROVE Polled'
  BY Zenon, <1>5, <1>0 DEF RestoreLock
<1>6. ASSUME NEW w \in Watchers, Restored(w) PROVE Polled'
  BY Zenon, <1>6, <1>0 DEF Restored
<1>7. ASSUME NEW w \in Watchers, CapacityDenied(w) PROVE Polled'
  BY Zenon, <1>7, <1>0 DEF CapacityDenied
<1>8. ASSUME NEW w \in Watchers, LockRegister(w) PROVE Polled'
  BY Zenon, <1>8, <1>0 DEF LockRegister
<1>9. ASSUME NEW w \in Watchers, RegisterNothing(w) PROVE Polled'
  BY Zenon, <1>9, <1>0 DEF RegisterNothing
<1>10. ASSUME NEW w \in Watchers, RegisterFails(w) PROVE Polled'
  BY Zenon, <1>10, <1>0 DEF RegisterFails, Calm
<1>11. ASSUME NEW w \in Watchers, ForwardToTarget(w) PROVE Polled'
  BY ZenonT(30), <1>11, <1>0, ForwardEffect DEF ForwardToTarget
<1>12. ASSUME NEW w \in Watchers, RegisterListeners(w) PROVE Polled'
  BY ZenonT(30), <1>12, <1>0, RegisterEffect DEF RegisterListeners
<1>13. ASSUME NEW w \in Watchers, CloseListeners(w) PROVE Polled'
  BY Zenon, <1>13, <1>0, CloseEffect DEF CloseListeners, StopPolling
<1>14. ASSUME NEW k \in Keys, AttachWake(k) PROVE Polled'
  <2>1. PICK w \in Watchers :
           /\ UNCHANGED <<register, registeredWake, downVars, contVars,
                          connVars, upset>>
           /\ down = "resetting" /\ k \in todo /\ group[k].wake = NoThread
           /\ Free(w) /\ pc' = [pc EXCEPT ![w] = "poll"]
           /\ group'[k].wake = w /\ group'[k].prog
           /\ group'[k].app = group[k].app
           /\ group'[k].probe = group[k].probe
           /\ group'[k].fwd = group[k].fwd
           /\ \A j \in Keys \ {k} : group'[j] = group[j]
    BY Zenon, <1>14, AttachWakeEffect
  <2> QED
    BY <2>1 DEF Free, Calm
<1>15. ASSUME NEW k \in Keys, AttachProbe(k) PROVE Polled'
  BY <1>15, <1>0, AttachProbeEffect DEF AttachProbe
<1>16. CASE ResetCloses
  BY Zenon, <1>16, <1>0, ResetEffect DEF ResetCloses, StopPolling
<1>17. CASE Dumped
  BY Zenon, <1>17, <1>0, DumpEffect DEF Dumped
<1>18. CASE AppListens \/ TimerFires \/ ResetFails \/ CheckpointLock \/
     DumpFails
  BY Zenon, <1>18, <1>0 DEF AppListens, TimerFires, ResetFails, ScaleDownFailed,
       CheckpointLock, DumpFails
<1>19. CASE UNCHANGED vars
  BY Zenon, <1>19, <1>0 DEF vars
<1>20. ASSUME NEW w \in Watchers, RegisterPartly(w) PROVE Polled'
  BY Zenon, <1>20, <1>0, PartlyEffect DEF RegisterPartly
<1> QED
  BY Zenon, <1>1, <1>2, <1>3, <1>4, <1>5, <1>6, <1>7, <1>8, <1>9, <1>10, <1>11,
       <1>12, <1>13, <1>14, <1>15, <1>16, <1>17, <1>18, <1>19, <1>20 DEF Next,
       WakeStep, DownStep

\* A container that runs is registered when the wake-ups are over.
LEMMA RegisteredStep ==
    Typed /\ Process /\ Registered /\ [Next]_vars => Registered'
<1> SUFFICES ASSUME Typed, Process, Registered, [Next]_vars PROVE Registered'
  BY Zenon
<1> USE CalmBefore, WatchersAssumption DEF Typed, Registered, Threads
<1>1. ASSUME NEW c \in Conns, NEW k \in Keys, Connect(c, k) PROVE Registered'
  BY Zenon, <1>1 DEF Connect
<1>2. ASSUME NEW c \in Conns, AppAccepts(c) \/ HandleProbe(c) PROVE
     Registered'
  BY Zenon, <1>2 DEF AppAccepts, HandleProbe
<1>3. ASSUME NEW w \in Watchers, PollReturns(w) PROVE Registered'
  BY Zenon, <1>3 DEF PollReturns
<1>4. ASSUME NEW w \in Watchers, AlreadyRestored(w) PROVE Registered'
  BY Zenon, <1>4 DEF AlreadyRestored
<1>5. ASSUME NEW w \in Watchers, RestoreLock(w) PROVE Registered'
  BY Zenon, <1>5 DEF RestoreLock
<1>6. ASSUME NEW w \in Watchers, Restored(w) PROVE Registered'
  BY Zenon, <1>6 DEF Restored
<1>7. ASSUME NEW w \in Watchers, CapacityDenied(w) PROVE Registered'
  BY Zenon, <1>7 DEF CapacityDenied
<1>8. ASSUME NEW w \in Watchers, LockRegister(w) PROVE Registered'
  BY <1>8 DEF LockRegister, Calm
<1>9. ASSUME NEW w \in Watchers, RegisterNothing(w) PROVE Registered'
  BY Zenon, <1>9 DEF RegisterNothing, Calm
<1>10. ASSUME NEW w \in Watchers, RegisterFails(w) PROVE Registered'
  BY Zenon, <1>10 DEF RegisterFails, Calm
<1>11. ASSUME NEW w \in Watchers, ForwardToTarget(w) PROVE Registered'
  BY ZenonT(30), <1>11 DEF ForwardToTarget, Process
<1>12. ASSUME NEW w \in Watchers, RegisterListeners(w) PROVE Registered'
  BY Zenon, <1>12, RegisterEffect DEF RegisterListeners
<1>13. ASSUME NEW w \in Watchers, CloseListeners(w) PROVE Registered'
  BY Zenon, <1>13, CloseEffect DEF CloseListeners, StopPolling
<1>14. ASSUME NEW k \in Keys, AttachWake(k) PROVE Registered'
  <2>1. PICK w \in Watchers :
           /\ UNCHANGED <<register, registeredWake, downVars, contVars,
                          connVars, upset>>
           /\ down = "resetting" /\ k \in todo /\ group[k].wake = NoThread
           /\ Free(w) /\ pc' = [pc EXCEPT ![w] = "poll"]
           /\ group'[k].wake = w /\ group'[k].prog
           /\ group'[k].app = group[k].app
           /\ group'[k].probe = group[k].probe
           /\ group'[k].fwd = group[k].fwd
           /\ \A j \in Keys \ {k} : group'[j] = group[j]
    BY Zenon, <1>14, AttachWakeEffect
  <2>2. \A j \in Keys : group'[j].app = group[j].app
    BY Zenon, <2>1
  <2>3. \A v \in Watchers : pc'[v] = pc[v] \/ (pc[v] = "idle" /\ pc'[v] = "poll")
    BY <2>1 DEF Free
  <2>4. (\A v \in Watchers : pc'[v] \notin {"register", "find"}) =>
           \A v \in Watchers : pc[v] \notin {"register", "find"}
    BY Zenon, <2>3
  <2>5. (Calm' => Calm) /\ scaledDown' = scaledDown
    BY Zenon, <2>1
  <2> QED
    BY Zenon, <2>2, <2>4, <2>5
<1>15. ASSUME NEW k \in Keys, AttachProbe(k) PROVE Registered'
  BY SMTT(30), <1>15, AttachProbeEffect DEF AttachProbe
<1>16. CASE ResetCloses
  BY Zenon, <1>16, ResetEffect DEF ResetCloses, StopPolling
<1>17. CASE Dumped
  BY Zenon, <1>17 DEF Dumped
<1>18. CASE AppListens \/ TimerFires \/ ResetFails \/ CheckpointLock \/
     DumpFails
  BY Zenon, <1>18 DEF AppListens, TimerFires, ResetFails, ScaleDownFailed,
       CheckpointLock, DumpFails
<1>19. CASE UNCHANGED vars
  BY Zenon, <1>19 DEF vars
<1>20. ASSUME NEW w \in Watchers, RegisterPartly(w) PROVE Registered'
  BY Zenon, <1>20, PartlyEffect DEF RegisterPartly
<1> QED
  BY Zenon, <1>1, <1>2, <1>3, <1>4, <1>5, <1>6, <1>7, <1>8, <1>9, <1>10, <1>11,
       <1>12, <1>13, <1>14, <1>15, <1>16, <1>17, <1>18, <1>19, <1>20 DEF Next,
       WakeStep, DownStep

\* Listeners are closed after others were put into the app slots.
LEMMA ClosingStep ==
    Typed /\ Alone /\ Closing /\ [Next]_vars => Closing'
<1> SUFFICES ASSUME Typed, Alone, Closing, [Next]_vars PROVE Closing'
  BY Zenon
<1> USE CalmBefore DEF Typed, Closing, Threads
<1>1. ASSUME NEW c \in Conns, NEW k \in Keys, Connect(c, k) PROVE Closing'
  BY Zenon, <1>1 DEF Connect
<1>2. ASSUME NEW c \in Conns, AppAccepts(c) \/ HandleProbe(c) PROVE Closing'
  BY Zenon, <1>2 DEF AppAccepts, HandleProbe
<1>3. ASSUME NEW w \in Watchers, PollReturns(w) PROVE Closing'
  BY Zenon, <1>3 DEF PollReturns
<1>4. ASSUME NEW w \in Watchers, AlreadyRestored(w) PROVE Closing'
  BY Zenon, <1>4 DEF AlreadyRestored
<1>5. ASSUME NEW w \in Watchers, RestoreLock(w) PROVE Closing'
  BY Zenon, <1>5 DEF RestoreLock
<1>6. ASSUME NEW w \in Watchers, Restored(w) PROVE Closing'
  BY Zenon, <1>6 DEF Restored
<1>7. ASSUME NEW w \in Watchers, CapacityDenied(w) PROVE Closing'
  <2>1. Calm' => \A v \in Watchers : pc'[v] = pc[v] \/ pc'[v] = "forward"
    BY <1>7 DEF CapacityDenied, Calm
  <2> QED
    BY Zenon, <1>7, <2>1 DEF CapacityDenied
<1>8. ASSUME NEW w \in Watchers, LockRegister(w) PROVE Closing'
  BY <1>8 DEF LockRegister, Calm
<1>9. ASSUME NEW w \in Watchers, RegisterNothing(w) PROVE Closing'
  BY Zenon, <1>9 DEF RegisterNothing, Calm
<1>10. ASSUME NEW w \in Watchers, RegisterFails(w) PROVE Closing'
  BY Zenon, <1>10 DEF RegisterFails
<1>11. ASSUME NEW w \in Watchers, ForwardToTarget(w) PROVE Closing'
  BY ZenonT(30), <1>11, ForwardEffect DEF ForwardToTarget
<1>12. ASSUME NEW w \in Watchers, RegisterListeners(w) PROVE Closing'
  BY Zenon, <1>12, RegisterEffect DEF RegisterListeners
<1>13. ASSUME NEW w \in Watchers, CloseListeners(w) PROVE Closing'
  BY Zenon, <1>13, CloseEffect DEF CloseListeners, StopPolling
<1>14. ASSUME NEW k \in Keys, AttachWake(k) PROVE Closing'
  <2>1. PICK w \in Watchers :
           /\ UNCHANGED <<register, registeredWake, downVars, contVars,
                          connVars, upset>>
           /\ down = "resetting" /\ k \in todo /\ group[k].wake = NoThread
           /\ Free(w) /\ pc' = [pc EXCEPT ![w] = "poll"]
           /\ group'[k].wake = w /\ group'[k].prog
           /\ group'[k].app = group[k].app
           /\ group'[k].probe = group[k].probe
           /\ group'[k].fwd = group[k].fwd
           /\ \A j \in Keys \ {k} : group'[j] = group[j]
    BY Zenon, <1>14, AttachWakeEffect
  <2>2. \A j \in Keys : group'[j].app = group[j].app
    BY Zenon, <2>1
  <2>3. \A v \in Watchers : pc'[v] = pc[v] \/ (pc[v] = "idle" /\ pc'[v] = "poll")
    BY Zenon, <2>1 DEF Free
  <2> QED
    BY <2>1, <2>2, <2>3
<1>15. ASSUME NEW k \in Keys, AttachProbe(k) PROVE Closing'
  BY <1>15, AttachProbeEffect DEF AttachProbe
<1>16. CASE ResetCloses
  BY Zenon, <1>16, ResetEffect DEF ResetCloses, StopPolling
<1>17. CASE Dumped
  BY Zenon, <1>17 DEF Dumped, Alone
<1>18. CASE AppListens \/ TimerFires \/ ResetFails \/ CheckpointLock \/
     DumpFails
  BY Zenon, <1>18 DEF AppListens, TimerFires, ResetFails, ScaleDownFailed,
       CheckpointLock, DumpFails
<1>19. CASE UNCHANGED vars
  BY Zenon, <1>19 DEF vars
<1>20. ASSUME NEW w \in Watchers, RegisterPartly(w) PROVE Closing'
  BY Zenon, <1>20, PartlyEffect DEF RegisterPartly
<1> QED
  BY Zenon, <1>1, <1>2, <1>3, <1>4, <1>5, <1>6, <1>7, <1>8, <1>9, <1>10, <1>11,
       <1>12, <1>13, <1>14, <1>15, <1>16, <1>17, <1>18, <1>19, <1>20 DEF Next,
       WakeStep, DownStep

-----------------------------------------------------------------------------
(* The connections. *)

\* What Regroup does to a connection, given the new groups.
LEMMA MovedTo ==
    ASSUME Connections, GroupsOK', Moved, NEW c \in Conns
    PROVE  LET g == group'[dst[c]] IN
           /\ dst[c] \in Keys
           /\ \/ /\ at'[c] = at[c]
                 /\ at[c] = "wake" => g.wake = group[dst[c]].wake
              \/ /\ at[c] \in {"wake", "probe", "app"}
                 /\ at'[c] \in {"app", "served", "probe", "wake", "refused"}
                 /\ at'[c] = "app" <=> g.app = "app"
                 /\ at'[c] = "served" => g.app = "fwd"
                 /\ at'[c] = "probe" => c \in kubelet
                 /\ at'[c] = "wake" => g.app = "none" /\ g.wake # NoThread
                 /\ at'[c] = "wake" /\ g.probe => c \notin kubelet
                 /\ at'[c] = "refused" => g.app = "none" /\ g.wake = NoThread
<1>1. dst[c] \in Keys /\ group'[dst[c]] \in Groups
  BY Zenon DEF Connections, GroupsOK
<1> QED
  BY <1>1, Selected DEF Moved

\* Where a new connection goes.
LEMMA Connected ==
    ASSUME Typed, Covered, NEW c \in Conns, NEW k \in Keys, Connect(c, k)
    PROVE  /\ at[c] = "new"
           /\ at' = [at EXCEPT ![c] = at'[c]] /\ dst' = [dst EXCEPT ![c] = k]
           /\ at'[c] \in {"app", "served", "probe", "wake", "refused"}
           /\ at'[c] = "served" => group[k].app = "fwd"
           /\ at'[c] = "probe" => c \in kubelet
           /\ at'[c] = "wake" => group[k].app = "none" /\ group[k].wake # NoThread
           /\ at'[c] = "wake" /\ Calm => c \notin kubelet
           /\ at'[c] = "refused" => ~Calm
<1>1. group[k] \in Groups /\ at \in [Conns -> Places]
  BY Zenon DEF Typed, GroupsOK, Connections
<1>2. /\ at[c] = "new" /\ at' = [at EXCEPT ![c] = Select(c, group[k])]
      /\ dst' = [dst EXCEPT ![c] = k]
  BY Zenon DEF Connect
<1>3. at'[c] = Select(c, group[k])
  BY Zenon, <1>1, <1>2
<1>4. Calm => /\ group[k].prog
              /\ group[k].app = "none" => group[k].wake # NoThread
              /\ group[k].app = "none" => group[k].probe
  BY Zenon DEF Covered
<1>5. CASE group[k].prog
  <2>1. at'[c] = SelectOrMigrate(c, group[k])
    BY Zenon, <1>3, <1>5 DEF Select
  <2> QED
    BY Zenon, <1>1, <1>2, <1>4, <2>1, Selected
<1>6. CASE ~group[k].prog
  <2>1. ~Calm /\ at'[c] \in {"app", "refused"}
    BY Zenon, <1>3, <1>4, <1>6 DEF Select
  <2> QED
    BY Zenon, <1>2, <1>3, <2>1
<1> QED
  BY Zenon, <1>5, <1>6

\* A connection that was made is not made again.
LEMMA NotNewStep ==
    Typed /\ Covered /\ [Next]_vars => \A d \in Conns : at[d] # "new" =>
         at'[d] # "new"
<1> SUFFICES ASSUME Typed, Covered, [Next]_vars PROVE \A d \in Conns : at[d]
     # "new" => at'[d] # "new"
  BY Zenon
<1> USE DEF Typed, Connections
<1>1. ASSUME NEW c \in Conns, NEW k \in Keys, Connect(c, k) PROVE \A d \in
     Conns : at[d] # "new" => at'[d] # "new"
  BY Zenon, <1>1, Connected DEF Connect
<1>2. ASSUME NEW c \in Conns, AppAccepts(c) \/ HandleProbe(c) PROVE \A d \in
     Conns : at[d] # "new" => at'[d] # "new"
  BY Zenon, <1>2 DEF AppAccepts, HandleProbe
<1>3. ASSUME NEW w \in Watchers, PollReturns(w) \/ AlreadyRestored(w) \/
     RestoreLock(w) \/ Restored(w) \/ CapacityDenied(w) \/ LockRegister(w) \/
     RegisterNothing(w) \/ RegisterFails(w) PROVE \A d \in Conns : at[d] #
     "new" => at'[d] # "new"
  BY Zenon, <1>3 DEF PollReturns, AlreadyRestored, RestoreLock, Restored,
       CapacityDenied, LockRegister, RegisterNothing, RegisterFails
<1>4. ASSUME NEW w \in Watchers, ForwardToTarget(w) PROVE \A d \in Conns :
     at[d] # "new" => at'[d] # "new"
  BY ZenonT(30), <1>4, ForwardEffect, MovedTo DEF ForwardToTarget
<1>5. ASSUME NEW w \in Watchers, RegisterListeners(w) PROVE \A d \in Conns :
     at[d] # "new" => at'[d] # "new"
  BY Zenon, <1>5, RegisterEffect, MovedTo DEF RegisterListeners
<1>6. ASSUME NEW w \in Watchers, CloseListeners(w) PROVE \A d \in Conns :
     at[d] # "new" => at'[d] # "new"
  BY Zenon, <1>6, CloseEffect, MovedTo DEF CloseListeners, StopPolling
<1>7. ASSUME NEW k \in Keys, AttachWake(k) \/ AttachProbe(k) PROVE \A d \in
     Conns : at[d] # "new" => at'[d] # "new"
  BY Zenon, <1>7 DEF AttachWake, AttachProbe
<1>8. CASE ResetCloses
  BY Zenon, <1>8, ResetEffect, MovedTo DEF ResetCloses, StopPolling
<1>9. CASE Dumped
  BY Zenon, <1>9, DumpEffect, MovedTo DEF Dumped
<1>10. CASE AppListens \/ TimerFires \/ ResetFails \/ CheckpointLock \/
     DumpFails
  BY Zenon, <1>10 DEF AppListens, TimerFires, ResetFails, ScaleDownFailed,
       CheckpointLock, DumpFails
<1>11. CASE UNCHANGED vars
  BY Zenon, <1>11 DEF vars
<1>12. ASSUME NEW w \in Watchers, RegisterPartly(w) PROVE \A d \in Conns :
     at[d] # "new" => at'[d] # "new"
  BY Zenon, <1>12, MovedTo, PartlyEffect DEF RegisterPartly
<1> QED
  BY Zenon, <1>1, <1>2, <1>3, <1>4, <1>5, <1>6, <1>7, <1>8, <1>9, <1>10, <1>11, <1>12 DEF
       Next, WakeStep, DownStep

\* Between Reset and dump, connections go to the application.
LEMMA AloneStep ==
    Prompt /\ Typed /\ Process /\ Registrar /\ Registered /\ Covered /\
         Sorted /\ Alone /\ [Next]_vars => Alone'
<1> SUFFICES ASSUME Prompt, Typed, Process, Registrar, Registered, Covered,
     Sorted, Alone, [Next]_vars PROVE Alone'
  BY Zenon
<1> USE CalmBefore DEF Typed, Alone, Threads
<1>1. ASSUME NEW c \in Conns, NEW k \in Keys, Connect(c, k) PROVE Alone'
  <2>1. Calm /\ down \in {"resetting", "lock", "dump"} => group[k].app = "app"
    BY Zenon DEF Registered, Process
  <2> QED
    BY ZenonT(30), <1>1, <2>1, Connected DEF Connect, Connections
<1>2. ASSUME NEW c \in Conns, AppAccepts(c) \/ HandleProbe(c) PROVE Alone'
  BY Zenon, <1>2 DEF AppAccepts, HandleProbe, Connections
<1>3. ASSUME NEW w \in Watchers, PollReturns(w) PROVE Alone'
  BY Zenon, <1>3 DEF PollReturns
<1>4. ASSUME NEW w \in Watchers, AlreadyRestored(w) PROVE Alone'
  BY Zenon, <1>4 DEF AlreadyRestored
<1>5. ASSUME NEW w \in Watchers, RestoreLock(w) PROVE Alone'
  BY Zenon, <1>5 DEF RestoreLock
<1>6. ASSUME NEW w \in Watchers, Restored(w) PROVE Alone'
  BY Zenon, <1>6 DEF Restored
<1>7. ASSUME NEW w \in Watchers, CapacityDenied(w) PROVE Alone'
  BY Zenon, <1>7 DEF CapacityDenied
<1>8. ASSUME NEW w \in Watchers, LockRegister(w) PROVE Alone'
  BY Zenon, <1>8 DEF LockRegister
<1>9. ASSUME NEW w \in Watchers, RegisterNothing(w) PROVE Alone'
  BY Zenon, <1>9 DEF RegisterNothing
<1>10. ASSUME NEW w \in Watchers, RegisterFails(w) PROVE Alone'
  BY Zenon, <1>10 DEF RegisterFails
<1>11. ASSUME NEW w \in Watchers, ForwardToTarget(w) PROVE Alone'
  BY ZenonT(30), <1>11 DEF ForwardToTarget
<1>12. ASSUME NEW w \in Watchers, RegisterListeners(w) PROVE Alone'
  BY Zenon, <1>12 DEF RegisterListeners
<1>13. ASSUME NEW w \in Watchers, CloseListeners(w) PROVE Alone'
  BY Zenon, <1>13 DEF CloseListeners, StopPolling
<1>14. ASSUME NEW k \in Keys, AttachWake(k) PROVE Alone'
  <2>1. PICK w \in Watchers :
           /\ UNCHANGED <<register, registeredWake, downVars, contVars,
                          connVars, upset>>
           /\ down = "resetting" /\ k \in todo /\ group[k].wake = NoThread
           /\ Free(w) /\ pc' = [pc EXCEPT ![w] = "poll"]
           /\ group'[k].wake = w /\ group'[k].prog
           /\ group'[k].app = group[k].app
           /\ group'[k].probe = group[k].probe
           /\ group'[k].fwd = group[k].fwd
           /\ \A j \in Keys \ {k} : group'[j] = group[j]
    BY Zenon, <1>14, AttachWakeEffect
  <2> QED
    BY <2>1 DEF Free, Calm
<1>15. ASSUME NEW k \in Keys, AttachProbe(k) PROVE Alone'
  <2>1. /\ \A j \in Keys : group'[j].wake = group[j].wake
        /\ \A j \in Keys : group[j].probe => group'[j].probe
        /\ group'[k].probe
    BY Zenon, <1>15, AttachProbeEffect
  <2> QED
    BY Zenon, <1>15, <2>1 DEF AttachProbe
<1>16. CASE ResetCloses
  <2>1. ASSUME Calm'
        PROVE  /\ \A w \in Watchers : pc[w] \in {"idle", "poll"}
               /\ \A k \in Keys : group[k].app = "app"
    BY Zenon, <1>16, <2>1, ResetAlone
  <2>2. Calm' => \A w \in Watchers : pc'[w] \in {"idle", "poll"}
    BY Zenon, <1>16, <2>1 DEF ResetCloses, StopPolling
  <2>3. ASSUME Calm', NEW c \in Conns
        PROVE  at'[c] # "wake"
    <3>1. /\ GroupsOK' /\ Moved
          /\ \A k \in Keys : /\ group'[k].app = group[k].app
                            /\ group'[k].wake = NoThread
      BY Zenon, <1>16, ResetEffect
    <3>2. /\ dst[c] \in Keys /\ group'[dst[c]].wake = NoThread
          /\ group'[dst[c]].app = "app"
      BY Zenon, <2>1, <2>3, <3>1 DEF Connections
    <3>3. at'[c] = "wake" => at[c] = "wake" /\ group[dst[c]].wake = NoThread
      BY <3>1, <3>2, MovedTo
    <3> QED
      BY Zenon, <3>3 DEF Sorted
  <2> QED
    BY Zenon, <1>16, <2>2, <2>3 DEF ResetCloses
<1>17. CASE AppListens
  BY Zenon, <1>17 DEF AppListens
<1>18. CASE CheckpointLock
  BY Zenon, <1>18 DEF CheckpointLock
<1>19. CASE TimerFires \/ ResetFails \/ DumpFails \/ Dumped
  BY Zenon, <1>19 DEF TimerFires, ResetFails, ScaleDownFailed, DumpFails, Dumped
<1>20. CASE UNCHANGED vars
  BY Zenon, <1>20 DEF vars
<1>21. ASSUME NEW w \in Watchers, RegisterPartly(w) PROVE Alone'
  BY Zenon, <1>21, PartlyEffect DEF RegisterPartly
<1> QED
  BY ZenonT(30), <1>1, <1>2, <1>3, <1>4, <1>5, <1>6, <1>7, <1>8, <1>9, <1>10, <1>11,
       <1>12, <1>13, <1>14, <1>15, <1>16, <1>17, <1>18, <1>19, <1>20, <1>21 DEF
       Next, WakeStep, DownStep

\* Moving connections keeps them sorted.
LEMMA SortedMoved ==
    ASSUME Connections, GroupsOK', Moved, Sorted, Covered', Calm' => Calm,
           kubelet' = kubelet, dst' = dst
    PROVE  Sorted'
<1> SUFFICES ASSUME NEW c \in Conns
             PROVE  /\ at'[c] = "probe" => c \in kubelet
                    /\ at'[c] = "wake" => group'[dst[c]].wake # NoThread
                    /\ Calm' /\ at'[c] = "wake" => c \notin kubelet
  BY Zenon DEF Sorted
<1>1. CASE at'[c] = at[c] /\ (at[c] = "wake" =>
              group'[dst[c]].wake = group[dst[c]].wake)
  BY Zenon, <1>1 DEF Sorted
<1>2. CASE ~(at'[c] = at[c] /\ (at[c] = "wake" =>
              group'[dst[c]].wake = group[dst[c]].wake))
  BY Zenon, <1>2, MovedTo DEF Covered
<1> QED
  BY Zenon, <1>1, <1>2

\* Probes and clients wait at different listeners.
LEMMA SortedStep ==
    Typed /\ Covered /\ Covered' /\ Sorted /\ [Next]_vars => Sorted'
<1> SUFFICES ASSUME Typed, Covered, Covered', Sorted, [Next]_vars PROVE
     Sorted'
  BY Zenon
<1> USE CalmBefore DEF Typed, Connections, Sorted
<1>1. ASSUME NEW c \in Conns, NEW k \in Keys, Connect(c, k) PROVE Sorted'
  <2>1. group' = group /\ kubelet' = kubelet /\ (Calm' <=> Calm)
    BY Zenon, <1>1 DEF Connect, Calm
  <2> QED
    BY <1>1, <2>1, Connected
<1>2. ASSUME NEW c \in Conns, AppAccepts(c) \/ HandleProbe(c) PROVE Sorted'
  BY Zenon, <1>2 DEF AppAccepts, HandleProbe
<1>3. ASSUME NEW w \in Watchers, PollReturns(w) \/ AlreadyRestored(w) \/
     RestoreLock(w) \/ Restored(w) \/ CapacityDenied(w) \/ LockRegister(w) \/
     RegisterNothing(w) \/ RegisterFails(w) PROVE Sorted'
  BY Zenon, <1>3 DEF PollReturns, AlreadyRestored, RestoreLock, Restored,
       CapacityDenied, LockRegister, RegisterNothing, RegisterFails
<1>4. ASSUME NEW w \in Watchers, ForwardToTarget(w) PROVE Sorted'
  BY ZenonT(30), <1>4, ForwardEffect, SortedMoved DEF ForwardToTarget
<1>5. ASSUME NEW w \in Watchers, RegisterListeners(w) PROVE Sorted'
  BY Zenon, <1>5, RegisterEffect, SortedMoved DEF RegisterListeners
<1>6. ASSUME NEW w \in Watchers, CloseListeners(w) PROVE Sorted'
  BY Zenon, <1>6, CloseEffect, SortedMoved DEF CloseListeners, StopPolling
<1>7. ASSUME NEW k \in Keys, AttachWake(k) PROVE Sorted'
  <2>1. at' = at /\ dst' = dst /\ kubelet' = kubelet
    BY Zenon, <1>7 DEF AttachWake
  <2>2. \A j \in Keys : group[j].wake # NoThread => group'[j].wake # NoThread
    BY Zenon, <1>7, AttachWakeEffect, WatchersAssumption
  <2> QED
    BY Zenon, <2>1, <2>2
<1>8. ASSUME NEW k \in Keys, AttachProbe(k) PROVE Sorted'
  BY SMTT(30), <1>8, AttachProbeEffect DEF AttachProbe
<1>9. CASE ResetCloses
  BY Zenon, <1>9, ResetEffect, SortedMoved DEF ResetCloses, StopPolling
<1>10. CASE Dumped
  BY Zenon, <1>10, DumpEffect, SortedMoved DEF Dumped
<1>11. CASE AppListens \/ TimerFires \/ ResetFails \/ CheckpointLock \/
     DumpFails
  BY Zenon, <1>11 DEF AppListens, TimerFires, ResetFails, ScaleDownFailed,
       CheckpointLock, DumpFails
<1>12. CASE UNCHANGED vars
  BY Zenon, <1>12 DEF vars
<1>13. ASSUME NEW w \in Watchers, RegisterPartly(w) PROVE Sorted'
  BY Zenon, <1>13, SortedMoved, PartlyEffect DEF RegisterPartly
<1> QED
  BY Zenon, <1>1, <1>2, <1>3, <1>4, <1>5, <1>6, <1>7, <1>8, <1>9, <1>10, <1>11,
       <1>12, <1>13 DEF Next, WakeStep, DownStep

\* The application is woken for clients.
LEMMA ClientsStep ==
    Typed /\ Covered /\ Process /\ Sorted /\ Clients /\ [Next]_vars =>
         Clients'
<1> SUFFICES ASSUME Typed, Covered, Process, Sorted, Clients, [Next]_vars
     PROVE Clients'
  BY Zenon
<1> USE CalmBefore, NotNewStep DEF Typed, Clients, Threads
<1>0. Client /\ kubelet' = kubelet => Client'
  BY Zenon DEF Client
<1>1. ASSUME NEW c \in Conns, NEW k \in Keys, Connect(c, k) PROVE Clients'
  BY Zenon, <1>1, <1>0 DEF Connect
<1>2. ASSUME NEW c \in Conns, AppAccepts(c) \/ HandleProbe(c) PROVE Clients'
  BY Zenon, <1>2, <1>0 DEF AppAccepts, HandleProbe
<1>3. ASSUME NEW w \in Watchers, PollReturns(w) PROVE Clients'
  <2>1. PICK c \in Conns : at[c] = "wake"
    BY Zenon, <1>3 DEF PollReturns
  <2>2. Calm => Client
    BY Zenon, <2>1 DEF Sorted, Client
  <2> QED
    BY Zenon, <1>3, <1>0, <2>2 DEF PollReturns
<1>4. ASSUME NEW w \in Watchers, AlreadyRestored(w) PROVE Clients'
  BY Zenon, <1>4, <1>0 DEF AlreadyRestored
<1>5. ASSUME NEW w \in Watchers, RestoreLock(w) PROVE Clients'
  BY Zenon, <1>5, <1>0 DEF RestoreLock
<1>6. ASSUME NEW w \in Watchers, Restored(w) PROVE Clients'
  BY Zenon, <1>6, <1>0 DEF Restored
<1>7. ASSUME NEW w \in Watchers, CapacityDenied(w) PROVE Clients'
  BY Zenon, <1>7, <1>0 DEF CapacityDenied
<1>8. ASSUME NEW w \in Watchers, LockRegister(w) PROVE Clients'
  BY Zenon, <1>8, <1>0 DEF LockRegister
<1>9. ASSUME NEW w \in Watchers, RegisterNothing(w) PROVE Clients'
  BY Zenon, <1>9, <1>0 DEF RegisterNothing
<1>10. ASSUME NEW w \in Watchers, RegisterFails(w) PROVE Clients'
  BY Zenon, <1>10, <1>0 DEF RegisterFails
<1>11. ASSUME NEW w \in Watchers, ForwardToTarget(w) PROVE Clients'
  BY ZenonT(30), <1>11, <1>0 DEF ForwardToTarget
<1>12. ASSUME NEW w \in Watchers, RegisterListeners(w) PROVE Clients'
  BY Zenon, <1>12, <1>0 DEF RegisterListeners
<1>13. ASSUME NEW w \in Watchers, CloseListeners(w) PROVE Clients'
  BY Zenon, <1>13, <1>0 DEF CloseListeners, StopPolling
<1>14. ASSUME NEW k \in Keys, AttachWake(k) PROVE Clients'
  <2>1. PICK w \in Watchers :
           /\ UNCHANGED <<register, registeredWake, downVars, contVars,
                          connVars, upset>>
           /\ down = "resetting" /\ k \in todo /\ group[k].wake = NoThread
           /\ Free(w) /\ pc' = [pc EXCEPT ![w] = "poll"]
           /\ group'[k].wake = w /\ group'[k].prog
           /\ group'[k].app = group[k].app
           /\ group'[k].probe = group[k].probe
           /\ group'[k].fwd = group[k].fwd
           /\ \A j \in Keys \ {k} : group'[j] = group[j]
    BY Zenon, <1>14, AttachWakeEffect
  <2> QED
    BY Zenon, <1>0, <2>1 DEF Free
<1>15. ASSUME NEW k \in Keys, AttachProbe(k) PROVE Clients'
  BY Zenon, <1>15, <1>0 DEF AttachProbe
<1>16. CASE ResetCloses
  BY Zenon, <1>16, <1>0 DEF ResetCloses, StopPolling
<1>17. CASE Dumped
  BY Zenon, <1>17, <1>0 DEF Dumped
<1>18. CASE AppListens \/ TimerFires \/ ResetFails \/ CheckpointLock \/
     DumpFails
  BY Zenon, <1>18, <1>0 DEF AppListens, TimerFires, ResetFails, ScaleDownFailed,
       CheckpointLock, DumpFails
<1>19. CASE UNCHANGED vars
  BY Zenon, <1>19, <1>0 DEF vars
<1>20. ASSUME NEW w \in Watchers, RegisterPartly(w) PROVE Clients'
  BY Zenon, <1>20, <1>0, PartlyEffect DEF RegisterPartly
<1> QED
  BY ZenonT(30), <1>1, <1>2, <1>3, <1>4, <1>5, <1>6, <1>7, <1>8, <1>9, <1>10, <1>11,
       <1>12, <1>13, <1>14, <1>15, <1>16, <1>17, <1>18, <1>19, <1>20 DEF Next,
       WakeStep, DownStep

\* What may happen to a connection, in terms of its place.
ConnStep(c) ==
    \/ at'[c] = at[c]
    \/ /\ at[c] \in {"new", "app", "wake", "probe"}
       /\ at'[c] \in {"app", "wake", "probe"}
    \/ /\ at[c] \in {"new", "app", "wake", "probe"}
       /\ at'[c] \in {"served", "answered"}
       /\ listening \/ (\E k \in Keys : group'[k].app = "fwd") \/ c \in kubelet
    \/ /\ at[c] \in {"new", "app", "wake", "probe"}
       /\ at'[c] = "refused"
       /\ upset' # {}

\* A connection that is moved is served by a forwarder, or it is refused at a
\* port that something went wrong with.
LEMMA ConnMoved ==
    ASSUME Typed, GroupsOK', Covered', Moved, NEW c \in Conns
    PROVE  ConnStep(c)
<1>1. CASE at'[c] = at[c]
  BY Zenon, <1>1 DEF ConnStep
<1>2. CASE at'[c] # at[c]
  <2>1. /\ dst[c] \in Keys
        /\ at[c] \in {"wake", "probe", "app"}
        /\ at'[c] \in {"app", "served", "probe", "wake", "refused"}
        /\ at'[c] = "served" => group'[dst[c]].app = "fwd"
        /\ at'[c] = "refused" => /\ group'[dst[c]].app = "none"
                                 /\ group'[dst[c]].wake = NoThread
    BY Zenon, <1>2, MovedTo DEF Typed
  <2>2. at'[c] = "refused" => upset' # {}
    BY Zenon, <2>1 DEF Covered, Calm
  <2> QED
    BY Zenon, <2>1, <2>2 DEF ConnStep
<1> QED
  BY Zenon, <1>1, <1>2

\* Connections are taken by the application, a forwarder or the probe listener.
LEMMA ConnSteps ==
    Typed /\ Covered /\ Covered' /\ Sorted /\ [Next]_vars => \A d \in Conns :
         ConnStep(d)
<1> SUFFICES ASSUME Typed, Covered, Covered', Sorted, [Next]_vars PROVE \A d
     \in Conns : ConnStep(d)
  BY Zenon
<1>1. ASSUME NEW c \in Conns, NEW k \in Keys, Connect(c, k) PROVE \A d \in
     Conns : ConnStep(d)
  <2>1. at'[c] = "refused" => upset' # {}
    BY Zenon, <1>1, Connected DEF Connect, Calm
  <2>2. group' = group
    BY Zenon, <1>1 DEF Connect
  <2> QED
    BY Zenon, <1>1, <2>1, <2>2, Connected DEF ConnStep, Typed, Connections
<1>2. ASSUME NEW c \in Conns, AppAccepts(c) PROVE \A d \in Conns :
     ConnStep(d)
  BY Zenon, <1>2 DEF AppAccepts, ConnStep, Typed, Connections
<1>3. ASSUME NEW c \in Conns, HandleProbe(c) PROVE \A d \in Conns :
     ConnStep(d)
  BY Zenon, <1>3 DEF HandleProbe, ConnStep, Typed, Connections, Sorted
<1>4. ASSUME NEW w \in Watchers, PollReturns(w) \/ AlreadyRestored(w) \/
     RestoreLock(w) \/ Restored(w) \/ CapacityDenied(w) \/ LockRegister(w) \/
     RegisterNothing(w) \/ RegisterFails(w) PROVE \A d \in Conns :
     ConnStep(d)
  BY Zenon, <1>4 DEF PollReturns, AlreadyRestored, RestoreLock, Restored,
       CapacityDenied, LockRegister, RegisterNothing, RegisterFails, ConnStep
<1>5. ASSUME NEW w \in Watchers, ForwardToTarget(w) PROVE \A d \in Conns :
     ConnStep(d)
  <2> QED
    BY Zenon, <1>5, ForwardEffect, ConnMoved
<1>6. ASSUME NEW w \in Watchers, RegisterListeners(w) PROVE \A d \in Conns :
     ConnStep(d)
  <2> QED
    BY Zenon, <1>6, RegisterEffect, ConnMoved
<1>7. ASSUME NEW w \in Watchers, CloseListeners(w) PROVE \A d \in Conns :
     ConnStep(d)
  <2> QED
    BY Zenon, <1>7, CloseEffect, ConnMoved
<1>8. ASSUME NEW k \in Keys, AttachWake(k) \/ AttachProbe(k) PROVE \A d \in
     Conns : ConnStep(d)
  BY Zenon, <1>8 DEF AttachWake, AttachProbe, ConnStep
<1>9. CASE ResetCloses
  <2> QED
    BY Zenon, <1>9, ResetEffect, ConnMoved
<1>10. CASE Dumped
  <2> QED
    BY Zenon, <1>10, DumpEffect, ConnMoved
<1>11. CASE AppListens \/ TimerFires \/ ResetFails \/ CheckpointLock \/
     DumpFails
  BY Zenon, <1>11 DEF AppListens, TimerFires, ResetFails, ScaleDownFailed,
       CheckpointLock, DumpFails, ConnStep
<1>12. CASE UNCHANGED vars
  BY Zenon, <1>12 DEF vars, ConnStep
<1>13. ASSUME NEW w \in Watchers, RegisterPartly(w) PROVE \A d \in Conns :
     ConnStep(d)
  BY Zenon, <1>13, ConnMoved, PartlyEffect DEF RegisterPartly
<1> QED
  BY Zenon, <1>1, <1>2, <1>3, <1>4, <1>5, <1>6, <1>7, <1>8, <1>9, <1>10, <1>11,
       <1>12, <1>13 DEF Next, WakeStep, DownStep

\* The application is woken for a client, by a restore or late after one.
LEMMA WakesForStep ==
    Typed /\ Clients /\ [Next]_vars => (~listening /\ listening' => upset' #
         {} \/ Client)
<1> SUFFICES ASSUME Typed, Clients, [Next]_vars PROVE (~listening /\
     listening' => upset' # {} \/ Client)
  BY Zenon
<1> USE DEF Calm
<1>1. ASSUME NEW c \in Conns, NEW k \in Keys, Connect(c, k) PROVE (~listening
     /\ listening' => upset' # {} \/ Client)
  BY Zenon, <1>1 DEF Connect
<1>2. ASSUME NEW c \in Conns, AppAccepts(c) \/ HandleProbe(c) PROVE
     (~listening /\ listening' => upset' # {} \/ Client)
  BY Zenon, <1>2 DEF AppAccepts, HandleProbe
<1>3. ASSUME NEW w \in Watchers, PollReturns(w) \/ AlreadyRestored(w) \/
     RestoreLock(w) \/ CapacityDenied(w) \/ LockRegister(w) \/
     RegisterNothing(w) \/ RegisterFails(w) \/ ForwardToTarget(w) \/
     RegisterListeners(w) \/ CloseListeners(w) PROVE (~listening /\
     listening' => upset' # {} \/ Client)
  BY Zenon, <1>3 DEF PollReturns, AlreadyRestored, RestoreLock, CapacityDenied,
       LockRegister, RegisterNothing, RegisterFails, ForwardToTarget,
       RegisterListeners, CloseListeners, StopPolling
<1>4. ASSUME NEW w \in Watchers, Restored(w) PROVE (~listening /\ listening'
     => upset' # {} \/ Client)
  BY Zenon, <1>4 DEF Restored, Clients
<1>5. ASSUME NEW k \in Keys, AttachWake(k) \/ AttachProbe(k) PROVE
     (~listening /\ listening' => upset' # {} \/ Client)
  BY Zenon, <1>5 DEF AttachWake, AttachProbe
<1>6. CASE AppListens
  BY Zenon, <1>6 DEF AppListens, Clients
<1>7. CASE TimerFires \/ ResetFails \/ CheckpointLock \/ DumpFails \/
     ResetCloses \/ Dumped
  BY Zenon, <1>7 DEF TimerFires, ResetFails, ScaleDownFailed, CheckpointLock,
       DumpFails, ResetCloses, StopPolling, Dumped
<1>8. CASE UNCHANGED vars
  BY Zenon, <1>8 DEF vars
<1>9. ASSUME NEW w \in Watchers, RegisterPartly(w) PROVE (~listening /\
     listening' => upset' # {} \/ Client)
  BY Zenon, <1>9 DEF RegisterPartly
<1> QED
  BY Zenon, <1>1, <1>2, <1>3, <1>4, <1>5, <1>6, <1>7, <1>8, <1>9 DEF Next, WakeStep,
       DownStep

-----------------------------------------------------------------------------
(* The goroutines of Reset. *)

INSTANCE FiniteSetTheorems

\* As long as Reset attaches nothing, no goroutine is taken.
LEMMA EnoughFrame ==
    ASSUME Typed, UNCHANGED <<group, todo>>,
           \A w \in Watchers : pc[w] = "idle" => pc'[w] = "idle",
           down' = down
    PROVE  Enough'
<1> DEFINE free == {w \in Watchers : Free(w)}
           open == {k \in todo : group[k].wake = NoThread}
<1>1. free \subseteq free' /\ open' = open
  BY Zenon DEF Free
<1>2. IsFiniteSet(free) /\ IsFiniteSet(free') /\ IsFiniteSet(open)
  BY Zenon, WatchersAssumption, FS_Subset DEF Typed, Enough
<1>3. /\ Cardinality(free) <= Cardinality(free')
      /\ Cardinality(free) \in Nat /\ Cardinality(free') \in Nat
      /\ Cardinality(open) \in Nat
  BY Zenon, <1>1, <1>2, FS_Subset, FS_CardinalityType
<1>4. down = "resetting" => Cardinality(open) <= Cardinality(free)
  BY Zenon DEF Typed, Enough
<1>5. down' = "resetting" => Cardinality(open') <= Cardinality(free')
  BY <1>1, <1>3, <1>4
<1> HIDE DEF open, free
<1>6. /\ todo' \in SUBSET Keys
      /\ down' # "resetting" => todo' = {}
  BY Zenon DEF Typed, Enough
<1> QED
  BY Zenon, <1>5, <1>6 DEF Enough, open, free

\* Reset closes every wake listener when there are goroutines for new ones.
LEMMA EnoughReset ==
    ASSUME Typed, ResetCloses
    PROVE  Enough'
<1> DEFINE free == {w \in Watchers : Free(w)}
           open == {k \in todo : group[k].wake = NoThread}
<1>1. \A k \in Keys : group'[k].wake = NoThread
  BY Zenon, ResetEffect
<1>2. todo' = Keys /\ down' = "resetting"
  BY Zenon DEF ResetCloses
<1>3. open' = Keys
  BY Zenon, <1>1, <1>2
<1>4. \A w \in Watchers : pc[w] \in {"idle", "poll"} => pc'[w] = "idle"
  BY Zenon, WatchersAssumption DEF ResetCloses, StopPolling
<1>5. {w \in Watchers : pc[w] \in {"idle", "poll"}} \subseteq free'
  BY Zenon, <1>1, <1>4, WatchersAssumption DEF Free
<1>6. IsFiniteSet(free')
  BY Zenon, WatchersAssumption, FS_Subset
<1>7. Cardinality({w \in Watchers : pc[w] \in {"idle", "poll"}})
        <= Cardinality(free')
  BY Zenon, <1>5, <1>6, FS_Subset
<1>8. /\ Cardinality({w \in Watchers : pc[w] \in {"idle", "poll"}}) \in Nat
      /\ Cardinality(free') \in Nat /\ Cardinality(Keys) \in Nat
  BY Zenon, <1>5, <1>6, WatchersAssumption, FS_Subset, FS_CardinalityType
<1>9. Cardinality({w \in Watchers : pc[w] \in {"idle", "poll"}})
         >= Cardinality(Keys)
  BY Zenon DEF ResetCloses
<1> HIDE DEF open, free
<1>10. Cardinality(open') <= Cardinality(free')
  <2>1. Cardinality(open') = Cardinality(Keys)
    BY Zenon, <1>3
  <2> QED
    BY <2>1, <1>7, <1>8, <1>9
<1> QED
  BY Zenon, <1>2, <1>10 DEF Enough, open, free

\* A wake listener takes one of the goroutines.
LEMMA EnoughAttachWake ==
    ASSUME Typed, NEW k \in Keys, AttachWake(k)
    PROVE  Enough'
<1> DEFINE free == {w \in Watchers : Free(w)}
           open == {j \in todo : group[j].wake = NoThread}
<1>1. PICK w \in Watchers :
              /\ Free(w)
              /\ pc' = [pc EXCEPT ![w] = "poll"]
              /\ group'[k].wake = w
              /\ \A j \in Keys \ {k} : group'[j] = group[j]
  BY Zenon, AttachWakeEffect
<1>2. /\ k \in open /\ todo' = todo /\ down' = "resetting"
      /\ todo \in SUBSET Keys /\ Cardinality(open) <= Cardinality(free)
  BY Zenon DEF AttachWake, Typed, Enough
<1>3. open' = open \ {k}
  BY Zenon, <1>1, <1>2, WatchersAssumption
<1>4. w \in free /\ free \ {w} \subseteq free'
  BY <1>1, <1>2 DEF Free, Typed, Threads
<1>5. IsFiniteSet(open) /\ IsFiniteSet(free) /\ IsFiniteSet(free')
  BY Zenon, <1>2, WatchersAssumption, FS_Subset
<1> HIDE DEF open, free
<1>6. /\ Cardinality(open') = Cardinality(open) - 1
      /\ Cardinality(free \ {w}) = Cardinality(free) - 1
  <2>1. Cardinality(open \ {k}) = Cardinality(open) - 1
    BY Zenon, <1>2, <1>5, FS_RemoveElement
  <2>2. Cardinality(free \ {w}) = Cardinality(free) - 1
    BY Zenon, <1>4, <1>5, FS_RemoveElement
  <2> QED
    BY Zenon, <1>3, <2>1, <2>2
<1>7. Cardinality(free \ {w}) <= Cardinality(free')
  BY Zenon, <1>4, <1>5, FS_Subset
<1>8. /\ Cardinality(open) \in Nat /\ Cardinality(free) \in Nat
      /\ Cardinality(free') \in Nat
  BY Zenon, <1>5, FS_CardinalityType
<1>9. Cardinality(open') <= Cardinality(free')
  BY <1>2, <1>6, <1>7, <1>8
<1> QED
  BY Zenon, <1>2, <1>9 DEF Enough, open, free

\* A probe listener takes none.
LEMMA EnoughAttachProbe ==
    ASSUME Typed, NEW k \in Keys, AttachProbe(k)
    PROVE  Enough'
<1> DEFINE free == {w \in Watchers : Free(w)}
           open == {j \in todo : group[j].wake = NoThread}
<1>1. /\ todo' = todo \ {k} /\ todo \in SUBSET Keys /\ pc' = pc
      /\ group[k].wake # NoThread
      /\ Cardinality(open) <= Cardinality(free)
  BY Zenon DEF AttachProbe, Typed, Enough
<1>2. \A j \in Keys : group'[j].wake = group[j].wake
  BY Zenon, AttachProbeEffect
<1>3. open' = open /\ free' = free
  BY Zenon, <1>1, <1>2 DEF Free
<1>4. down' # "resetting" => todo' = {}
  BY Zenon DEF AttachProbe
<1>5. Cardinality(open') <= Cardinality(free')
  BY Zenon, <1>1, <1>3
<1> HIDE DEF open, free
<1> QED
  BY Zenon, <1>1, <1>4, <1>5 DEF Enough, open, free

\* There are always goroutines enough for the keys that are left.
LEMMA EnoughStep ==
    Typed /\ [Next]_vars => Enough'
<1> SUFFICES ASSUME Typed, [Next]_vars PROVE Enough'
  BY Zenon
<1>1. ASSUME NEW c \in Conns, NEW k \in Keys, Connect(c, k) PROVE Enough'
  BY Zenon, <1>1, EnoughFrame DEF Connect, Typed, Threads
<1>2. ASSUME NEW c \in Conns, AppAccepts(c) \/ HandleProbe(c) PROVE Enough'
  BY Zenon, <1>2, EnoughFrame DEF AppAccepts, HandleProbe, Typed, Threads
<1>3. ASSUME NEW w \in Watchers, PollReturns(w) PROVE Enough'
  BY Zenon, <1>3, EnoughFrame DEF PollReturns, Typed, Threads
<1>4. ASSUME NEW w \in Watchers, AlreadyRestored(w) PROVE Enough'
  BY Zenon, <1>4, EnoughFrame DEF AlreadyRestored, Typed, Threads
<1>5. ASSUME NEW w \in Watchers, RestoreLock(w) PROVE Enough'
  BY Zenon, <1>5, EnoughFrame DEF RestoreLock, Typed, Threads
<1>6. ASSUME NEW w \in Watchers, Restored(w) PROVE Enough'
  BY Zenon, <1>6, EnoughFrame DEF Restored, Typed, Threads
<1>7. ASSUME NEW w \in Watchers, CapacityDenied(w) PROVE Enough'
  BY Zenon, <1>7, EnoughFrame DEF CapacityDenied, Typed, Threads
<1>8. ASSUME NEW w \in Watchers, LockRegister(w) PROVE Enough'
  BY Zenon, <1>8, EnoughFrame DEF LockRegister, Typed, Threads
<1>9. ASSUME NEW w \in Watchers, RegisterNothing(w) PROVE Enough'
  BY Zenon, <1>9, EnoughFrame DEF RegisterNothing, Typed, Threads
<1>10. ASSUME NEW w \in Watchers, RegisterFails(w) PROVE Enough'
  BY Zenon, <1>10, EnoughFrame DEF RegisterFails, Typed, Threads
<1>11. ASSUME NEW w \in Watchers, ForwardToTarget(w) PROVE Enough'
  BY ZenonT(30), <1>11 DEF ForwardToTarget, MuFree, Typed, Enough
<1>12. ASSUME NEW w \in Watchers, RegisterListeners(w) PROVE Enough'
  BY Zenon, <1>12 DEF RegisterListeners, MuFree, Typed, Enough
<1>13. ASSUME NEW w \in Watchers, CloseListeners(w) PROVE Enough'
  BY Zenon, <1>13 DEF CloseListeners, StopPolling, MuFree, Typed, Enough
<1>14. ASSUME NEW k \in Keys, AttachWake(k) PROVE Enough'
  <2> QED
    BY Zenon, <1>14, EnoughAttachWake
<1>15. ASSUME NEW k \in Keys, AttachProbe(k) PROVE Enough'
  <2> QED
    BY Zenon, <1>15, EnoughAttachProbe
<1>16. CASE AppListens
  BY Zenon, <1>16, EnoughFrame DEF AppListens, Typed, Threads
<1>17. CASE ResetCloses
  <2> QED
    BY Zenon, <1>17, EnoughReset
<1>18. CASE TimerFires \/ ResetFails \/ CheckpointLock \/ Dumped \/ DumpFails
  BY Zenon, <1>18 DEF TimerFires, ResetFails, ScaleDownFailed, CheckpointLock,
       Dumped, DumpFails, Typed, Enough
<1>19. CASE UNCHANGED vars
  BY Zenon, <1>19, EnoughFrame DEF vars
<1>20. ASSUME NEW w \in Watchers, RegisterPartly(w) PROVE Enough'
  BY Zenon, <1>20, PartlyEffect DEF RegisterPartly, MuFree, Typed, Enough
<1> QED
  BY Zenon, <1>1, <1>2, <1>3, <1>4, <1>5, <1>6, <1>7, <1>8, <1>9, <1>10, <1>11,
       <1>12, <1>13, <1>14, <1>15, <1>16, <1>17, <1>18, <1>19, <1>20 DEF Next,
       WakeStep, DownStep

\* When a wake listener is left to attach, there is a goroutine for it.
LEMMA SpareStep ==
    Typed /\ [Next]_vars => Spare'
<1> SUFFICES ASSUME Typed, [Next]_vars,
                    down' = "resetting", NEW k \in todo',
                    group'[k].wake = NoThread
             PROVE  \E w \in Watchers : Free(w)'
  BY Zenon DEF Spare
<1> DEFINE free == {w \in Watchers : Free(w)'}
           open == {j \in todo' : group'[j].wake = NoThread}
<1>1. k \in open
  BY Zenon
<1>2. todo' \in SUBSET Keys /\ Cardinality(open) <= Cardinality(free)
  BY Zenon, EnoughStep DEF Enough
<1>3. IsFiniteSet(open) /\ IsFiniteSet(free)
  BY Zenon, <1>2, WatchersAssumption, FS_Subset
<1> HIDE DEF open, free
<1>4. Cardinality(open) # 0 /\ Cardinality(open) \in Nat
  BY Zenon, <1>1, <1>3, FS_EmptySet, FS_CardinalityType
<1>5. Cardinality(free) # 0
  BY <1>2, <1>3, <1>4, FS_CardinalityType
<1>6. free # {}
  BY Zenon, <1>5, FS_EmptySet
<1> QED
  BY Zenon, <1>6 DEF free

\* Every variable keeps its type.
LEMMA TypedStep == Typed /\ [Next]_vars => Typed'
  BY Zenon, FlagsStep, FoundsStep, GroupsStep, ThreadsStep, ConnectionsStep,
     EnoughStep, SpareStep
  DEF Typed

-----------------------------------------------------------------------------
(* The theorems. *)

\* Start has returned: the application is registered or waited for.
LEMMA InitIInv == Init => IInv
<1> SUFFICES ASSUME Init PROVE IInv
  BY Zenon
<1>1. PICK watch \in [Keys -> Watchers] :
          /\ group = [k \in Keys |->
                [app   |-> IF scaledDown THEN "none" ELSE "app",
                 wake  |-> IF scaledDown THEN watch[k] ELSE NoThread,
                 probe |-> scaledDown,
                 fwd   |-> FALSE,
                 prog  |-> TRUE]]
          /\ pc = [w \in Watchers |->
                IF scaledDown /\ \E k \in Keys : watch[k] = w
                THEN "poll" ELSE "idle"]
  BY Zenon DEF Init
<1>2. Flags
  BY Zenon DEF Init, Flags
<1>3. Founds
  BY Zenon DEF Init, Founds
<1>4. GroupsOK
  <2>1. ASSUME NEW k \in Keys
        PROVE  group[k] \in Groups
    BY Zenon, <1>1, <1>2 DEF Groups, Flags
  <2> QED
    BY Zenon, <1>1, <2>1 DEF GroupsOK
<1>5. Threads
  BY Zenon, <1>1, WatchersAssumption DEF Init, Threads, WakeLabels, DownLabels
<1>6. Connections
  BY Zenon, ConnsAssumption DEF Init, Connections, Places
<1>7. Enough /\ Spare
  BY Zenon DEF Init, Enough, Spare
<1>8. \A w \in Watchers : pc[w] \in {"idle", "poll"}
  BY Zenon, <1>1
<1>9. Process /\ Registrar
  BY Zenon, <1>1, <1>8 DEF Init, Process, Registrar
<1>10. Covered
  BY <1>1, WatchersAssumption DEF Init, Covered
<1>11. Polled
  BY Zenon, <1>1 DEF Polled
<1>12. Registered
  BY Zenon, <1>1 DEF Registered
<1>13. Closing /\ Alone
  BY Zenon, <1>8 DEF Init, Closing, Alone
<1>14. Sorted /\ Clients
  BY Zenon, <1>8 DEF Init, Sorted, Clients
<1> QED
  BY Zenon, <1>2, <1>3, <1>4, <1>5, <1>6, <1>7, <1>9, <1>10, <1>11, <1>12, <1>13,
     <1>14 DEF IInv, Typed

\* Every step of wake, Reset and the dump keeps the invariant.
LEMMA IInvStep == Prompt /\ IInv /\ [Next]_vars => IInv'
<1> SUFFICES ASSUME Prompt, IInv, [Next]_vars PROVE IInv'
  BY Zenon
<1> USE DEF IInv
<1>1. Typed'
  BY Zenon, TypedStep
<1>2. Process' /\ Registrar' /\ Polled' /\ Registered' /\ Closing'
  BY Zenon, ProcessStep, RegistrarStep, PolledStep, RegisteredStep, ClosingStep
<1>3. Covered'
  BY Zenon, CoveredStep
<1>4. Alone' /\ Sorted' /\ Clients'
  BY Zenon, <1>3, AloneStep, SortedStep, ClientsStep
<1> QED
  BY Zenon, <1>1, <1>2, <1>3, <1>4

\* The fields of the activator have their types and CheckpointRestore is held
\* by the goroutine inside Restore or checkpoint, however late a wake-up is.
THEOREM TypeCorrect == Spec => []TypeOK
<1>1. Typed => TypeOK
  BY Zenon DEF Typed, TypeOK, Flags, Founds, GroupsOK, Threads, Connections, Enough
<1>2. Init => Typed
  BY Zenon, InitIInv DEF IInv
<1> QED
  BY <1>1, <1>2, TypedStep, PTL DEF Spec

\* When nobody is inside wake or scaleDown and no mutex was kept, the
\* goroutines poll or have ended.
LEMMA QuietPolls ==
    ASSUME IInv, Quiet, Calm, NEW w \in Watchers
    PROVE  pc[w] \in {"idle", "poll"}
<1>1. \A v \in Watchers : ~Runnable(v)
  BY Zenon DEF Quiet
<1>2. register = NoThread
  BY Zenon, <1>1 DEF IInv, Typed, Threads, Registrar, Runnable
<1> QED
  BY Zenon, <1>1, <1>2 DEF Runnable

\* A container that rests scaled down can be woken at each of its ports, or
\* its connections are forwarded: no wake-up closes what Reset has set up for
\* the next one.
THEOREM WakeableCorrect == ASSUME Prompt PROVE Spec => []Wakeable
<1>1. IInv => Wakeable
  <2> SUFFICES ASSUME IInv, scaledDown, Quiet, Calm, NEW k \in Keys,
                      group[k].app # "fwd"
               PROVE  group[k].wake # NoThread /\ pc[group[k].wake] = "poll"
    BY Zenon DEF Wakeable, Calm
  <2>1. group[k] \in Groups
    BY Zenon DEF IInv, Typed, GroupsOK
  <2>2. group[k].app = "none"
    BY ZenonT(30), <2>1, GroupsClosed DEF IInv, Process
  <2>3. group[k].wake # NoThread /\ group[k].wake \in Watchers
    BY Zenon, <2>1, <2>2, GroupsClosed DEF IInv, Covered
  <2>4. pc[group[k].wake] # "idle"
    BY Zenon, <2>3 DEF IInv, Polled
  <2> QED
    BY Zenon, <2>3, <2>4, QuietPolls
<1> QED
  BY <1>1, InitIInv, IInvStep, PTL DEF Spec

\* The sockets of a container that rests awake are in all its app slots.
THEOREM DirectCorrect == ASSUME Prompt PROVE Spec => []Direct
<1>1. IInv => (~scaledDown /\ Quiet /\ upset = {} =>
                  \A k \in Keys : group[k].app = "app")
  <2> SUFFICES ASSUME IInv, ~scaledDown, Quiet, upset = {}
               PROVE  \A k \in Keys : group[k].app = "app"
    BY Zenon
  <2>1. Calm
    BY Zenon DEF Calm
  <2> QED
    BY Zenon, <2>1, QuietPolls DEF IInv, Registered
<1>2. TypeOK /\ IInv => Direct
  BY Zenon, <1>1 DEF Direct
<1> QED
  BY <1>2, TypeCorrect, InitIInv, IInvStep, PTL DEF Spec

\* The reuseport activator implements Activator: whatever the order of
\* connections, wake-ups, Resets and dumps, a connection is held until the
\* application or a forwarder takes it, it is lost only after something went
\* wrong, and the application is not woken for probes.
THEOREM ImplementsCorrect == ASSUME Prompt PROVE Spec => Implements
<1>1. Init => Promise!Init
  <2> SUFFICES ASSUME Init PROVE Promise!Init
    BY Zenon
  <2>1. [c \in Conns |-> Seen(at[c])] = [c \in Conns |-> "new"]
    BY Zenon DEF Init, Seen
  <2>2. kubelet \in SUBSET Conns /\ listening \in BOOLEAN
    BY Zenon, ConnsAssumption DEF Init
  <2>3. (\E k \in Keys : group[k].app = "fwd") = FALSE
    <3>1. ASSUME NEW k \in Keys PROVE group[k].app # "fwd"
      BY DEF Init
    <3> QED
      BY Zenon, <3>1
  <2>4. (upset # {}) = FALSE
    BY Zenon DEF Init
  <2> QED
    BY Zenon, <2>1, <2>2, <2>3, <2>4 DEF Promise!Init
<1>2. IInv /\ IInv' /\ [Next]_vars => [Promise!Next]_(Promise!vars)
  <2> SUFFICES ASSUME IInv, IInv', [Next]_vars PROVE Promise!Next
    BY Zenon
  <2> DEFINE conn == [c \in Conns |-> Seen(at[c])]
  <2>1. \A c \in Conns : ConnStep(c)
    BY Zenon, ConnSteps DEF IInv
  <2>2. ASSUME NEW c \in Conns
        PROVE  /\ conn[c] = Seen(at[c]) /\ conn'[c] = Seen(at'[c])
               /\ at[c] \in Places /\ at'[c] \in Places
    BY Zenon DEF IInv, Typed, Connections
  <2>3. ASSUME NEW p \in Places
        PROVE  /\ p = "new" => Seen(p) = "new"
               /\ p \in {"app", "wake", "probe"} => Seen(p) = "waiting"
               /\ p \in {"served", "answered"} => Seen(p) = "served"
               /\ p = "refused" => Seen(p) = "lost"
    BY Zenon DEF Seen, Places
  <2>4. Promise!ConnsMove
    <3>1. conn' \in [Conns -> {"new", "waiting", "served", "lost"}]
      BY Zenon, <2>2, <2>3 DEF Places
    <3>2. ASSUME NEW c \in Conns
          PROVE  \/ conn'[c] = conn[c]
                 \/ conn[c] = "new" /\ conn'[c] = "waiting"
                 \/ /\ conn[c] \in {"new", "waiting"} /\ conn'[c] = "served"
                    /\ \/ listening \/ (\E k \in Keys : group'[k].app = "fwd")
                       \/ c \in kubelet
                 \/ /\ conn[c] \in {"new", "waiting"} /\ conn'[c] = "lost"
                    /\ upset' # {}
      BY Zenon, <2>1, <2>2, <2>3 DEF ConnStep
    <3> QED
      BY Zenon, <3>1, <3>2 DEF Promise!ConnsMove, Promise!Arrives, Promise!Served,
                        Promise!Lost
  <2>5. Promise!WakesFor
    <3>1. Client => \E c \in Conns \ kubelet : conn[c] # "new"
      BY Zenon, <2>2, <2>3 DEF Client, Places
    <3> QED
      BY Zenon, <3>1, WakesForStep DEF Promise!WakesFor, IInv
  <2>6. listening' \in BOOLEAN
    BY Zenon DEF IInv, Typed, Flags
  <2>7. (upset # {} => upset' # {}) /\ kubelet' = kubelet
    BY Zenon, UpsetGrows
  <2> QED
    BY Zenon, <2>4, <2>5, <2>6, <2>7 DEF Promise!Next
<1> QED
  BY <1>1, <1>2, InitIInv, IInvStep, PTL DEF Spec, Implements, Promise!Spec
=============================================================================
